------------------------------ MODULE EditLock ------------------------------
(***************************************************************************)
(* The lock of a message while it is edited, Locker: a tab of a browser    *)
(* takes it (LockAction.add) and opens the editor; every tab polls the     *)
(* server, which prolongs the locks of the tab's user and names them in    *)
(* its reply; a tab that is named a lock it has no editor for frees it     *)
(* (LockAction.free).  Nothing frees it when the editor is closed.  The    *)
(* sender of mail, MessageTypeEmail.sendMessages, asks for the lock too.   *)
(*                                                                         *)
(* One message.  Locker keeps a Lock twice, by id and in a set of its      *)
(* user; only the time of the first is looked at.                          *)
(***************************************************************************)
EXTENDS Naturals

CONSTANTS
    User,
    Tab,       \* pages in browsers, <<user, number>>: as many as a user likes
    Life,      \* Lock.LOCK_TIME in units of time
    PollTime,  \* bound: the longest time between two polls of a tab in time
    None

ASSUME EditLockAssumption ==
    /\ Tab \subseteq User \X Nat
    /\ Life \in Nat /\ PollTime \in Nat /\ PollTime < Life
    /\ None \notin User

VARIABLES
    lock,    \* the maps of Locker, see Locks
    tab,     \* [Tab -> TabState]
    unsent,  \* the message has no to_dt
    sender   \* "idle", "listed", or "sending" the message

vars == <<lock, tab, unsent, sender>>

\* "stored" is the Lock in locksById; "sets" tells whether the set of a user in
\* locksByUser has no equal Lock, the stored one, or another that is equal to it.
Stored == [user : User, left : 0..Life]

ASSUME NoneAssumption == None \notin Stored

Locks == [stored : Stored \cup {None}, sets : [User -> {"none", "stored", "other"}]]

TabState ==
    [open : BOOLEAN,
     editor : {"none", "asking", "opening", "open"},
     seen : User \cup {None},             \* the user of existLock in addLock
     reply : {"none", "nothing", "lock"}, \* of a poll, on its way
     age : 0..PollTime]                   \* time since the last poll

TypeOK ==
    /\ lock \in Locks
    /\ tab \in [Tab -> TabState]
    /\ unsent \in BOOLEAN
    /\ sender \in {"idle", "listed", "sending"}

ClosedTab == [open |-> FALSE, editor |-> "none", seen |-> None, reply |-> "none", age |-> 0]

Init ==
    /\ lock = [stored |-> None, sets |-> [u \in User |-> "none"]]
    /\ tab = [t \in Tab |-> ClosedTab]
    /\ unsent = TRUE
    /\ sender = "idle"

-----------------------------------------------------------------------------
(* Locker *)

\* The sets after the stored Lock was removed or replaced: a HashSet does not
\* know of it.
Kept(sets, u) == IF sets[u] = "stored" THEN "other" ELSE sets[u]

FreeLockKeepsSet(L, u) ==
    [stored |-> None, sets |-> [v \in User |-> Kept(L.sets, v)]]

\* freeLock(new Lock(id, u)), whoever the owner is.
FreeLock(L, u) ==
    [stored |-> None,
     sets |-> [v \in User |-> IF v = u THEN "none" ELSE Kept(L.sets, v)]]

\* The end of addLock; HashSet.add keeps an equal Lock that it has.
PutLock(L, u) ==
    [stored |-> [user |-> u, left |-> Life],
     sets |-> [v \in User |->
                  IF v = u /\ L.sets[v] = "none" THEN "stored" ELSE Kept(L.sets, v)]]

ProlongAnyLock(L, u) ==
    IF L.stored # None THEN [L EXCEPT !.stored.left = Life] ELSE L

ProlongAdds(L, u) ==
    IF L.sets[u] = "stored" THEN [L EXCEPT !.stored.left = @ + Life] ELSE L

\* GetPoolTasksEvent: the Lock in the set of the user is prolonged.
Prolong(L, u) ==
    IF L.sets[u] = "stored" THEN [L EXCEPT !.stored.left = Life] ELSE L

Held == lock.stored # None /\ lock.stored.left > 0

Expired == lock.stored # None /\ lock.stored.left = 0

OwnedBy(u) == lock.stored # None /\ lock.stored.user = u

-----------------------------------------------------------------------------
(* Browsers *)

\* A poll comes to the server: prolong the lock and name it.
Polled(t, state) ==
    /\ tab' = [tab EXCEPT ![t] =
                  [state EXCEPT !.reply = IF lock.sets[t[1]] = "none" THEN "nothing" ELSE "lock",
                                !.age = 0]]
    /\ lock' = Prolong(lock, t[1])
    /\ UNCHANGED <<unsent, sender>>

\* shell.jsp: the page is loaded and starts its first poll.
Open(t) ==
    /\ ~tab[t].open
    /\ Polled(t, [ClosedTab EXCEPT !.open = TRUE])

\* The tab is closed or crashes, whatever it waits for.
Leave(t) ==
    /\ tab[t].open
    /\ tab[t].editor # "asking"
    /\ tab' = [tab EXCEPT ![t] = ClosedTab]
    /\ UNCHANGED <<lock, unsent, sender>>

Poll(t) ==
    /\ tab[t].open
    /\ tab[t].reply = "none"
    /\ Polled(t, tab[t])

ReplyIgnored(t) ==
    /\ tab[t].reply # "none"
    /\ tab[t].editor # "asking"
    /\ tab' = [tab EXCEPT ![t].reply = "none"]
    /\ UNCHANGED <<lock, unsent, sender>>

ReplyAlwaysFrees(t) ==
    /\ tab[t].reply # "none"
    /\ tab[t].editor # "asking"
    /\ lock' = IF tab[t].reply = "lock" THEN FreeLock(lock, t[1]) ELSE lock
    /\ tab' = [tab EXCEPT ![t].reply = "none"]
    /\ UNCHANGED <<unsent, sender>>

\* The reply comes to the tab: LockEvent, and a synchronous request to free the
\* lock if the tab has no editor.  Then the timer for the next poll is set.
Reply(t) ==
    /\ tab[t].reply # "none"
    /\ tab[t].editor # "asking"
    /\ lock' = IF tab[t].reply = "lock" /\ tab[t].editor # "open"
               THEN FreeLock(lock, t[1]) ELSE lock
    /\ tab' = [tab EXCEPT ![t].reply = "none"]
    /\ UNCHANGED <<unsent, sender>>

AskAnyway(t) ==
    /\ tab[t].open
    /\ tab[t].editor = "none"
    /\ tab' = [tab EXCEPT ![t].editor = "asking",
                          ![t].seen = IF Expired THEN lock.stored.user ELSE None]
    /\ UNCHANGED <<lock, unsent, sender>>

\* A click on "edit" and a synchronous request, addLock: read locksById ...
Ask(t) ==
    /\ tab[t].open
    /\ tab[t].editor = "none"
    /\ Held => OwnedBy(t[1])
    /\ tab' = [tab EXCEPT
                  ![t].editor = IF OwnedBy(t[1]) THEN "opening" ELSE "asking",
                  ![t].seen = IF Expired /\ ~OwnedBy(t[1]) THEN lock.stored.user ELSE None]
    /\ UNCHANGED <<lock, unsent, sender>>

\* ... and free the Lock that has expired and put the new one.
Take(t) ==
    /\ tab[t].editor = "asking"
    /\ lock' = PutLock(IF tab[t].seen = None THEN lock ELSE FreeLock(lock, tab[t].seen),
                       t[1])
    /\ tab' = [tab EXCEPT ![t].editor = "opening", ![t].seen = None]
    /\ UNCHANGED <<unsent, sender>>

\* The editor is loaded, by a request of its own ...
Edit(t) ==
    /\ tab[t].editor = "opening"
    /\ tab' = [tab EXCEPT ![t].editor = "open"]
    /\ UNCHANGED <<lock, unsent, sender>>

\* ... and closed, saved or not; the parameter lockFree is empty.
EndEdit(t) ==
    /\ tab[t].editor = "open"
    /\ tab' = [tab EXCEPT ![t].editor = "none"]
    /\ UNCHANGED <<lock, unsent, sender>>

\* A unit of time passes.
Tick ==
    /\ lock' = IF Held THEN [lock EXCEPT !.stored.left = @ - 1] ELSE lock
    /\ tab' = [t \in Tab |->
                  IF tab[t].open /\ tab[t].age < PollTime
                  THEN [tab[t] EXCEPT !.age = @ + 1] ELSE tab[t]]
    /\ UNCHANGED <<unsent, sender>>

-----------------------------------------------------------------------------
(* The sender of mail *)

\* getUnsendMessageList
List ==
    /\ sender = "idle"
    /\ unsent
    /\ sender' = "listed"
    /\ UNCHANGED <<lock, tab, unsent>>

SkipOnly ==
    /\ sender = "listed"
    /\ Expired
    /\ sender' = "idle"
    /\ UNCHANGED <<lock, tab, unsent>>

\* checkLock is true for a Lock that has expired, and frees it: the message is
\* skipped.
Skip ==
    /\ sender = "listed"
    /\ Expired
    /\ lock' = FreeLock(lock, lock.stored.user)
    /\ sender' = "idle"
    /\ UNCHANGED <<tab, unsent>>

Send ==
    /\ sender = "listed"
    /\ ~Expired
    /\ sender' = "sending"
    /\ UNCHANGED <<lock, tab, unsent>>

\* updateMessageProcess, also after an exception.
Mark ==
    /\ sender = "sending"
    /\ unsent' = FALSE
    /\ sender' = "idle"
    /\ UNCHANGED <<lock, tab>>

Sender == List \/ Skip \/ Send \/ Mark

Next ==
    \/ \E t \in Tab :
          \/ Open(t) \/ Leave(t) \/ Poll(t) \/ Reply(t)
          \/ Ask(t) \/ Take(t) \/ Edit(t) \/ EndEdit(t)
    \/ Tick \/ Sender

Spec == Init /\ [][Next]_vars

\* The code does not enforce the conditions under which the lock works.  Between
\* the two accesses of an addLock to the maps no other addLock begins, and no poll
\* prolongs the Lock that was found expired; a user who has the lock has one page
\* open; an editor is loaded before a reply to a poll comes to its tab; the page of
\* the user who has the lock polls in time.
Asking == \E t \in Tab : tab[t].editor = "asking"

OneTab ==
    \A r, t \in Tab :
        tab[r].open /\ tab[t].open /\ r[1] = t[1] /\ OwnedBy(t[1]) => r = t

InTime == \A t \in Tab : tab[t].open /\ OwnedBy(t[1]) => tab[t].age < PollTime

CareStep ==
    \/ \E t \in Tab :
          \/ /\ Asking => lock.sets[t[1]] = "none"
             /\ Open(t) \/ Poll(t)
          \/ ~Asking /\ Ask(t)
          \/ tab[t].editor # "opening" /\ Reply(t)
          \/ Take(t) \/ Leave(t) \/ Edit(t) \/ EndEdit(t)
    \/ InTime /\ Tick
    \/ Sender

CareNext == CareStep /\ OneTab'

\* Time passes, requests are answered, the sender is run again and again; a user
\* does not leave every page before the reply to its first poll.
Fairness ==
    /\ \A t \in Tab :
          /\ WF_vars(Poll(t)) /\ WF_vars(Take(t)) /\ WF_vars(Edit(t))
          /\ SF_vars(Reply(t))
    /\ WF_vars(Tick) /\ WF_vars(Sender)

CareSpec == Init /\ [][CareNext]_vars /\ Fairness

-----------------------------------------------------------------------------
(* Properties *)

\* With care: who has the editor has the lock, and it has not expired; so two users
\* never edit the message at once.
EditorHoldsLock ==
    \A t \in Tab :
        tab[t].editor \in {"opening", "open"} => Held /\ OwnedBy(t[1])

\* With care: the Lock that polls prolong is the one that others look at.
PollsProlong ==
    \A u \in User : OwnedBy(u) <=> lock.sets[u] = "stored"

\* Without any care: a lock gains time only by a page of its owner that is open, so
\* that of a user who has left no other poll, addLock or sender prolongs it.
OwnerProlongs ==
    [][\A u \in User :
          OwnedBy(u) /\ OwnedBy(u)' /\ lock'.stored.left > lock.stored.left
          => \E t \in Tab : t[1] = u /\ tab'[t].open]_vars

\* With care: the lock implements a lease.  Who edits holds it, it passes to nobody
\* else while it has time left, and it does not lapse while its owner edits.
Owner == IF Held THEN lock.stored.user ELSE None

Editors == {u \in User : \E t \in Tab : t[1] = u /\ tab[t].editor \in {"opening", "open"}}

TheLease == INSTANCE Lease WITH owner <- Owner, editing <- Editors

ImplementsLease == TheLease!Spec

\* With care: a lock under which nobody edits, left by an editor that was closed
\* or by a tab that is gone, ends: it is freed or it expires.
AbandonedLockEnds ==
    \A u \in User :
        OwnedBy(u) ~> \/ ~Held \/ ~OwnedBy(u)
                      \/ \E t \in Tab : t[1] = u /\ tab[t].editor # "none"

\* With care: when nobody edits the message any more it is sent, whatever lock
\* was left on it.
MailGoesOut == <>[](\A t \in Tab : tab[t].editor = "none") => <>~unsent

\* What the sender says, "Skipping message on lock": it sends no message that is
\* locked.
MailWaitsForEditor == [][Send => ~Held]_vars

=============================================================================
