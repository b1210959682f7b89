--------------------------- MODULE EditLockProofs ---------------------------
(* Theorems about EditLock and their proofs. *)
EXTENDS EditLock, TLAPS

-----------------------------------------------------------------------------
(* Types *)

\* The operations of Locker give maps of Locker.
LEMMA LocksLemma ==
    ASSUME NEW L \in Locks, NEW u \in User
    PROVE  /\ FreeLock(L, u) \in Locks
           /\ PutLock(L, u) \in Locks
           /\ L.sets[u] = "stored" /\ L.stored # None => Prolong(L, u) \in Locks
           /\ L.sets[u] # "stored" => Prolong(L, u) = L
<1>1. ASSUME NEW v \in User
      PROVE  Kept(L.sets, v) \in {"none", "stored", "other"}
  BY DEF Locks, Kept
<1>2. Life \in 0..Life
  BY EditLockAssumption
<1>3. FreeLock(L, u) \in Locks
  BY <1>1 DEF FreeLock, Locks
<1>4. PutLock(L, u) \in Locks
  BY <1>1, <1>2 DEF PutLock, Locks, Stored
<1>5. ASSUME L.sets[u] = "stored", L.stored # None
      PROVE  Prolong(L, u) \in Locks
  BY <1>2, <1>5 DEF Prolong, Locks, Stored
<1> QED
  BY <1>3, <1>4, <1>5 DEF Prolong

\* The user of a stored Lock that is in a set.
SetsKnow == \A u \in User : lock.sets[u] = "stored" => OwnedBy(u)

TypeInv == TypeOK /\ SetsKnow

\* A tab of a type, with fields changed, is a tab.
LEMMA TabLemma ==
    ASSUME TypeOK, NEW t \in Tab, NEW state \in TabState, tab' = [tab EXCEPT ![t] = state]
    PROVE  tab' \in [Tab -> TabState]
  BY DEF TypeOK

\* What a poll does to the maps of Locker and to its tab.
LEMMA PolledLemma ==
    ASSUME TypeInv, NEW t \in Tab, NEW state \in TabState, Polled(t, state)
    PROVE  /\ TypeOK'
           /\ lock'.sets = lock.sets
           /\ lock'.stored = IF lock.sets[t[1]] = "stored"
                             THEN [user |-> t[1], left |-> Life] ELSE lock.stored
           /\ lock.sets[t[1]] = "stored" => OwnedBy(t[1])
           /\ tab'[t].open = state.open
           /\ tab'[t].editor = state.editor
           /\ tab'[t].seen = state.seen
           /\ tab'[t].reply = IF lock.sets[t[1]] = "none" THEN "nothing" ELSE "lock"
           /\ tab'[t].age = 0
           /\ \A r \in Tab \ {t} : tab'[r] = tab[r]
<1>1. t[1] \in User
  BY EditLockAssumption
<1>2. lock \in Locks /\ tab \in [Tab -> TabState]
  BY DEF TypeInv, TypeOK
<1> DEFINE x == [state EXCEPT !.reply = IF lock.sets[t[1]] = "none" THEN "nothing" ELSE "lock",
                              !.age = 0]
<1>3. 0 \in 0..PollTime
  BY EditLockAssumption
<1>4. x \in TabState
  BY <1>3 DEF TabState
<1>5. tab' = [tab EXCEPT ![t] = x] /\ lock' = Prolong(lock, t[1]) /\ UNCHANGED <<unsent, sender>>
  BY DEF Polled
<1>6. lock.sets[t[1]] = "stored" => OwnedBy(t[1])
  BY <1>1 DEF TypeInv, SetsKnow
<1>7. lock' \in Locks
  BY <1>1, <1>2, <1>5, <1>6, LocksLemma DEF OwnedBy
<1>8. tab' \in [Tab -> TabState]
  BY <1>2, <1>4, <1>5
<1>9. /\ lock'.sets = lock.sets
      /\ lock'.stored = IF lock.sets[t[1]] = "stored"
                        THEN [user |-> t[1], left |-> Life] ELSE lock.stored
  <2>1. CASE lock.sets[t[1]] = "stored"
    <3>1. lock.stored \in Stored /\ lock.stored.user = t[1]
      BY <1>2, <1>6, <2>1 DEF OwnedBy, Locks
    <3>2. [lock.stored EXCEPT !.left = Life] = [user |-> t[1], left |-> Life]
      BY <3>1 DEF Stored
    <3>3. lock' = [lock EXCEPT !.stored = [lock.stored EXCEPT !.left = Life]]
      BY <1>5, <2>1 DEF Prolong
    <3> QED
      BY <1>2, <2>1, <3>2, <3>3 DEF Locks
  <2>2. CASE lock.sets[t[1]] # "stored"
    BY <1>5, <2>2 DEF Prolong
  <2> QED
    BY <2>1, <2>2
<1>10. tab'[t] = x /\ \A r \in Tab \ {t} : tab'[r] = tab[r]
  BY <1>2, <1>5
<1>11. TypeOK'
  BY <1>5, <1>7, <1>8 DEF TypeInv, TypeOK
<1>12. /\ x.open = state.open /\ x.editor = state.editor /\ x.seen = state.seen
       /\ x.reply = IF lock.sets[t[1]] = "none" THEN "nothing" ELSE "lock"
       /\ x.age = 0
  BY DEF TabState
<1> HIDE DEF x
<1> QED
  BY <1>6, <1>9, <1>10, <1>11, <1>12

\* A closed tab is a tab, and so is the one of a page that is loaded.
LEMMA ClosedTabLemma ==
    ClosedTab \in TabState /\ [ClosedTab EXCEPT !.open = TRUE] \in TabState
<1>1. 0 \in 0..PollTime
  BY EditLockAssumption
<1> QED
  BY <1>1 DEF ClosedTab, TabState

\* The sets and the owner after freeLock and after the end of addLock.
LEMMA FreeLockLemma ==
    ASSUME NEW L \in Locks, NEW u \in User
    PROVE  /\ FreeLock(L, u).stored = None
           /\ \A v \in User : FreeLock(L, u).sets[v] # "stored"
           /\ FreeLock(L, u).sets[u] = "none"
           /\ \A v \in User : L.sets[v] = "none" => FreeLock(L, u).sets[v] = "none"
  BY DEF FreeLock, Kept

LEMMA PutLockLemma ==
    ASSUME NEW L \in Locks, NEW u \in User
    PROVE  /\ PutLock(L, u).stored = [user |-> u, left |-> Life]
           /\ PutLock(L, u).stored # None
           /\ \A v \in User : PutLock(L, u).sets[v] = "stored" => v = u
           /\ L.sets[u] = "none" => PutLock(L, u).sets[u] = "stored"
           /\ \A v \in User \ {u} : L.sets[v] = "none" => PutLock(L, u).sets[v] = "none"
<1>1. [user |-> u, left |-> Life] \in Stored
  BY EditLockAssumption DEF Stored
<1> QED
  BY <1>1, NoneAssumption DEF PutLock, Kept

\* A unit of time, as it changes the lock and the tabs.
LEMMA TickLemma ==
    ASSUME TypeOK, Tick
    PROVE  /\ TypeOK'
           /\ lock'.sets = lock.sets
           /\ lock'.stored = None <=> lock.stored = None
           /\ lock.stored # None => lock'.stored.user = lock.stored.user
           /\ Held => lock'.stored.left = lock.stored.left - 1
           /\ \A t \in Tab :
                 /\ tab'[t].open = tab[t].open /\ tab'[t].editor = tab[t].editor
                 /\ tab'[t].seen = tab[t].seen /\ tab'[t].reply = tab[t].reply
                 /\ tab[t].open /\ tab[t].age < PollTime => tab'[t].age = tab[t].age + 1
<1>1. lock \in Locks /\ tab \in [Tab -> TabState]
  BY DEF TypeOK
<1>2. /\ lock' \in Locks
      /\ lock'.sets = lock.sets
      /\ lock'.stored = None <=> lock.stored = None
      /\ lock.stored # None => lock'.stored.user = lock.stored.user
      /\ Held => lock'.stored.left = lock.stored.left - 1
  <2>1. CASE Held
    <3> DEFINE s == [user |-> lock.stored.user, left |-> lock.stored.left - 1]
    <3>1. lock.stored \in Stored /\ lock.stored # None /\ lock.stored.left > 0
      BY <1>1, <2>1 DEF Held, Locks
    <3>2. [lock.stored EXCEPT !.left = lock.stored.left - 1] = s /\ s \in Stored
      BY <3>1, EditLockAssumption DEF Stored
    <3>3. lock' = [lock EXCEPT !.stored = [lock.stored EXCEPT !.left = lock.stored.left - 1]]
      BY <2>1 DEF Tick
    <3>4. lock'.stored = s /\ lock'.sets = lock.sets /\ lock' \in Locks
      BY <1>1, <3>2, <3>3 DEF Locks
    <3>5. s # None
      BY <3>2, NoneAssumption
    <3> QED
      BY <3>1, <3>4, <3>5
  <2>2. CASE ~Held
    BY <1>1, <2>2 DEF Tick
  <2> QED
    BY <2>1, <2>2
<1>3. ASSUME NEW t \in Tab
      PROVE  /\ tab'[t] \in TabState
             /\ tab'[t].open = tab[t].open /\ tab'[t].editor = tab[t].editor
             /\ tab'[t].seen = tab[t].seen /\ tab'[t].reply = tab[t].reply
             /\ tab[t].open /\ tab[t].age < PollTime => tab'[t].age = tab[t].age + 1
  <2>1. tab[t] \in TabState
    BY <1>1
  <2>2. tab'[t] = IF tab[t].open /\ tab[t].age < PollTime
                  THEN [tab[t] EXCEPT !.age = tab[t].age + 1] ELSE tab[t]
    BY DEF Tick
  <2>3. CASE tab[t].open /\ tab[t].age < PollTime
    <3> DEFINE n == tab[t].age + 1
    <3>1. n \in 0..PollTime
      BY <2>1, <2>3, EditLockAssumption DEF TabState
    <3>2. tab'[t] = [tab[t] EXCEPT !.age = n]
      BY <2>2, <2>3
    <3> HIDE DEF n
    <3>3. tab'[t] \in TabState /\ tab'[t].age = n
      BY <2>1, <3>1, <3>2 DEF TabState
    <3> QED
      BY <2>1, <3>2, <3>3 DEF TabState, n
  <2> QED
    BY <2>1, <2>2, <2>3
<1>4. tab' \in [Tab -> TabState]
  BY <1>3 DEF Tick
<1> QED
  BY <1>2, <1>3, <1>4 DEF TypeOK, Tick

\* The steps that change no lock.
LEMMA LocalStep ==
    ASSUME TypeOK, NEW t \in Tab, Leave(t) \/ Ask(t) \/ Edit(t) \/ EndEdit(t)
    PROVE  TypeOK' /\ UNCHANGED <<lock, unsent, sender>>
<1>1. lock \in Locks /\ tab \in [Tab -> TabState]
  BY DEF TypeOK
<1>2. tab[t] \in TabState
  BY <1>1
<1>3. UNCHANGED <<lock, unsent, sender>>
  BY DEF Leave, Ask, Edit, EndEdit
<1>4. CASE Leave(t)
  BY <1>1, <1>3, <1>4, ClosedTabLemma DEF Leave, TypeOK
<1>5. CASE Ask(t)
  <2> DEFINE e == IF OwnedBy(t[1]) THEN "opening" ELSE "asking"
             n == IF Expired /\ ~OwnedBy(t[1]) THEN lock.stored.user ELSE None
  <2>1. n \in User \cup {None}
    BY <1>1 DEF Expired, Locks, Stored
  <2>2. tab' = [tab EXCEPT ![t] = [tab[t] EXCEPT !.editor = e, !.seen = n]]
    BY <1>1, <1>5 DEF Ask
  <2>3. e \in {"none", "asking", "opening", "open"}
    OBVIOUS
  <2> HIDE DEF e, n
  <2>4. [tab[t] EXCEPT !.editor = e, !.seen = n] \in TabState
    BY <1>2, <2>1, <2>3 DEF TabState
  <2> QED
    BY <1>1, <1>3, <2>2, <2>4 DEF TypeOK
<1>6. CASE Edit(t) \/ EndEdit(t)
  <2>1. PICK e \in {"none", "open"} : tab' = [tab EXCEPT ![t].editor = e]
    BY <1>6 DEF Edit, EndEdit
  <2>2. [tab[t] EXCEPT !.editor = e] \in TabState
    BY <1>2 DEF TabState
  <2>3. tab' = [tab EXCEPT ![t] = [tab[t] EXCEPT !.editor = e]]
    BY <1>1, <2>1
  <2> QED
    BY <1>1, <1>3, <2>2, <2>3 DEF TypeOK
<1> QED
  BY <1>4, <1>5, <1>6

\* What the reply to a poll changes.
LEMMA ReplyLemma ==
    ASSUME TypeOK, NEW t \in Tab, Reply(t)
    PROVE  /\ TypeOK'
           /\ IF tab[t].reply = "lock" /\ tab[t].editor # "open"
              THEN lock' = FreeLock(lock, t[1]) ELSE lock' = lock
           /\ tab' = [tab EXCEPT ![t] = [tab[t] EXCEPT !.reply = "none"]]
           /\ [tab[t] EXCEPT !.reply = "none"] \in TabState
<1>1. lock \in Locks /\ tab \in [Tab -> TabState] /\ tab[t] \in TabState /\ t[1] \in User
  BY EditLockAssumption DEF TypeOK
<1>2. lock' = (IF tab[t].reply = "lock" /\ tab[t].editor # "open"
               THEN FreeLock(lock, t[1]) ELSE lock)
  BY DEF Reply
<1>3. lock' \in Locks
  BY <1>1, <1>2, LocksLemma
<1>4. tab' = [tab EXCEPT ![t] = [tab[t] EXCEPT !.reply = "none"]]
  BY <1>1 DEF Reply
<1>5. [tab[t] EXCEPT !.reply = "none"] \in TabState
  BY <1>1 DEF TabState
<1>6. tab' \in [Tab -> TabState]
  BY <1>1, <1>4, <1>5
<1> QED
  BY <1>2, <1>3, <1>4, <1>5, <1>6 DEF TypeOK, Reply

\* What the end of addLock changes.
LEMMA TakeLemma ==
    ASSUME TypeOK, NEW t \in Tab, Take(t)
    PROVE  /\ TypeOK'
           /\ \E L \in Locks :
                 /\ L = IF tab[t].seen = None THEN lock ELSE FreeLock(lock, tab[t].seen)
                 /\ lock' = PutLock(L, t[1])
           /\ tab' = [tab EXCEPT ![t] = [tab[t] EXCEPT !.editor = "opening", !.seen = None]]
           /\ [tab[t] EXCEPT !.editor = "opening", !.seen = None] \in TabState
<1>1. lock \in Locks /\ tab \in [Tab -> TabState] /\ tab[t] \in TabState /\ t[1] \in User
  BY EditLockAssumption DEF TypeOK
<1> DEFINE L == IF tab[t].seen = None THEN lock ELSE FreeLock(lock, tab[t].seen)
<1>2. L \in Locks
  BY <1>1, LocksLemma DEF TabState
<1>3. lock' = PutLock(L, t[1])
  BY DEF Take
<1>4. lock' \in Locks
  BY <1>1, <1>2, <1>3, LocksLemma
<1>5. tab' = [tab EXCEPT ![t] = [tab[t] EXCEPT !.editor = "opening", !.seen = None]]
  BY <1>1 DEF Take
<1>6. [tab[t] EXCEPT !.editor = "opening", !.seen = None] \in TabState
  BY <1>1 DEF TabState
<1>7. tab' \in [Tab -> TabState]
  BY <1>1, <1>5, <1>6
<1> QED
  BY <1>2, <1>3, <1>4, <1>5, <1>6, <1>7 DEF TypeOK, Take

\* The sender only frees a Lock that has expired.
LEMMA SenderLemma ==
    ASSUME TypeOK, Sender
    PROVE  /\ TypeOK'
           /\ UNCHANGED tab
           /\ lock' = lock \/ (Expired /\ lock' = FreeLock(lock, lock.stored.user))
<1>1. lock \in Locks
  BY DEF TypeOK
<1>2. CASE Skip
  <2>1. lock.stored.user \in User
    BY <1>1, <1>2 DEF Skip, Expired, Locks, Stored
  <2> QED
    BY <1>1, <1>2, <2>1, LocksLemma DEF Skip, TypeOK
<1>3. CASE List \/ Send \/ Mark
  BY <1>3 DEF List, Send, Mark, TypeOK
<1> QED
  BY <1>2, <1>3 DEF Sender

\* Each step keeps the types, and no set has a stored Lock of another user.
LEMMA TypeStep == TypeInv /\ [Next]_vars => TypeInv'
<1> SUFFICES ASSUME TypeInv, [Next]_vars
             PROVE  TypeInv'
  OBVIOUS
<1>1. lock \in Locks /\ tab \in [Tab -> TabState] /\ TypeOK /\ SetsKnow
  BY DEF TypeInv, TypeOK
<1>2. ASSUME NEW t \in Tab, Open(t) \/ Poll(t)
      PROVE  TypeInv'
  <2>1. PICK state \in TabState : Polled(t, state)
    BY <1>1, <1>2, ClosedTabLemma DEF Open, Poll
  <2>2. t[1] \in User
    BY EditLockAssumption
  <2>3. [user |-> t[1], left |-> Life] \in Stored
    BY <2>2, EditLockAssumption DEF Stored
  <2>4. SetsKnow'
    BY <1>1, <2>1, <2>3, PolledLemma, NoneAssumption DEF SetsKnow, OwnedBy
  <2> QED
    BY <2>1, <2>4, PolledLemma DEF TypeInv
<1>3. ASSUME NEW t \in Tab, Leave(t) \/ Ask(t) \/ Edit(t) \/ EndEdit(t)
      PROVE  TypeInv'
  BY <1>1, <1>3, LocalStep DEF TypeInv, SetsKnow, OwnedBy
<1>4. ASSUME NEW t \in Tab, Reply(t)
      PROVE  TypeInv'
  <2>1. t[1] \in User
    BY EditLockAssumption
  <2>2. TypeOK' /\ (lock' = FreeLock(lock, t[1]) \/ lock' = lock)
    BY <1>1, <1>4, ReplyLemma
  <2>3. CASE lock' = FreeLock(lock, t[1])
    <3>1. \A v \in User : lock'.sets[v] # "stored"
      BY <1>1, <2>1, <2>3, FreeLockLemma
    <3> QED
      BY <2>2, <3>1 DEF TypeInv, SetsKnow
  <2>4. CASE lock' = lock
    BY <1>1, <2>2, <2>4 DEF TypeInv, SetsKnow, OwnedBy
  <2> QED
    BY <2>2, <2>3, <2>4
<1>5. ASSUME NEW t \in Tab, Take(t)
      PROVE  TypeInv'
  <2>1. PICK L \in Locks : lock' = PutLock(L, t[1])
    BY <1>1, <1>5, TakeLemma
  <2>2. t[1] \in User
    BY EditLockAssumption
  <2>3. /\ lock'.stored = [user |-> t[1], left |-> Life] /\ lock'.stored # None
        /\ \A v \in User : lock'.sets[v] = "stored" => v = t[1]
    BY <2>1, <2>2, PutLockLemma
  <2>4. SetsKnow'
    BY <2>3 DEF SetsKnow, OwnedBy
  <2> QED
    BY <1>1, <1>5, <2>4, TakeLemma DEF TypeInv
<1>6. CASE Tick
  BY <1>1, <1>6, TickLemma DEF TypeInv, SetsKnow, OwnedBy
<1>7. CASE Sender
  <2>1. CASE lock' = lock
    BY <1>1, <1>7, <2>1, SenderLemma DEF TypeInv, SetsKnow, OwnedBy
  <2>2. CASE Expired /\ lock' = FreeLock(lock, lock.stored.user)
    <3>1. lock.stored.user \in User
      BY <1>1, <2>2 DEF Expired, Locks, Stored
    <3> QED
      BY <1>1, <1>7, <2>2, <3>1, SenderLemma, FreeLockLemma DEF TypeInv, SetsKnow
  <2> QED
    BY <1>1, <1>7, <2>1, <2>2, SenderLemma
<1>8. CASE UNCHANGED vars
  BY <1>8 DEF TypeInv, TypeOK, SetsKnow, OwnedBy, vars
<1> QED
  BY <1>2, <1>3, <1>4, <1>5, <1>6, <1>7, <1>8 DEF Next

LEMMA TypeInit == Init => TypeInv
<1> SUFFICES ASSUME Init
             PROVE  TypeInv
  OBVIOUS
<1>1. tab \in [Tab -> TabState]
  BY ClosedTabLemma DEF Init
<1> QED
  BY <1>1 DEF Init, TypeInv, TypeOK, SetsKnow, Locks

\* Whatever tabs, polls and the sender do, the maps of Locker and the state of
\* the tabs keep their types.
THEOREM TypeCorrect == Spec => []TypeOK
<1>1. Spec => []TypeInv
  BY TypeInit, TypeStep, PTL DEF Spec
<1> QED
  BY <1>1, PTL DEF TypeInv

-----------------------------------------------------------------------------
(* The lock without care *)

\* The page that calls addLock is open: the call is synchronous.
AskersOpen == \A t \in Tab : tab[t].editor = "asking" => tab[t].open

LEMMA AskersStep == TypeInv /\ AskersOpen /\ [Next]_vars => AskersOpen'
<1> SUFFICES ASSUME TypeInv, AskersOpen, [Next]_vars, NEW r \in Tab,
                    tab'[r].editor = "asking"
             PROVE  tab'[r].open
  BY DEF AskersOpen
<1>1. TypeOK /\ tab \in [Tab -> TabState] /\ tab[r] \in TabState
  BY DEF TypeInv, TypeOK
<1>2. ASSUME NEW t \in Tab, Open(t) \/ Poll(t)
      PROVE  tab'[r].open
  <2>1. PICK state \in TabState : Polled(t, state) /\ state.open
    <3>1. [ClosedTab EXCEPT !.open = TRUE].open
      BY DEF ClosedTab
    <3> QED
      BY <1>1, <1>2, <3>1, ClosedTabLemma DEF Open, Poll
  <2> QED
    BY <2>1, PolledLemma DEF AskersOpen
<1>3. ASSUME NEW t \in Tab, Leave(t)
      PROVE  tab'[r].open
  BY <1>1, <1>3 DEF Leave, ClosedTab, AskersOpen
<1>4. ASSUME NEW t \in Tab, Reply(t) \/ Take(t) \/ Ask(t) \/ Edit(t) \/ EndEdit(t)
      PROVE  tab'[r].open
  <2>1. CASE r # t
    BY <1>1, <1>4, <2>1 DEF Reply, Take, Ask, Edit, EndEdit, AskersOpen
  <2>2. CASE r = t
    BY <1>1, <1>4, <2>2 DEF Reply, Take, Ask, Edit, EndEdit, AskersOpen, TabState
  <2> QED
    BY <2>1, <2>2
<1>5. CASE Tick
  BY <1>1, <1>5, TickLemma DEF AskersOpen
<1>6. CASE Sender \/ UNCHANGED vars
  BY <1>1, <1>6, SenderLemma DEF AskersOpen, vars
<1> QED
  BY <1>2, <1>3, <1>4, <1>5, <1>6 DEF Next

\* The step that gives the lock of a user time.
LEMMA ProlongStep ==
    ASSUME TypeInv, AskersOpen, [Next]_vars, NEW u \in User, OwnedBy(u), OwnedBy(u)',
           lock'.stored.left > lock.stored.left
    PROVE  \E t \in Tab : t[1] = u /\ tab'[t].open
<1>1. /\ TypeOK /\ lock \in Locks /\ lock.stored \in Stored /\ lock.stored.left \in Nat
      /\ tab \in [Tab -> TabState]
  BY EditLockAssumption DEF TypeInv, TypeOK, OwnedBy, Locks, Stored
<1>2. lock'.stored # lock.stored /\ lock'.stored # None
  BY <1>1 DEF OwnedBy
<1>3. ASSUME NEW t \in Tab, Open(t) \/ Poll(t)
      PROVE  t[1] = u /\ tab'[t].open
  <2>1. PICK state \in TabState : Polled(t, state) /\ state.open
    <3>1. [ClosedTab EXCEPT !.open = TRUE].open
      BY DEF ClosedTab
    <3> QED
      BY <1>1, <1>3, <3>1, ClosedTabLemma DEF Open, Poll
  <2>2. tab'[t].open /\ lock'.stored = [user |-> t[1], left |-> Life]
    BY <1>2, <2>1, PolledLemma
  <2> QED
    BY <2>2 DEF OwnedBy
<1>4. ASSUME NEW t \in Tab, Leave(t) \/ Ask(t) \/ Edit(t) \/ EndEdit(t)
      PROVE  FALSE
  BY <1>1, <1>2, <1>4, LocalStep
<1>5. ASSUME NEW t \in Tab, Reply(t)
      PROVE  FALSE
  <2>1. lock' = lock \/ lock' = FreeLock(lock, t[1])
    BY <1>1, <1>5, ReplyLemma
  <2> QED
    BY <1>1, <1>2, <2>1, FreeLockLemma, EditLockAssumption
<1>6. ASSUME NEW t \in Tab, Take(t)
      PROVE  t[1] = u /\ tab'[t].open
  <2>1. PICK L \in Locks : lock' = PutLock(L, t[1])
    BY <1>1, <1>6, TakeLemma
  <2>2. lock'.stored = [user |-> t[1], left |-> Life]
    BY <2>1, PutLockLemma, EditLockAssumption
  <2>3. tab[t] \in TabState /\ tab[t].open
    BY <1>1, <1>6 DEF Take, AskersOpen
  <2>4. tab' = [tab EXCEPT ![t] = [tab[t] EXCEPT !.editor = "opening", !.seen = None]]
    BY <1>1, <1>6, TakeLemma
  <2>5. tab'[t].open
    BY <1>1, <2>3, <2>4 DEF TabState
  <2> QED
    BY <2>2, <2>5 DEF OwnedBy
<1>7. CASE Tick
  <2>1. ~Held => lock' = lock
    BY <1>7 DEF Tick
  <2>2. Held => lock'.stored.left = lock.stored.left - 1
    BY <1>1, <1>7, TickLemma
  <2> QED
    BY <1>1, <1>2, <2>1, <2>2
<1>8. CASE Sender \/ UNCHANGED vars
  <2>1. lock' = lock \/ lock' = FreeLock(lock, lock.stored.user)
    BY <1>1, <1>8, SenderLemma DEF vars
  <2> QED
    BY <1>1, <1>2, <2>1, FreeLockLemma DEF Stored
<1> QED
  BY <1>3, <1>4, <1>5, <1>6, <1>7, <1>8 DEF Next

\* Whatever calls overlap, replies are late and pages a user has: a lock gains time
\* only by a page of its owner that is open, never by a poll of another user whose
\* set still has a Lock, by another's addLock, by the sender or by time.
THEOREM OnlyOwnersProlong == Spec => OwnerProlongs
<1>1. Init => TypeInv /\ AskersOpen
  BY TypeInit DEF Init, AskersOpen, ClosedTab
<1>2. TypeInv /\ AskersOpen /\ [Next]_vars => (TypeInv /\ AskersOpen)'
  BY TypeStep, AskersStep
<1>3. TypeInv /\ AskersOpen /\ [Next]_vars =>
      [\A u \in User :
          OwnedBy(u) /\ OwnedBy(u)' /\ lock'.stored.left > lock.stored.left
          => \E t \in Tab : t[1] = u /\ tab'[t].open]_vars
  BY ProlongStep
<1> QED
  BY <1>1, <1>2, <1>3, PTL DEF Spec, OwnerProlongs

-----------------------------------------------------------------------------
(* The lock with care *)

SetsInv ==
    \A u \in User : lock.sets[u] \in {"none", "stored"} /\ (OwnedBy(u) <=> lock.sets[u] = "stored")

OneAsks ==
    \A t, r \in Tab : tab[t].editor = "asking" /\ tab[r].editor = "asking" => t = r

\* What a tab may rely on: a lock of its user does not expire before its next
\* poll, it has the lock while it has an editor or is about to be named it, and
\* the lock it is taking is free or expired and nobody else's by now.
CareTab(t) ==
    /\ ~tab[t].open => tab[t].editor = "none" /\ tab[t].reply = "none"
    /\ tab[t].open /\ OwnedBy(t[1]) => lock.stored.left + tab[t].age >= Life
    /\ tab[t].editor \in {"opening", "open"} => OwnedBy(t[1])
    /\ tab[t].editor = "asking" =>
          /\ ~Held /\ ~OwnedBy(t[1])
          /\ lock.stored # None => tab[t].seen = lock.stored.user
    /\ tab[t].reply = "lock" => OwnedBy(t[1])

CareInv == TypeInv /\ SetsInv /\ OneAsks /\ OneTab /\ \A t \in Tab : CareTab(t)

\* Careful steps are steps.
LEMMA CareIsNext == CareNext => Next
  BY DEF CareNext, CareStep, Next

\* The lock of a user whose tab is open has not expired.
LEMMA LiveLemma ==
    ASSUME CareInv, NEW t \in Tab, tab[t].open, OwnedBy(t[1])
    PROVE  Held
<1>1. lock \in Locks /\ tab[t] \in TabState
  BY DEF CareInv, TypeInv, TypeOK
<1>2. lock.stored # None /\ lock.stored \in Stored
  BY <1>1 DEF OwnedBy, Locks
<1>3. lock.stored.left \in Nat /\ tab[t].age \in Nat /\ tab[t].age <= PollTime
  BY <1>1, <1>2, EditLockAssumption DEF Stored, TabState
<1>4. lock.stored.left + tab[t].age >= Life
  BY DEF CareInv, CareTab
<1> QED
  BY <1>2, <1>3, <1>4, EditLockAssumption DEF Held

\* The parts that concern a tab, after a step that leaves the tab and the owner
\* of the lock alone and takes none of its time.
LEMMA OtherTab ==
    ASSUME CareInv, NEW r \in Tab, tab'[r] = tab[r], lock'.stored = lock.stored
    PROVE  CareTab(r)'
  BY DEF CareInv, CareTab, OwnedBy, Held

LEMMA CarePoll ==
    ASSUME CareInv, OneTab', NEW t \in Tab, Open(t) \/ Poll(t),
           Asking => lock.sets[t[1]] = "none"
    PROVE  SetsInv' /\ OneAsks' /\ \A r \in Tab : CareTab(r)'
<1>1. PICK state \in TabState :
         /\ Polled(t, state)
         /\ state.open /\ (state = tab[t] \/ state.editor = "none")
  <2>1. CASE Open(t)
    <3>1. /\ [ClosedTab EXCEPT !.open = TRUE].open
          /\ [ClosedTab EXCEPT !.open = TRUE].editor = "none"
      BY DEF ClosedTab
    <3> QED
      BY <2>1, <3>1, ClosedTabLemma DEF Open
  <2>2. CASE Poll(t)
    BY <2>2 DEF Poll, CareInv, TypeInv, TypeOK
  <2> QED
    BY <2>1, <2>2
<1>2. t[1] \in User /\ TypeInv /\ SetsInv
  BY EditLockAssumption DEF CareInv
<1>3. [user |-> t[1], left |-> Life] # None
  BY <1>2, EditLockAssumption, NoneAssumption DEF Stored
<1> DEFINE u == t[1]
<1>4. /\ lock'.sets = lock.sets
      /\ lock'.stored = IF lock.sets[u] = "stored" THEN [user |-> u, left |-> Life] ELSE lock.stored
      /\ tab'[t].open = state.open /\ tab'[t].editor = state.editor
      /\ tab'[t].seen = state.seen
      /\ tab'[t].reply = IF lock.sets[u] = "none" THEN "nothing" ELSE "lock"
      /\ tab'[t].age = 0
      /\ \A r \in Tab \ {t} : tab'[r] = tab[r]
  BY <1>1, <1>2, PolledLemma
<1>5. lock.sets[u] \in {"none", "stored"} /\ (OwnedBy(u) <=> lock.sets[u] = "stored")
  BY <1>2 DEF SetsInv
<1>6. \A v \in User : OwnedBy(v)' <=> OwnedBy(v)
  BY <1>3, <1>4, <1>5 DEF OwnedBy
<1>7. SetsInv'
  BY <1>2, <1>4, <1>6 DEF SetsInv
<1>8. /\ \A r \in Tab : tab'[r].editor = "asking" =>
            tab[r].editor = "asking" /\ tab'[r].seen = tab[r].seen
      /\ (\E r \in Tab : tab'[r].editor = "asking") => lock'.stored = lock.stored
  BY <1>1, <1>4 DEF Asking
<1>9. OneAsks'
  BY <1>8 DEF OneAsks, CareInv
<1>10. CareTab(t)'
  <2>1. CareTab(t) /\ tab'[t].open /\ tab'[t].age = 0
    BY <1>1, <1>4 DEF CareInv
  <2>2. OwnedBy(u)' => lock'.stored.left = Life
    BY <1>2, <1>4, <1>5, <1>6
  <2>3. tab'[t].editor \in {"opening", "open"} => OwnedBy(u)'
    BY <1>1, <1>2, <1>4, <1>6, <2>1 DEF CareTab
  <2>4. tab'[t].reply = "lock" => OwnedBy(u)'
    BY <1>2, <1>4, <1>5, <1>6
  <2>5. OwnedBy(u)' => lock'.stored.left + tab'[t].age >= Life
    BY <2>1, <2>2, EditLockAssumption
  <2>6. tab'[t].editor = "asking" =>
           /\ ~Held' /\ ~OwnedBy(u)'
           /\ lock'.stored # None => tab'[t].seen = lock'.stored.user
    BY <1>2, <1>6, <1>8, <2>1 DEF CareTab, Held
  <2> QED
    BY <2>1, <2>3, <2>4, <2>5, <2>6 DEF CareTab
<1>11. ASSUME NEW r \in Tab \ {t}
       PROVE  CareTab(r)'
  <2>1. CareTab(r) /\ tab'[r] = tab[r]
    BY <1>4, <1>11 DEF CareInv
  <2>2. CASE lock.sets[u] = "none"
    BY <1>4, <1>11, <2>1, <2>2, OtherTab
  <2>3. CASE lock.sets[u] = "stored"
    <3>1. tab[r].open => r[1] # u
      BY <1>1, <1>4, <1>5, <1>6, <1>2, <1>11, <2>1, <2>3 DEF OneTab
    <3>2. tab[r].open => ~OwnedBy(r[1])
      BY <1>5, <2>3, <3>1 DEF OwnedBy
    <3>3. r[1] \in User
      BY EditLockAssumption
    <3>4. tab[r].open => ~OwnedBy(r[1])'
      BY <1>6, <3>2, <3>3
    <3>5. tab[r].editor \notin {"opening", "open", "asking"} /\ tab[r].reply # "lock"
      BY <2>1, <2>3, <3>2 DEF CareTab, Asking
    <3> QED
      BY <2>1, <3>4, <3>5 DEF CareTab
  <2> QED
    BY <1>5, <2>2, <2>3
<1> QED
  BY <1>7, <1>9, <1>10, <1>11

\* Leaving, and the steps of an editor that change no lock.
LEMMA CareLocal ==
    ASSUME CareInv, NEW t \in Tab,
           Leave(t) \/ (~Asking /\ Ask(t)) \/ Edit(t) \/ EndEdit(t)
    PROVE  SetsInv' /\ OneAsks' /\ \A r \in Tab : CareTab(r)'
<1>1. /\ UNCHANGED lock /\ tab \in [Tab -> TabState]
      /\ TypeOK /\ SetsInv
  BY LocalStep DEF CareInv, TypeInv, TypeOK
<1>2. \A r \in Tab \ {t} : tab'[r] = tab[r]
  BY <1>1 DEF Leave, Ask, Edit, EndEdit
<1>3. SetsInv'
  BY <1>1 DEF SetsInv, OwnedBy
<1>4. ASSUME tab'[t].editor # "asking" \/ ~Asking
      PROVE  OneAsks'
  BY <1>2, <1>4 DEF CareInv, OneAsks, Asking
<1>5. ASSUME NEW r \in Tab \ {t}
      PROVE  CareTab(r)'
  BY <1>1, <1>2, <1>5, OtherTab
<1>6. tab[t] \in TabState /\ CareTab(t)
  BY <1>1 DEF CareInv
<1>7. CASE Leave(t)
  <2>1. tab'[t] = ClosedTab
    BY <1>1, <1>7 DEF Leave
  <2>2. /\ ~tab'[t].open /\ tab'[t].editor = "none" /\ tab'[t].reply = "none"
    BY <2>1 DEF ClosedTab
  <2> QED
    BY <1>3, <1>4, <1>5, <2>2 DEF CareTab
<1>8. CASE ~Asking /\ Ask(t)
  <2> DEFINE e == IF OwnedBy(t[1]) THEN "opening" ELSE "asking"
             n == IF Expired /\ ~OwnedBy(t[1]) THEN lock.stored.user ELSE None
  <2>1. tab'[t] = [tab[t] EXCEPT !.editor = e, !.seen = n]
    BY <1>1, <1>8 DEF Ask
  <2>2. tab[t].open /\ (Held => OwnedBy(t[1]))
    BY <1>8 DEF Ask
  <2>3. /\ tab'[t].editor = e /\ tab'[t].seen = n /\ tab'[t].open
        /\ tab'[t].age = tab[t].age /\ tab'[t].reply = tab[t].reply
    <3> HIDE DEF e, n
    <3> QED
      BY <1>6, <2>1, <2>2 DEF TabState
  <2>4. ~OwnedBy(t[1]) => ~Held /\ (lock.stored # None => n = lock.stored.user)
    <3>1. lock.stored = None \/ lock.stored.left \in Nat
      BY <1>1, EditLockAssumption DEF TypeOK, Locks, Stored
    <3> QED
      BY <2>2, <3>1 DEF Held, Expired
  <2>5. CareTab(t)'
    BY <1>1, <1>6, <2>2, <2>3, <2>4 DEF CareTab, OwnedBy, Held
  <2> QED
    BY <1>3, <1>4, <1>5, <1>8, <2>5
<1>9. CASE Edit(t) \/ EndEdit(t)
  <2>1. PICK e \in {"none", "open"} :
           /\ tab' = [tab EXCEPT ![t].editor = e]
           /\ tab[t].editor \in {"opening", "open"}
    BY <1>9 DEF Edit, EndEdit
  <2>2. /\ tab'[t].editor = e /\ tab'[t].open = tab[t].open
        /\ tab'[t].age = tab[t].age /\ tab'[t].reply = tab[t].reply
    BY <1>1, <1>6, <2>1 DEF TabState
  <2>3. tab[t].open
    BY <1>6, <2>1 DEF CareTab
  <2>4. CareTab(t)'
    BY <1>1, <1>6, <2>1, <2>2, <2>3 DEF CareTab, OwnedBy
  <2> QED
    BY <1>3, <1>4, <1>5, <2>2, <2>4
<1> QED
  BY <1>7, <1>8, <1>9

\* A tab frees the lock only of its own user, and only while it has no editor.
LEMMA CareReply ==
    ASSUME CareInv, NEW t \in Tab, tab[t].editor # "opening", Reply(t)
    PROVE  SetsInv' /\ OneAsks' /\ \A r \in Tab : CareTab(r)'
<1>1. /\ tab \in [Tab -> TabState] /\ TypeOK /\ SetsInv /\ lock \in Locks /\ t[1] \in User
      /\ CareTab(t) /\ tab[t] \in TabState
  BY EditLockAssumption DEF CareInv, TypeInv, TypeOK
<1>2. tab' = [tab EXCEPT ![t] = [tab[t] EXCEPT !.reply = "none"]]
  BY <1>1, ReplyLemma
<1>3. \A r \in Tab \ {t} : tab'[r] = tab[r]
  BY <1>1, <1>2
<1>4. /\ tab'[t].open = tab[t].open /\ tab'[t].editor = tab[t].editor
      /\ tab'[t].age = tab[t].age /\ tab'[t].reply = "none"
  BY <1>1, <1>2 DEF TabState
<1>5. tab'[t].editor # "asking"
  BY <1>4 DEF Reply
<1>6. OneAsks'
  BY <1>3, <1>4 DEF CareInv, OneAsks
<1>7. CASE lock' = lock
  <2>1. SetsInv'
    BY <1>1, <1>7 DEF SetsInv, OwnedBy
  <2>2. CareTab(t)'
    BY <1>1, <1>4, <1>5, <1>7 DEF CareTab, OwnedBy
  <2>3. ASSUME NEW r \in Tab \ {t}
        PROVE  CareTab(r)'
    BY <1>3, <1>7, OtherTab
  <2> QED
    BY <1>6, <2>1, <2>2, <2>3
<1>8. CASE tab[t].reply = "lock" /\ tab[t].editor # "open"
  <2>1. OwnedBy(t[1]) /\ lock' = FreeLock(lock, t[1])
    BY <1>1, <1>8, ReplyLemma DEF CareTab
  <2>2. \A v \in User \ {t[1]} : ~OwnedBy(v)
    BY <2>1 DEF OwnedBy
  <2>3. \A v \in User \ {t[1]} : lock.sets[v] = "none"
    BY <1>1, <2>2 DEF SetsInv
  <2>4. lock'.stored = None /\ \A v \in User : lock'.sets[v] = "none"
    BY <1>1, <2>1, <2>3, FreeLockLemma
  <2>5. SetsInv'
    BY <2>4 DEF SetsInv, OwnedBy
  <2>6. tab'[t].editor = "none"
    BY <1>1, <1>4, <1>5, <1>8 DEF TabState
  <2>7. CareTab(t)'
    BY <1>4, <2>4, <2>6 DEF CareTab, OwnedBy
  <2>8. ASSUME NEW r \in Tab \ {t}
        PROVE  CareTab(r)'
    <3>1. r[1] \in User /\ CareTab(r) /\ tab'[r] = tab[r]
      BY <1>3, <2>8, EditLockAssumption DEF CareInv
    <3>2. tab[r].open => ~OwnedBy(r[1])
      <4>1. tab[t].open
        BY <1>1, <1>8 DEF CareTab
      <4>2. tab[r].open => r[1] # t[1]
        BY <2>1, <2>8, <4>1 DEF CareInv, OneTab
      <4> QED
        BY <2>2, <3>1, <4>2
    <3>3. tab[r].editor \notin {"opening", "open"} /\ tab[r].reply # "lock"
      BY <3>1, <3>2 DEF CareTab
    <3> QED
      BY <2>4, <3>1, <3>3 DEF CareTab, OwnedBy, Held
  <2> QED
    BY <1>6, <2>5, <2>7, <2>8
<1> QED
  BY <1>1, <1>7, <1>8, ReplyLemma

\* The one who takes the lock finds it free or expired, and no tab relies on it.
LEMMA CareTake ==
    ASSUME CareInv, OneTab', NEW t \in Tab, Take(t)
    PROVE  SetsInv' /\ OneAsks' /\ \A r \in Tab : CareTab(r)'
<1>1. /\ tab \in [Tab -> TabState] /\ TypeOK /\ SetsInv /\ lock \in Locks /\ t[1] \in User
      /\ CareTab(t) /\ tab[t] \in TabState /\ tab[t].editor = "asking"
  BY EditLockAssumption DEF CareInv, TypeInv, TypeOK, Take
<1>2. /\ ~Held /\ ~OwnedBy(t[1]) /\ tab[t].open
      /\ lock.stored # None => tab[t].seen = lock.stored.user
  BY <1>1 DEF CareTab
<1>3. PICK L \in Locks :
         /\ L = IF tab[t].seen = None THEN lock ELSE FreeLock(lock, tab[t].seen)
         /\ lock' = PutLock(L, t[1])
  BY <1>1, TakeLemma
<1>4. \A v \in User : L.sets[v] = "none"
  <2>1. CASE lock.stored = None
    <3>1. \A v \in User : lock.sets[v] = "none"
      BY <1>1, <2>1 DEF SetsInv, OwnedBy
    <3>2. CASE tab[t].seen = None
      BY <1>3, <3>1, <3>2
    <3>3. CASE tab[t].seen # None
      BY <1>1, <1>3, <3>1, <3>3, FreeLockLemma DEF TabState
    <3> QED
      BY <3>2, <3>3
  <2>2. CASE lock.stored # None
    <3> DEFINE o == lock.stored.user
    <3>1. o \in User /\ o # None /\ tab[t].seen = o
      BY <1>1, <1>2, <2>2, EditLockAssumption DEF Locks, Stored
    <3>2. \A v \in User \ {o} : lock.sets[v] = "none"
      BY <1>1 DEF SetsInv, OwnedBy
    <3>3. L = FreeLock(lock, o)
      BY <1>3, <3>1
    <3> HIDE DEF o
    <3>4. /\ FreeLock(lock, o).sets[o] = "none"
          /\ \A v \in User : lock.sets[v] = "none" => FreeLock(lock, o).sets[v] = "none"
      BY <1>1, <3>1, FreeLockLemma
    <3> QED
      BY <3>2, <3>3, <3>4
  <2> QED
    BY <2>1, <2>2
<1>5. /\ lock'.stored = [user |-> t[1], left |-> Life] /\ lock'.stored # None
      /\ lock'.sets[t[1]] = "stored"
      /\ \A v \in User \ {t[1]} : lock'.sets[v] = "none"
  BY <1>1, <1>3, <1>4, PutLockLemma
<1>6. \A v \in User : OwnedBy(v)' <=> v = t[1]
  BY <1>5 DEF OwnedBy
<1>7. SetsInv'
  BY <1>5, <1>6 DEF SetsInv
<1>8. /\ tab' = [tab EXCEPT ![t] = [tab[t] EXCEPT !.editor = "opening", !.seen = None]]
      /\ \A r \in Tab \ {t} : tab'[r] = tab[r]
  BY <1>1, TakeLemma
<1>9. /\ tab'[t].editor = "opening" /\ tab'[t].open /\ tab'[t].age = tab[t].age
  BY <1>1, <1>2, <1>8 DEF TabState
<1>10. \A r \in Tab \ {t} : tab'[r].editor # "asking"
  BY <1>1, <1>8 DEF CareInv, OneAsks
<1>11. OneAsks'
  BY <1>9, <1>10 DEF OneAsks
<1>12. CareTab(t)'
  <2>1. lock'.stored.left + tab'[t].age >= Life
    BY <1>1, <1>5, <1>9, EditLockAssumption DEF TabState
  <2> QED
    BY <1>1, <1>6, <1>9, <2>1 DEF CareTab
<1>13. ASSUME NEW r \in Tab \ {t}
       PROVE  CareTab(r)'
  <2>1. /\ r[1] \in User /\ CareTab(r) /\ tab'[r] = tab[r] /\ tab'[r].editor # "asking"
    BY <1>8, <1>10, <1>13, EditLockAssumption DEF CareInv
  <2>2. tab[r].open => ~OwnedBy(r[1])
    BY <1>2, LiveLemma
  <2>3. tab[r].open => r[1] # t[1]
    BY <1>1, <1>6, <1>9, <1>13, <2>1 DEF OneTab
  <2>4. tab[r].open => ~OwnedBy(r[1])'
    BY <1>6, <2>1, <2>3
  <2>5. tab'[r].editor \notin {"opening", "open"} /\ tab'[r].reply # "lock"
    BY <2>1, <2>2 DEF CareTab
  <2> QED
    BY <2>1, <2>4, <2>5 DEF CareTab
<1> QED
  BY <1>7, <1>11, <1>12, <1>13

\* What the lock loses of its time, the tab of its user gains in age.
LEMMA CareTick ==
    ASSUME CareInv, InTime, Tick
    PROVE  SetsInv' /\ OneAsks' /\ \A r \in Tab : CareTab(r)'
<1>1. TypeOK /\ SetsInv /\ lock \in Locks
  BY DEF CareInv, TypeInv, TypeOK
<1>2. /\ lock'.sets = lock.sets
      /\ lock'.stored = None <=> lock.stored = None
      /\ lock.stored # None => lock'.stored.user = lock.stored.user
      /\ Held => lock'.stored.left = lock.stored.left - 1
      /\ \A t \in Tab :
            /\ tab'[t].open = tab[t].open /\ tab'[t].editor = tab[t].editor
            /\ tab'[t].seen = tab[t].seen /\ tab'[t].reply = tab[t].reply
            /\ tab[t].open /\ tab[t].age < PollTime => tab'[t].age = tab[t].age + 1
  BY <1>1, TickLemma
<1>3. \A v \in User : OwnedBy(v)' <=> OwnedBy(v)
  BY <1>2 DEF OwnedBy
<1>4. SetsInv'
  BY <1>1, <1>2, <1>3 DEF SetsInv
<1>5. ~Held => lock' = lock
  BY DEF Tick
<1>6. OneAsks'
  BY <1>2 DEF CareInv, OneAsks
<1>7. ASSUME NEW r \in Tab
      PROVE  CareTab(r)'
  <2>1. r[1] \in User /\ CareTab(r) /\ tab[r] \in TabState
    BY EditLockAssumption DEF CareInv, TypeInv, TypeOK
  <2>2. ASSUME tab[r].open, OwnedBy(r[1])
        PROVE  lock'.stored.left + tab'[r].age >= Life
    <3>1. Held
      BY <2>2, LiveLemma
    <3>2. lock.stored.left \in Nat /\ lock.stored.left + tab[r].age >= Life
      BY <1>1, <2>1, <2>2, <3>1, EditLockAssumption DEF CareTab, Held, Locks, Stored
    <3>3. tab'[r].age = tab[r].age + 1 /\ lock'.stored.left = lock.stored.left - 1
      BY <1>2, <2>2, <3>1 DEF InTime
    <3>4. tab[r].age \in Nat
      BY <2>1, EditLockAssumption DEF TabState
    <3> QED
      BY <3>2, <3>3, <3>4, EditLockAssumption
  <2>3. tab'[r].editor = "asking" =>
           /\ ~Held' /\ ~OwnedBy(r[1])'
           /\ lock'.stored # None => tab'[r].seen = lock'.stored.user
    BY <1>2, <1>3, <1>5, <2>1 DEF CareTab, Held
  <2> QED
    BY <1>2, <1>3, <2>1, <2>2, <2>3 DEF CareTab
<1> QED
  BY <1>4, <1>6, <1>7

\* The sender frees a lock only when it has expired, so that its user has gone.
LEMMA CareSender ==
    ASSUME CareInv, Sender
    PROVE  SetsInv' /\ OneAsks' /\ \A r \in Tab : CareTab(r)'
<1>1. TypeOK /\ SetsInv /\ lock \in Locks
  BY DEF CareInv, TypeInv, TypeOK
<1>2. /\ UNCHANGED tab
      /\ lock' = lock \/ (Expired /\ lock' = FreeLock(lock, lock.stored.user))
  BY <1>1, SenderLemma
<1>3. OneAsks'
  BY <1>2 DEF CareInv, OneAsks
<1>4. CASE lock' = lock
  <2>1. SetsInv'
    BY <1>1, <1>4 DEF SetsInv, OwnedBy
  <2>2. ASSUME NEW r \in Tab
        PROVE  CareTab(r)'
    BY <1>2, <1>4, OtherTab
  <2> QED
    BY <1>3, <2>1, <2>2
<1>5. CASE Expired /\ lock' = FreeLock(lock, lock.stored.user)
  <2> DEFINE o == lock.stored.user
  <2>1. o \in User /\ ~Held
    BY <1>1, <1>5 DEF Expired, Held, Locks, Stored
  <2>2. \A v \in User \ {o} : lock.sets[v] = "none"
    BY <1>1 DEF SetsInv, OwnedBy
  <2>3. lock'.stored = None /\ \A v \in User : lock'.sets[v] = "none"
    BY <1>1, <1>5, <2>1, <2>2, FreeLockLemma
  <2>4. SetsInv'
    BY <2>3 DEF SetsInv, OwnedBy
  <2>5. ASSUME NEW r \in Tab
        PROVE  CareTab(r)'
    <3>1. CareTab(r) /\ tab'[r] = tab[r]
      BY <1>2 DEF CareInv
    <3>2. tab[r].open => ~OwnedBy(r[1])
      BY <2>1, LiveLemma
    <3>3. tab[r].editor \notin {"opening", "open"} /\ tab[r].reply # "lock"
      BY <3>1, <3>2 DEF CareTab
    <3> QED
      BY <2>3, <3>1, <3>3 DEF CareTab, OwnedBy, Held
  <2> QED
    BY <1>3, <2>4, <2>5
<1> QED
  BY <1>2, <1>4, <1>5

LEMMA CareStepLemma == CareInv /\ [CareNext]_vars => CareInv'
<1> SUFFICES ASSUME CareInv, [CareNext]_vars
             PROVE  CareInv'
  OBVIOUS
<1>1. TypeInv'
  BY CareIsNext, TypeStep DEF CareInv
<1>2. CASE CareNext
  <2>1. ASSUME NEW t \in Tab, Take(t)
        PROVE  SetsInv' /\ OneAsks' /\ \A r \in Tab : CareTab(r)'
    BY <1>2, <2>1, CareTake DEF CareNext
  <2>2. ASSUME NEW t \in Tab, Asking => lock.sets[t[1]] = "none", Open(t) \/ Poll(t)
        PROVE  SetsInv' /\ OneAsks' /\ \A r \in Tab : CareTab(r)'
    BY <1>2, <2>2, CarePoll DEF CareNext
  <2>3. ASSUME NEW t \in Tab, Leave(t) \/ (~Asking /\ Ask(t)) \/ Edit(t) \/ EndEdit(t)
        PROVE  SetsInv' /\ OneAsks' /\ \A r \in Tab : CareTab(r)'
    BY <2>3, CareLocal
  <2>4. ASSUME NEW t \in Tab, tab[t].editor # "opening", Reply(t)
        PROVE  SetsInv' /\ OneAsks' /\ \A r \in Tab : CareTab(r)'
    BY <2>4, CareReply
  <2>5. ASSUME InTime, Tick
        PROVE  SetsInv' /\ OneAsks' /\ \A r \in Tab : CareTab(r)'
    BY <2>5, CareTick
  <2>6. ASSUME Sender
        PROVE  SetsInv' /\ OneAsks' /\ \A r \in Tab : CareTab(r)'
    BY <2>6, CareSender
  <2>7. SetsInv' /\ OneAsks' /\ \A r \in Tab : CareTab(r)'
    BY <1>2, <2>1, <2>2, <2>3, <2>4, <2>5, <2>6 DEF CareNext, CareStep
  <2> QED
    BY <1>1, <1>2, <2>7 DEF CareInv, CareNext
<1>3. CASE UNCHANGED vars
  BY <1>1, <1>3 DEF CareInv, SetsInv, OneAsks, OneTab, CareTab, OwnedBy, Held, vars
<1> QED
  BY <1>2, <1>3

LEMMA CareInit == Init => CareInv
<1> SUFFICES ASSUME Init
             PROVE  CareInv
  OBVIOUS
<1>1. \A t \in Tab : /\ ~tab[t].open /\ tab[t].editor = "none" /\ tab[t].reply = "none"
  BY DEF Init, ClosedTab
<1>2. lock.stored = None /\ \A u \in User : lock.sets[u] = "none"
  BY DEF Init
<1> QED
  BY <1>1, <1>2, TypeInit DEF CareInv, SetsInv, OneAsks, OneTab, CareTab, OwnedBy

LEMMA CareInductive == CareSpec => []CareInv
  BY CareInit, CareStepLemma, PTL DEF CareSpec

\* With care, for any number of users and pages and any times: who has the editor
\* of the message has its lock, and the lock has not expired.
THEOREM EditorsAreLocked == CareSpec => []EditorHoldsLock
<1>1. CareInv => EditorHoldsLock
  <2> SUFFICES ASSUME CareInv, NEW t \in Tab, tab[t].editor \in {"opening", "open"}
               PROVE  Held /\ OwnedBy(t[1])
    BY DEF EditorHoldsLock
  <2>1. tab[t].open /\ OwnedBy(t[1])
    BY DEF CareInv, CareTab
  <2> QED
    BY <2>1, LiveLemma
<1> QED
  BY <1>1, CareInductive, PTL

\* With care: the Lock that the polls of its owner prolong is the one that addLock
\* and the sender look at.
THEOREM PollsProlongTheLock == CareSpec => []PollsProlong
<1>1. CareInv => PollsProlong
  BY DEF CareInv, SetsInv, PollsProlong
<1> QED
  BY <1>1, CareInductive, PTL

-----------------------------------------------------------------------------
(* The lock implements the lease *)

\* Who owns the lease, and that nobody else edits.
LEMMA OwnerLemma ==
    ASSUME CareInv
    PROVE  /\ Held => Owner \in User /\ OwnedBy(Owner)
           /\ \A u \in User : Held /\ OwnedBy(u) => Owner = u
           /\ Owner = None <=> ~Held
           /\ \A u \in Editors : Owner = u
<1>1. lock \in Locks /\ \A t \in Tab : CareTab(t)
  BY DEF CareInv, TypeInv, TypeOK
<1>2. ASSUME Held
      PROVE  Owner \in User /\ OwnedBy(Owner)
  <2>1. lock.stored \in Stored /\ Owner = lock.stored.user
    BY <1>1, <1>2 DEF Held, Locks, Owner
  <2> QED
    BY <1>2, <2>1 DEF Stored, OwnedBy, Held
<1>3. \A u \in User : Held /\ OwnedBy(u) => Owner = u
  BY DEF OwnedBy, Owner
<1>4. Owner = None <=> ~Held
  BY <1>2, EditLockAssumption DEF Owner
<1>5. ASSUME NEW u \in Editors
      PROVE  Owner = u
  <2>1. PICK t \in Tab : t[1] = u /\ tab[t].editor \in {"opening", "open"}
    BY DEF Editors
  <2>2. tab[t].open /\ OwnedBy(u)
    BY <1>1, <2>1 DEF CareTab
  <2>3. Held
    BY <2>1, <2>2, LiveLemma
  <2> QED
    BY <1>3, <2>2, <2>3 DEF Editors
<1> QED
  BY <1>2, <1>3, <1>4, <1>5

\* Who edits after a step that changes one tab, which is open before or after it.
LEMMA EditorsLemma ==
    ASSUME CareInv, CareInv', NEW t \in Tab, \A r \in Tab \ {t} : tab'[r] = tab[r],
           tab[t].open \/ tab'[t].open
    PROVE  /\ Editors' = IF tab'[t].editor \in {"opening", "open"}
                         THEN Editors \cup {t[1]} ELSE Editors \ {t[1]}
           /\ tab[t].editor \in {"opening", "open"} <=> t[1] \in Editors
           /\ tab'[t].editor = tab[t].editor => Editors' = Editors
<1>1. t[1] \in User
  BY EditLockAssumption
<1>2. ASSUME NEW r \in Tab \ {t}, r[1] = t[1], tab[r].editor \in {"opening", "open"}
      PROVE  FALSE
  <2>1. tab[r].open /\ OwnedBy(t[1])
    BY <1>2 DEF CareInv, CareTab
  <2>2. tab'[r].open /\ OwnedBy(t[1])'
    BY <1>2 DEF CareInv, CareTab
  <2> QED
    BY <1>2, <2>1, <2>2 DEF CareInv, OneTab
<1>3. tab[t].editor \in {"opening", "open"} <=> t[1] \in Editors
  BY <1>1, <1>2 DEF Editors
<1>4. tab'[t].editor \in {"opening", "open"} <=> t[1] \in Editors'
  BY <1>1, <1>2 DEF Editors
<1>5. \A u \in User \ {t[1]} : u \in Editors' <=> u \in Editors
  <2> SUFFICES ASSUME NEW u \in User \ {t[1]}
               PROVE  u \in Editors' <=> u \in Editors
    OBVIOUS
  <2>1. \A r \in Tab : r[1] = u => tab'[r] = tab[r]
    OBVIOUS
  <2> QED
    BY <2>1 DEF Editors
<1>6. Editors \subseteq User /\ Editors' \subseteq User
  BY DEF Editors
<1>7. Editors' = IF tab'[t].editor \in {"opening", "open"}
                 THEN Editors \cup {t[1]} ELSE Editors \ {t[1]}
  BY <1>1, <1>4, <1>5, <1>6
<1>8. ASSUME tab'[t].editor = tab[t].editor
      PROVE  Editors' = Editors
  <2>1. \A u \in User : u \in Editors' <=> u \in Editors
    BY <1>3, <1>4, <1>5, <1>8
  <2> QED
    BY <1>6, <2>1
<1> QED
  BY <1>3, <1>7, <1>8

\* A poll prolongs the lease of its user, or gives him one that was over.
LEMMA LeasePoll ==
    ASSUME CareInv, CareInv', NEW t \in Tab, Open(t) \/ Poll(t)
    PROVE  [TheLease!Next]_<<Owner, Editors>>
<1>1. TypeInv /\ SetsInv /\ CareTab(t) /\ t[1] \in User /\ tab[t] \in TabState /\ lock \in Locks
  BY EditLockAssumption DEF CareInv, TypeInv, TypeOK
<1>2. PICK state \in TabState :
         Polled(t, state) /\ state.editor = tab[t].editor /\ state.open
  <2>1. CASE Open(t)
    <3>1. tab[t].editor = "none"
      BY <1>1, <2>1 DEF Open, CareTab
    <3>2. /\ [ClosedTab EXCEPT !.open = TRUE].editor = "none"
          /\ [ClosedTab EXCEPT !.open = TRUE].open
      BY DEF ClosedTab
    <3> QED
      BY <2>1, <3>1, <3>2, ClosedTabLemma DEF Open
  <2>2. CASE Poll(t)
    BY <1>1, <2>2 DEF Poll
  <2> QED
    BY <2>1, <2>2
<1>3. /\ lock'.stored = IF lock.sets[t[1]] = "stored"
                        THEN [user |-> t[1], left |-> Life] ELSE lock.stored
      /\ tab'[t].editor = tab[t].editor /\ tab'[t].open
      /\ \A r \in Tab \ {t} : tab'[r] = tab[r]
  BY <1>1, <1>2, PolledLemma
<1>4. Editors' = Editors
  BY <1>3, EditorsLemma
<1>5. CASE lock.sets[t[1]] = "stored"
  <2>1. OwnedBy(t[1])
    BY <1>1, <1>5 DEF SetsInv
  <2>2. Owner' = t[1]
    <3>1. [user |-> t[1], left |-> Life] \in Stored /\ Life > 0
      BY <1>1, EditLockAssumption DEF Stored
    <3> QED
      BY <1>3, <1>5, <3>1, NoneAssumption DEF Owner, Held
  <2>3. CASE Held
    BY <1>1, <1>4, <2>1, <2>2, <2>3, OwnerLemma
  <2>4. CASE ~Held
    <3>1. Owner = None /\ Editors = {}
      BY <2>4, OwnerLemma, EditLockAssumption DEF Editors
    <3>2. TheLease!Obtain(t[1])
      BY <1>4, <2>2, <3>1 DEF TheLease!Obtain
    <3> QED
      BY <1>1, <3>2 DEF TheLease!Next
  <2> QED
    BY <2>3, <2>4
<1>6. CASE lock.sets[t[1]] # "stored"
  BY <1>3, <1>4, <1>6 DEF Owner, Held
<1> QED
  BY <1>5, <1>6

\* An editor of the owner begins and ends; the lease stays.
LEMMA LeaseLocal ==
    ASSUME CareInv, CareInv', NEW t \in Tab, Leave(t) \/ Ask(t) \/ Edit(t) \/ EndEdit(t)
    PROVE  [TheLease!Next]_<<Owner, Editors>>
<1>1. TypeOK /\ tab \in [Tab -> TabState] /\ t[1] \in User
  BY EditLockAssumption DEF CareInv, TypeInv, TypeOK
<1>2. UNCHANGED lock /\ Owner' = Owner
  BY <1>1, LocalStep DEF Owner, Held
<1>3. tab[t].open /\ \A r \in Tab \ {t} : tab'[r] = tab[r]
  BY <1>1 DEF Leave, Ask, Edit, EndEdit, CareInv, CareTab
<1>4. CASE tab'[t].editor \in {"opening", "open"}
  <2>1. tab[t].open /\ OwnedBy(t[1])
    <3>1. CASE Ask(t)
      BY <1>1, <1>4, <3>1 DEF Ask, TabState
    <3>2. CASE tab[t].editor \in {"opening", "open"}
      BY <3>2 DEF CareInv, CareTab
    <3>3. CASE Leave(t)
      BY <1>1, <1>4, <3>3 DEF Leave, ClosedTab
    <3> QED
      BY <3>1, <3>2, <3>3 DEF Edit, EndEdit
  <2>2. Owner = t[1] /\ \A u \in Editors : u = t[1]
    BY <1>1, <2>1, LiveLemma, OwnerLemma
  <2>3. Editors' = {t[1]}
    BY <1>3, <1>4, <2>2, EditorsLemma
  <2>4. TheLease!Begin(t[1])
    BY <1>2, <2>2, <2>3 DEF TheLease!Begin
  <2> QED
    BY <1>1, <2>4 DEF TheLease!Next
<1>5. CASE tab'[t].editor \notin {"opening", "open"}
  <2>1. Editors' = Editors \ {t[1]}
    BY <1>3, <1>5, EditorsLemma
  <2>2. TheLease!End(t[1])
    BY <1>2, <2>1 DEF TheLease!End
  <2> QED
    BY <1>1, <2>2 DEF TheLease!Next
<1> QED
  BY <1>4, <1>5

\* A reply frees the lock of the tab's own user, who does not edit.
LEMMA LeaseReply ==
    ASSUME CareInv, CareInv', NEW t \in Tab, tab[t].editor # "opening", Reply(t)
    PROVE  [TheLease!Next]_<<Owner, Editors>>
<1>1. /\ TypeOK /\ tab \in [Tab -> TabState] /\ lock \in Locks /\ t[1] \in User
      /\ CareTab(t) /\ tab[t] \in TabState
  BY EditLockAssumption DEF CareInv, TypeInv, TypeOK
<1>2. /\ tab' = [tab EXCEPT ![t] = [tab[t] EXCEPT !.reply = "none"]]
      /\ IF tab[t].reply = "lock" /\ tab[t].editor # "open"
         THEN lock' = FreeLock(lock, t[1]) ELSE lock' = lock
  BY <1>1, ReplyLemma
<1>3. /\ tab[t].open /\ tab'[t].editor = tab[t].editor
      /\ \A r \in Tab \ {t} : tab'[r] = tab[r]
  BY <1>1, <1>2 DEF Reply, CareTab, TabState
<1>4. Editors' = Editors
  BY <1>3, EditorsLemma
<1>5. CASE lock' = lock
  BY <1>4, <1>5 DEF Owner, Held
<1>6. CASE tab[t].reply = "lock" /\ tab[t].editor # "open"
  <2>1. tab[t].open /\ OwnedBy(t[1])
    BY <1>1, <1>6 DEF CareTab
  <2>2. \A u \in Editors : u = t[1]
    BY <1>1, <2>1, LiveLemma, OwnerLemma
  <2>3. t[1] \notin Editors
    BY <1>3, <1>6, EditorsLemma
  <2>4. lock'.stored = None
    BY <1>1, <1>2, <1>6, FreeLockLemma
  <2>5. TheLease!Lapse
    BY <1>4, <2>2, <2>3, <2>4 DEF TheLease!Lapse, Owner, Held
  <2> QED
    BY <2>5 DEF TheLease!Next
<1> QED
  BY <1>2, <1>5, <1>6

\* Who takes the lock finds no owner, and edits.
LEMMA LeaseTake ==
    ASSUME CareInv, CareInv', NEW t \in Tab, Take(t)
    PROVE  TheLease!Next
<1>1. TypeOK /\ tab \in [Tab -> TabState] /\ t[1] \in User /\ CareTab(t) /\ tab[t] \in TabState
  BY EditLockAssumption DEF CareInv, TypeInv, TypeOK
<1>2. PICK K \in Locks : lock' = PutLock(K, t[1])
  BY <1>1, TakeLemma
<1>3. lock'.stored = [user |-> t[1], left |-> Life] /\ lock'.stored # None
  BY <1>1, <1>2, PutLockLemma
<1>4. Owner' = t[1]
  BY <1>3, EditLockAssumption DEF Owner, Held
<1>5. /\ tab[t].open /\ tab'[t].editor = "opening"
      /\ \A r \in Tab \ {t} : tab'[r] = tab[r]
  <2>1. tab' = [tab EXCEPT ![t] = [tab[t] EXCEPT !.editor = "opening", !.seen = None]]
    BY <1>1, TakeLemma
  <2>2. [tab[t] EXCEPT !.editor = "opening", !.seen = None].editor = "opening"
    BY <1>1 DEF TabState
  <2> QED
    BY <1>1, <2>1, <2>2 DEF Take, CareTab
<1>6. Owner = None /\ Editors = {}
  <2>1. ~Held
    BY <1>1 DEF Take, CareTab
  <2> QED
    BY <2>1, OwnerLemma, EditLockAssumption DEF Editors
<1>7. Editors' = {t[1]}
  BY <1>5, <1>6, EditorsLemma
<1>8. TheLease!Obtain(t[1])
  BY <1>4, <1>6, <1>7 DEF TheLease!Obtain
<1> QED
  BY <1>1, <1>8 DEF TheLease!Next

\* Time ends a lease only under which nobody edits.
LEMMA LeaseTick ==
    ASSUME CareInv, EditorHoldsLock', Tick
    PROVE  [TheLease!Next]_<<Owner, Editors>>
<1>1. TypeOK
  BY DEF CareInv, TypeInv
<1>2. /\ lock'.stored = None <=> lock.stored = None
      /\ lock.stored # None => lock'.stored.user = lock.stored.user
      /\ \A t \in Tab : tab'[t].editor = tab[t].editor
  BY <1>1, TickLemma
<1>3. Editors' = Editors
  BY <1>2 DEF Editors
<1>4. CASE Held /\ Held'
  BY <1>2, <1>3, <1>4 DEF Owner, Held
<1>5. CASE Held /\ ~Held'
  <2>1. Owner' = None /\ Editors' = {}
    BY <1>5 DEF Owner, Editors, EditorHoldsLock
  <2>2. TheLease!Lapse
    BY <1>3, <2>1 DEF TheLease!Lapse
  <2> QED
    BY <2>2 DEF TheLease!Next
<1>6. CASE ~Held
  BY <1>3, <1>6 DEF Tick, Owner, Held
<1> QED
  BY <1>4, <1>5, <1>6

\* The sender frees a lock whose lease is over.
LEMMA LeaseSender ==
    ASSUME CareInv, Sender
    PROVE  UNCHANGED <<Owner, Editors>>
<1>1. TypeOK /\ lock \in Locks
  BY DEF CareInv, TypeInv, TypeOK
<1>2. /\ UNCHANGED tab
      /\ lock' = lock \/ (Expired /\ lock' = FreeLock(lock, lock.stored.user))
  BY <1>1, SenderLemma
<1>3. Editors' = Editors
  BY <1>2 DEF Editors
<1>4. CASE Expired /\ lock' = FreeLock(lock, lock.stored.user)
  <2>1. lock.stored.user \in User /\ ~Held
    BY <1>1, <1>4 DEF Expired, Held, Locks, Stored
  <2>2. lock'.stored = None
    BY <1>1, <1>4, <2>1, FreeLockLemma
  <2> QED
    BY <1>3, <2>1, <2>2 DEF Owner, Held
<1> QED
  BY <1>2, <1>3, <1>4 DEF Owner, Held

LEMMA LeaseStep ==
    ASSUME CareInv, CareInv', EditorHoldsLock', [CareNext]_vars
    PROVE  [TheLease!Next]_<<Owner, Editors>>
<1>1. ASSUME NEW t \in Tab, Take(t)
      PROVE  [TheLease!Next]_<<Owner, Editors>>
  BY <1>1, LeaseTake
<1>2. ASSUME NEW t \in Tab, Open(t) \/ Poll(t)
      PROVE  [TheLease!Next]_<<Owner, Editors>>
  BY <1>2, LeasePoll
<1>3. ASSUME NEW t \in Tab, Leave(t) \/ Ask(t) \/ Edit(t) \/ EndEdit(t)
      PROVE  [TheLease!Next]_<<Owner, Editors>>
  BY <1>3, LeaseLocal
<1>4. ASSUME NEW t \in Tab, tab[t].editor # "opening", Reply(t)
      PROVE  [TheLease!Next]_<<Owner, Editors>>
  BY <1>4, LeaseReply
<1>5. CASE Tick
  BY <1>5, LeaseTick
<1>6. CASE Sender
  BY <1>6, LeaseSender
<1>7. CASE UNCHANGED vars
  BY <1>7 DEF vars, Owner, Held, Editors
<1> QED
  BY <1>1, <1>2, <1>3, <1>4, <1>5, <1>6, <1>7 DEF CareNext, CareStep

\* With care, for any number of users and pages and any times: the
\* locks, the polls that prolong them and the sender that frees them implement a
\* lease, which never passes from its owner to another user directly and does not
\* lapse while its owner edits.
THEOREM LockImplementsLease == CareSpec => ImplementsLease
<1>1. Init => TheLease!Init
  <2> SUFFICES ASSUME Init
               PROVE  TheLease!Init
    OBVIOUS
  <2>1. \A t \in Tab : tab[t].editor = "none"
    BY DEF Init, ClosedTab
  <2>2. ~Held
    BY DEF Init, Held
  <2> QED
    BY <2>1, <2>2 DEF TheLease!Init, Owner, Editors
<1>2. CareInv /\ CareInv' /\ EditorHoldsLock' /\ [CareNext]_vars => [TheLease!Next]_<<Owner, Editors>>
  BY LeaseStep
<1>3. CareSpec => []CareInv /\ []EditorHoldsLock
  BY CareInductive, EditorsAreLocked
<1> QED
  BY <1>1, <1>2, <1>3, PTL DEF CareSpec, ImplementsLease, TheLease!Spec, TheLease!vars

=============================================================================
