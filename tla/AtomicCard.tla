----------------------------- MODULE AtomicCard -----------------------------
(***************************************************************************)
(* What the process card promises to its users: one card per process that  *)
(* a request changes in one step, whatever rows, copies and signs of ids   *)
(* it is kept in.  A status moves along the transitions of the type and    *)
(* closes the process; new groups are allowed ones, and with a group go    *)
(* its executors; a number that was given out is not used for another      *)
(* process.                                                                *)
(*                                                                         *)
(* ProcessCard implements it as long as its requests do not overlap.       *)
(***************************************************************************)
CONSTANTS
    Number,         \* of processes
    Type, Status, GroupRole,
    CreateStatus, CloseStatus, Enabled, AllowedGroups, WizardType,
    None

VARIABLES
    card,      \* [Number -> a card or None]
    finished,  \* the processes whose wizard, if any, is over
    used       \* the numbers that were given out

vars == <<card, finished, used>>

Init ==
    /\ card = [k \in Number |-> None]
    /\ finished = {}
    /\ used = {}

Exists(k) == card[k] # None

Put(k, c) ==
    /\ card' = [card EXCEPT ![k] = c]
    /\ UNCHANGED <<finished, used>>

PutNew(k, c) ==
    /\ card' = [card EXCEPT ![k] = c]
    /\ used' = used \cup {k}

Create(k) ==
    /\ k \notin used
    /\ \E t \in Type, G \in SUBSET GroupRole :
          /\ PutNew(k, [type |-> t, status |-> CreateStatus[t],
                        closed |-> CreateStatus[t] \in CloseStatus[t],
                        groups |-> G, executors |-> {},
                        statusType |-> t, copied |-> FALSE])
          /\ finished' = IF t \in WizardType THEN finished ELSE finished \cup {k}

\* The end of the wizard, or a return to it, changes nothing on the card.
Finish(k) ==
    /\ Exists(k)
    /\ finished' \in {finished \cup {k}, finished \ {k}}
    /\ UNCHANGED <<card, used>>

SetStatus(k) ==
    /\ Exists(k)
    /\ \E s \in Status :
          /\ <<card[k].status, s>> \in Enabled[card[k].type]
          /\ Put(k, [card[k] EXCEPT !.status = s,
                                    !.closed = s \in CloseStatus[card[k].type],
                                    !.statusType = card[k].type])

SetType(k) ==
    /\ Exists(k)
    /\ \E t \in Type : Put(k, [card[k] EXCEPT !.type = t])

\* Executors go with the groups they act in.
SetGroups(k) ==
    /\ Exists(k) /\ Exists(k)'
    /\ LET G == card'[k].groups
       IN  /\ AllowedGroups[card[k].type] # {} =>
                 G \ card[k].groups \subseteq AllowedGroups[card[k].type]
           /\ Put(k, [card[k] EXCEPT !.groups = G,
                                     !.executors = {e \in card[k].executors : e.role \in G}])

SetExecutors(k) ==
    /\ Exists(k) /\ Exists(k)'
    /\ Put(k, [card[k] EXCEPT !.executors = card'[k].executors])

Delete(k) ==
    /\ Exists(k)
    /\ card' = [card EXCEPT ![k] = None]
    /\ finished' = finished \ {k}
    /\ UNCHANGED used

\* Of a process that its user may not see a change of priority makes another.
Copy(k) ==
    /\ k \notin used
    /\ \E j \in Number :
          /\ Exists(j)
          /\ PutNew(k, [card[j] EXCEPT !.closed = FALSE, !.groups = {}, !.copied = TRUE])
    /\ finished' = finished \cup {k}

Change(k) ==
    \/ SetExecutors(k) \/ SetGroups(k) \/ SetType(k) \/ SetStatus(k)
    \/ Delete(k) \/ Create(k) \/ Copy(k)

Next ==
    \E k \in Number :
        \/ card'[k] # card[k] /\ Change(k)
        \/ Finish(k)

Spec == Init /\ [][Next]_vars

=============================================================================
