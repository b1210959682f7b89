---------------------------- MODULE ProcessGraph ----------------------------
(***************************************************************************)
(* What the links between processes promise, without sessions and without  *)
(* a search: a graph that a request changes in one step, that never gets   *)
(* a cycle of a controlled type, that loses all links of a process which   *)
(* is deleted, and in which a process is closed only after those it waits  *)
(* for.                                                                    *)
(*                                                                         *)
(* ProcessLinks implements it as long as its requests do not overlap.      *)
(***************************************************************************)
CONSTANTS
    Process,
    Controlled,  \* the types whose cycles are forbidden
    Up, Down     \* the types that make the linked, the linking process wait

VARIABLES
    links,  \* a set of [type, from, to]
    state   \* [Process -> {"new", "open", "closed", "deleted"}]

vars == <<links, state>>

Init ==
    /\ links = {}
    /\ state = [p \in Process |-> "new"]

Exists(p) == state[p] \in {"open", "closed"}

\* Every set of processes has one that no link of the type leads from back into
\* the set.
NoCycle(L) ==
    \A t \in Controlled, S \in SUBSET Process :
        S # {} => \E p \in S : \A l \in L : l.type = t /\ l.from = p => l.to \notin S

MustWait(p) ==
    \E l \in links :
        \/ l.type \in Down /\ l.from = p /\ l.to # p /\ state[l.to] = "open"
        \/ l.type \in Up /\ l.to = p /\ l.from # p /\ state[l.from] = "open"

\* A process may be created with links to it.
Create(p) ==
    /\ state[p] = "new"
    /\ state' = [state EXCEPT ![p] = "open"]
    /\ links \subseteq links'
    /\ \A l \in links' \ links : l.to = p /\ Exists(l.from)
    /\ NoCycle(links')

Delete(p) ==
    /\ Exists(p)
    /\ links' = {l \in links : p \notin {l.from, l.to}}
    /\ state' = [state EXCEPT ![p] = "deleted"]

Reopen(p) ==
    /\ state[p] = "closed"
    /\ state' = [state EXCEPT ![p] = "open"]
    /\ UNCHANGED links

Close(p) ==
    /\ state[p] = "open"
    /\ ~MustWait(p)
    /\ state' = [state EXCEPT ![p] = "closed"]
    /\ UNCHANGED links

\* A link is added, others are removed, and no cycle may come of it.  Its ends
\* are processes that were created, and may be deleted again.
Add(l) ==
    /\ state[l.from] # "new" /\ state[l.to] # "new"
    /\ links' \ {l} \subseteq links
    /\ NoCycle(links')
    /\ UNCHANGED state

Remove ==
    /\ links' \subseteq links
    /\ UNCHANGED state

Next ==
    \/ \E p \in Process : Create(p) \/ Delete(p) \/ Reopen(p) \/ Close(p)
    \/ \E l \in links' : Add(l)
    \/ Remove

Spec == Init /\ [][Next]_vars

=============================================================================
