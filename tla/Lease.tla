------------------------------- MODULE Lease -------------------------------
(***************************************************************************)
(* What the lock of a message promises to those who edit it, without tabs, *)
(* polls and times: at most one user owns the message, only the owner      *)
(* edits, nobody takes the ownership over, and it does not lapse while the *)
(* owner edits.                                                            *)
(*                                                                         *)
(* EditLock implements it under the conditions of its CareSpec.            *)
(***************************************************************************)
CONSTANTS
    User,
    None

VARIABLES
    owner,   \* a user or None
    editing  \* the users who edit

vars == <<owner, editing>>

Init ==
    /\ owner = None
    /\ editing = {}

\* A message that nobody owns gets an owner, who may edit it at once.
Obtain(u) ==
    /\ owner = None
    /\ owner' = u
    /\ editing' \in {{}, {u}}

Begin(u) ==
    /\ owner = u
    /\ editing' = {u}
    /\ UNCHANGED owner

End(u) ==
    /\ editing' = editing \ {u}
    /\ UNCHANGED owner

\* The owner frees the message or the time is over.
Lapse ==
    /\ editing = {}
    /\ owner' = None
    /\ UNCHANGED editing

Next ==
    \/ \E u \in User : Obtain(u) \/ Begin(u) \/ End(u)
    \/ Lapse

Spec == Init /\ [][Next]_vars

=============================================================================
