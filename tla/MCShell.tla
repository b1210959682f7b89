------------------------------ MODULE MCShell -------------------------------
(* Values for the constants of Shell. *)
EXTENDS Shell

CONSTANTS t1, t2, t3, p1, p2, c1

=============================================================================
