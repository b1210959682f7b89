------------------------------ MODULE MCCaches ------------------------------
(* Values for the constants of Caches. *)
EXTENDS Caches

CONSTANTS r1, r2, r3

=============================================================================
