--------------------------- MODULE MCProcessLinks ---------------------------
(* Values for the constants of ProcessLinks. *)
EXTENDS ProcessLinks, TLC

CONSTANTS made, depend, link, p1, p2, p3, p4, s1, s2

\* Processes are interchangeable; not used where liveness is checked.
Symmetry == Permutations(Process)

=============================================================================
