----------------------------- MODULE MCEditLock -----------------------------
(* Values for the constants of EditLock. *)
EXTENDS EditLock

CONSTANTS u1, u2, u3

\* The first user may have two pages open, the others one.
MCTab == (User \X {1}) \cup {<<u1, 2>>}

\* A page for each.
MCOneTab == User \X {1}

=============================================================================
