--------------------------- MODULE MCDatabaseWork ---------------------------
(* Bounds for recovery tests and retained restores on a few databases. *)
EXTENDS DatabaseWork

\* Bound: an internal target for a test or for a restore, not for both at a time.  They
\* are different targets, and meet only where both tables are read for work in progress.
\* Only requests of the user, which are under no fairness, could lead to both.
OneInternal ==
    \A t \in Tests, r \in Restores : ~(test'[t].policy = "internal" /\ restore'[r].mode = "internal")
=============================================================================
