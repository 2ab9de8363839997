---------------------------- MODULE MCLocalBackup ----------------------------
(* All backups belong to one plan. *)
EXTENDS LocalBackup

OnePlan == [b \in Backups |-> "plan"]
=============================================================================
