----------------------------- MODULE MCRecovery -----------------------------
(***************************************************************************)
(* Small instances of Recovery, with the routes and truths of MCTaskStore. *)
(***************************************************************************)
EXTENDS Recovery, MCTaskStore

OneRoute == <<r1>>

\* A graph of one action, and that of the same action twice: another graph.
Repetitions == UNION {[1..n -> RecoveryActions] : n \in 1..2}

=============================================================================
