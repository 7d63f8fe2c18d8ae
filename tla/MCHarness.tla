------------------------------ MODULE MCHarness ------------------------------
(***************************************************************************)
(* Small instances of Harness, with the routes and truths of MCTaskStore.  *)
(***************************************************************************)
EXTENDS Harness, MCTaskStore

FalseOrUnknown == {AllFalse, Unknown}

ThreadSymmetry == Permutations(Threads)
=============================================================================
