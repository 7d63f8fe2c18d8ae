-------------------------------- MODULE MCTura --------------------------------
(***************************************************************************)
(* Small instances of TuraAdapter, with the definitions of MCHarness.      *)
(***************************************************************************)
EXTENDS TuraAdapter, MCHarness

\* The runtime's effect ids are interchangeable, and so are the threads.
TuraSymmetry == Permutations(Threads) \cup Permutations(Effects)
=============================================================================
