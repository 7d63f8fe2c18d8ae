----------------------------- MODULE ExactlyOnce -----------------------------
(***************************************************************************)
(* What the continuation of a receipt promises (SPEC.md 7, steps 9 to 11,  *)
(* and 8, invariants 5 and 6): the destination takes the turn at most      *)
(* once, and it is acknowledged at most once and only after that.          *)
(***************************************************************************)
EXTENDS Naturals

VARIABLES
  turns,   \* turns the destination has committed for the receipt
  acks     \* acknowledgements recorded for it

Init == turns = 0 /\ acks = 0

Commit == turns = 0 /\ turns' = 1 /\ UNCHANGED acks

Acknowledge == turns = 1 /\ acks = 0 /\ acks' = 1 /\ UNCHANGED turns

Next == Commit \/ Acknowledge

Spec == Init /\ [][Next]_<<turns, acks>>
=============================================================================
