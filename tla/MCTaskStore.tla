----------------------------- MODULE MCTaskStore -----------------------------
(***************************************************************************)
(* Small instances of TaskStore.  Each .cfg picks the part of the store it *)
(* exercises.                                                              *)
(***************************************************************************)
EXTENDS TaskStore, TLC

CONSTANTS p1, p2, r1, r2, a, b

\* One predicate, or a second one that only a readback makes current.
OneOrder == <<p1>>
TwoOrder == <<p1, p2>>

\* Two routes, of one predicate or of one each.
TwoRoutes == <<r1, r2>>
OnePredicate == [r \in Routes |-> p1]
SplitPredicate == [r \in Routes |-> IF r = r1 THEN p1 ELSE p2]

\* Two claims that overlap in part, or that can be active together.
Overlapping == [r \in Routes |-> IF r = r1 THEN {a} ELSE {a, b}]
Apart == [r \in Routes |-> IF r = r1 THEN {a} ELSE {b}]

AllFalse == [q \in Predicates |-> "UNSATISFIED"]
Unknown == [q \in Predicates |-> "INDETERMINATE"]
FirstTrue == [AllFalse EXCEPT ![p1] = "SATISFIED"]

JustFalse == {AllFalse}
FlipTruths == {AllFalse, FirstTrue, Unknown}
NoReadback == {}
=============================================================================
