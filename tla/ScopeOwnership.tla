--------------------------- MODULE ScopeOwnership ---------------------------
(***************************************************************************)
(* What a lease promises, without packets, missions or versions: an owner  *)
(* takes all the items of a scope in one step, only if all of them are     *)
(* free, gives all of them back in one step, and never comes back.         *)
(* SPEC.md 5.3 and 5.5 state it of lease claims and their release.         *)
(***************************************************************************)
CONSTANT Items

VARIABLES
  holder,   \* who owns each item: nobody, or one owner
  retired   \* owners that have given their scope back

ownerVars == <<holder, retired>>

Holding == UNION {holder[i] : i \in Items}

Init ==
  /\ holder = [i \in Items |-> {}]
  /\ retired = {}

Acquire(o, S) ==
  /\ o \notin Holding \cup retired
  /\ \A i \in S : holder[i] = {}
  /\ holder' = [i \in Items |-> IF i \in S THEN {o} ELSE holder[i]]
  /\ UNCHANGED retired

Release(o) ==
  /\ holder' = [i \in Items |-> holder[i] \ {o}]
  /\ retired' = retired \cup {o}

\* The owners are not a constant: a new one is whoever holds items afterwards.
Next ==
  \/ \E S \in (SUBSET Items) \ {{}}, o \in Holding' : Acquire(o, S)
  \/ \E o \in Holding : Release(o)

Spec == Init /\ [][Next]_ownerVars
=============================================================================
