---------------------------- MODULE MissionState ----------------------------
(***************************************************************************)
(* The mission part of InMemoryStore: which revision of a mission is       *)
(* authoritative, what the parent last read of its exit predicates, which  *)
(* routes the parent has given up, and which acknowledged packets of older *)
(* revisions it has put aside.  Every action is one public method of the   *)
(* store; each runs under the store's single lock (@_atomic, core.py:169), *)
(* so it is one step.                                                      *)
(*                                                                         *)
(* Abstractions.  A mission revision is told apart by its number: what     *)
(* the code compares to detect a different payload of the same revision    *)
(* only rejects, and changes no state.  All revisions of all missions      *)
(* share the predicates and the candidate routes given as constants; a     *)
(* packet keeps the revision it was planned for, so nothing depends on it. *)
(***************************************************************************)
EXTENDS Integers, Sequences

CONSTANTS
  Missions,        \* mission ids
  Predicates,      \* predicate keys
  PredicateOrder,  \* Mission.predicates: the keys in order
  Routes,          \* route ids
  RouteOrder,      \* Mission.routes sorted by (rank, route_id)
  RoutePredicate,  \* Route.predicate_key
  DeclaredTruths,  \* truth vectors a registered mission may declare
  ReadbackTruths,  \* truth vectors the parent may read back
  MaxRevision,     \* bound: revisions registered in a run
  MaxSequence      \* bound: parent_state_sequence values in a run

Truth == {"SATISFIED", "UNSATISFIED", "INDETERMINATE"}
NoSnapshot == -1

ASSUME MissionAssumption ==
  /\ PredicateOrder \in Seq(Predicates)
  /\ RouteOrder \in Seq(Routes)
  /\ RoutePredicate \in [Routes -> Predicates]
  /\ DeclaredTruths \subseteq [Predicates -> Truth]
  /\ ReadbackTruths \subseteq [Predicates -> Truth]
  /\ MaxRevision \in Nat
  /\ MaxSequence \in Nat

VARIABLES
  revision,   \* _missions: the registered revision, 0 when there is none
  truth,      \* what first_false reads: the snapshot, or the declared flags
  sequence,   \* parent_state_sequence of the snapshot of that revision
  disposed,   \* keys of _route_dispositions
  superseded  \* _mission_supersessions: a packet and the newer revision

missionVars == <<revision, truth, sequence, disposed, superseded>>

MissionTypeOK ==
  /\ revision \in [Missions -> Nat]
  /\ truth \in [Missions -> [Predicates -> Truth]]
  /\ sequence \in [Missions -> Nat \cup {NoSnapshot}]
  /\ disposed \subseteq Missions \X Nat \X Routes

MissionInit ==
  /\ revision = [m \in Missions |-> 0]
  /\ truth = [m \in Missions |-> [q \in Predicates |-> "UNSATISFIED"]]
  /\ sequence = [m \in Missions |-> NoSnapshot]
  /\ disposed = {}
  /\ superseded = {}

-----------------------------------------------------------------------------

\* first_false returns q: no predicate is indeterminate (the method raises if
\* one is), q is unsatisfied and every predicate before it is satisfied.
FirstFalse(m, q) ==
  /\ \A x \in Predicates : truth[m][x] # "INDETERMINATE"
  /\ \E i \in DOMAIN PredicateOrder :
       /\ PredicateOrder[i] = q
       /\ truth[m][q] = "UNSATISFIED"
       /\ \A j \in 1..(i-1) : truth[m][PredicateOrder[j]] = "SATISFIED"

RouteDisposed(m, n, r) == <<m, n, r>> \in disposed

\* plan's choice for the current revision of m: the first undisposed route in
\* (rank, route_id) order among those of the first false predicate.
SelectedRoute(m, r) ==
  /\ FirstFalse(m, RoutePredicate[r])
  /\ \E i \in DOMAIN RouteOrder :
       /\ RouteOrder[i] = r
       /\ ~RouteDisposed(m, revision[m], r)
       /\ \A j \in 1..(i-1) :
            \/ RoutePredicate[RouteOrder[j]] # RoutePredicate[r]
            \/ RouteDisposed(m, revision[m], RouteOrder[j])

-----------------------------------------------------------------------------

AcceptAnyRevision(m, n) == n # revision[m]

\* The guard of register_mission: only a newer revision replaces the current.
IsNewer(m, n) == n > revision[m]

\* register_mission.  The snapshot of a revision is found by its number, so a
\* new revision starts from its declared flags.
RegisterMission(m, n, declared) ==
  /\ IsNewer(m, n)
  /\ revision' = [revision EXCEPT ![m] = n]
  /\ truth' = [truth EXCEPT ![m] = declared]
  /\ sequence' = [sequence EXCEPT ![m] = NoSnapshot]
  /\ UNCHANGED <<disposed, superseded>>

\* record_route_disposition: binds a route of the current revision, once.
RecordRouteDisposition(m, r) ==
  /\ revision[m] > 0
  /\ ~RouteDisposed(m, revision[m], r)
  /\ disposed' = disposed \cup {<<m, revision[m], r>>}
  /\ UNCHANGED <<revision, truth, sequence, superseded>>

IsOther(m, s) == s # sequence[m]

IsLater(m, s) == s > sequence[m]

\* What verify_mission checks of a readback against the stored snapshot and
\* what it writes.  An equal sequence with equal content changes nothing, with
\* different content it is a conflict, and an older one is stale.
AdoptReadback(m, s, t) ==
  /\ IsLater(m, s)
  /\ truth' = [truth EXCEPT ![m] = t]
  /\ sequence' = [sequence EXCEPT ![m] = s]
  /\ UNCHANGED <<revision, disposed, superseded>>
=============================================================================
