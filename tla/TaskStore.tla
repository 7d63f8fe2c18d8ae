------------------------------ MODULE TaskStore ------------------------------
(***************************************************************************)
(* The task part of InMemoryStore (core.py): planned packets, claims with  *)
(* compare-and-swap on scope versions, execution attempts, their steps,    *)
(* failures and reconciliations, and terminal receipts.                    *)
(*                                                                         *)
(* The store is offered to every caller: any public method may be called   *)
(* at any time, from any thread, with any argument.  A call the code       *)
(* rejects changes nothing and is not a step; a call that both writes and  *)
(* raises (an effect already owned, an unsettled result) is a step with    *)
(* what it writes.  Each method holds the store's lock for its whole body  *)
(* (@_atomic), so each is one action.                                      *)
(*                                                                         *)
(* Identities are content-addressed in the code, so a record is its own    *)
(* id.  A lease holds nothing that its packet does not determine, so       *)
(* _leases_by_packet is the set claims and _active_leases the set active.  *)
(***************************************************************************)
EXTENDS MissionState, FiniteSets

CONSTANTS
  Items,        \* scope items
  RouteScope,   \* Route.scope, a non-empty set of items
  Effects,      \* effect ids an executor may report
  StepEffects,  \* effect ids a step may report
  NoEffect,     \* effect_id is None
  MaxPlanned,   \* bound: packets planned in a run
  MaxSteps      \* bound: steps recorded in a run

ASSUME TaskAssumption ==
  /\ RouteScope \in [Routes -> (SUBSET Items) \ {{}}]
  /\ NoEffect \notin Effects \cup StepEffects
  /\ MaxPlanned \in Nat
  /\ MaxSteps \in Nat

EffectState == {"NONE", "SETTLED", "UNSETTLED"}
Status == {"SUCCEEDED", "BLOCKED", "FAILED"}

\* TaskPacket, with the fields that decide anything: predicate, scope and
\* executor follow from the route, which claim compares with the mission's.
IsPacket(p) ==
  /\ p.mission \in Missions
  /\ p.revision \in Nat
  /\ p.route \in Routes
  /\ p.versions \in [RouteScope[p.route] -> Nat]

Result == [effect : Effects, state : {"SETTLED", "UNSETTLED"}]
Receipt == [status : Status, effect : Effects \cup {NoEffect}, state : EffectState]

VARIABLES
  version,    \* _scope_versions, 0 for an item never claimed
  planned,    \* packets plan has returned to some caller
  claims,     \* _packets and _leases_by_packet
  active,     \* _active_leases
  started,    \* _execution_started
  attempts,   \* _attempts: packet -> the result it returned
  failures,   \* _execution_failures: packet -> its observed effect
  owner,      \* _effect_owner: effect id -> packet
  steps,      \* _step_attempts; _step_effect_owner follows from it
  stepProof,  \* _step_reconciliations: step -> the state proved
  receipts,   \* _receipt_by_packet
  acked       \* _ack_by_packet

leaseVars == <<version, planned, claims>>
effectVars == <<attempts, failures, owner>>
stepVars == <<steps, stepProof>>
taskVars == <<leaseVars, active, started, effectVars, stepVars, receipts, acked>>
vars == <<missionVars, taskVars>>

\* d[k] = v of a Python dict.
Put(d, k, v) == [x \in DOMAIN d \cup {k} |-> IF x = k THEN v ELSE d[x]]

Scope(p) == RouteScope[p.route]

TypeOK ==
  /\ MissionTypeOK
  /\ version \in [Items -> Nat]
  /\ \A p \in planned : IsPacket(p)
  /\ claims \subseteq planned
  /\ active \subseteq claims
  /\ started \subseteq claims
  /\ attempts \in [DOMAIN attempts -> Result]
  /\ DOMAIN attempts \subseteq started
  /\ failures \in [DOMAIN failures -> Effects \cup {NoEffect}]
  /\ DOMAIN failures \subseteq started
  /\ owner \in [DOMAIN owner -> started]
  /\ DOMAIN owner \subseteq Effects
  /\ steps \subseteq [packet : started, effect : StepEffects \cup {NoEffect}, state : EffectState]
  /\ stepProof \in [DOMAIN stepProof -> {"NONE", "SETTLED"}]
  /\ DOMAIN stepProof \subseteq steps
  /\ receipts \in [DOMAIN receipts -> Receipt]
  /\ DOMAIN receipts \subseteq claims
  /\ acked \subseteq DOMAIN receipts
  /\ superseded \subseteq acked \X Nat

TaskInit ==
  /\ version = [i \in Items |-> 0]
  /\ planned = {}
  /\ claims = {}
  /\ active = {}
  /\ started = {}
  /\ attempts = <<>>
  /\ failures = <<>>
  /\ owner = <<>>
  /\ steps = {}
  /\ stepProof = <<>>
  /\ receipts = <<>>
  /\ acked = {}

Init == MissionInit /\ TaskInit

-----------------------------------------------------------------------------
(* Missions: the steps of MissionState, the tasks left alone.              *)

Register(m, n, declared) ==
  /\ RegisterMission(m, n, declared)
  /\ UNCHANGED taskVars

Dispose(m, r) ==
  /\ RecordRouteDisposition(m, r)
  /\ UNCHANGED taskVars

\* _acknowledge_delivery, as the tasks see it: an acknowledgement exists only
\* for a packet with a receipt.  Module Continuation has the whole delivery.
Acknowledge(p) ==
  /\ p \in DOMAIN receipts \ acked
  /\ acked' = acked \cup {p}
  /\ UNCHANGED <<missionVars, leaseVars, active, started, effectVars, stepVars, receipts>>

AnyAcknowledged(p) == p \in acked

\* A readback is accepted only through an acknowledged packet of the current
\* revision.
MayReadBack(p) == p \in acked /\ revision[p.mission] = p.revision

VerifyMission(p, s, t) ==
  /\ MayReadBack(p)
  /\ AdoptReadback(p.mission, s, t)
  /\ UNCHANGED taskVars

\* record_mission_supersession: once for an acknowledged packet of an older
\* revision and the revision that is current.
RecordMissionSupersession(p) ==
  /\ p \in acked
  /\ p.revision < revision[p.mission]
  /\ <<p, revision[p.mission]>> \notin superseded
  /\ superseded' = superseded \cup {<<p, revision[p.mission]>>}
  /\ UNCHANGED <<revision, truth, sequence, disposed, taskVars>>

-----------------------------------------------------------------------------
(* Planning and claiming.                                                  *)

\* plan, after register_mission: the packet records the scope versions of the
\* moment.  Nothing but claim reads it, and claim checks it again.
Plan(m, r) ==
  /\ Cardinality(planned) < MaxPlanned
  /\ revision[m] > 0
  /\ SelectedRoute(m, r)
  /\ planned' = planned \cup
       {[mission  |-> m,
         revision |-> revision[m],
         route    |-> r,
         versions |-> [i \in RouteScope[r] |-> version[i]]]}
  /\ UNCHANGED <<missionVars, version, claims, active, started, effectVars, stepVars, receipts, acked>>

\* _validate_packet: the packet is of the current revision, for the first
\* false predicate, by a route that is not disposed.
Current(p) ==
  /\ revision[p.mission] = p.revision
  /\ FirstFalse(p.mission, RoutePredicate[p.route])
  /\ ~RouteDisposed(p.mission, p.revision, p.route)

OverlapNotChecked(p) == TRUE

ScopeFree(p) == \A q \in active : Scope(p) \cap Scope(q) = {}

VersionsMatch(p) == \A i \in Scope(p) : version[i] = p.versions[i]

BumpedVersions(p) == [i \in Items |-> IF i \in Scope(p) THEN p.versions[i] + 1 ELSE version[i]]

Claim(p) ==
  /\ Current(p)
  /\ p \notin claims
  /\ ScopeFree(p)
  /\ VersionsMatch(p)
  /\ version' = BumpedVersions(p)
  /\ claims' = claims \cup {p}
  /\ active' = active \cup {p}
  /\ UNCHANGED <<missionVars, planned, started, effectVars, stepVars, receipts, acked>>

-----------------------------------------------------------------------------
(* Execution and its steps.                                                *)

LeaseNotChecked(p) == Current(p)

\* _validate_active_claim with the mission: what begin_execution and every
\* step method ask for.
ClaimCurrent(p) == Current(p) /\ p \in active

BeginAgain(p) ==
  /\ ClaimCurrent(p)
  /\ started' = started \cup {p}
  /\ UNCHANGED <<missionVars, leaseVars, active, effectVars, stepVars, receipts, acked>>

BeginExecution(p) ==
  /\ p \notin started
  /\ p \notin DOMAIN receipts
  /\ ClaimCurrent(p)
  /\ started' = started \cup {p}
  /\ UNCHANGED <<missionVars, leaseVars, active, effectVars, stepVars, receipts, acked>>

\* record_step_attempt for a step that is not a recovery of another.  A step
\* is its own id: recording it again changes nothing, and another step with
\* the same effect id is refused.
RecordStepAttempt(p, e, st) ==
  LET step == [packet |-> p, effect |-> e, state |-> st]
  IN  /\ Cardinality(steps) < MaxSteps
      /\ ClaimCurrent(p)
      /\ p \in started
      /\ (st = "NONE") <=> (e = NoEffect)
      /\ step \notin steps
      /\ e # NoEffect => \A s \in steps : s.effect # e
      /\ steps' = steps \cup {step}
      /\ UNCHANGED <<missionVars, leaseVars, active, started, effectVars, stepProof, receipts, acked>>

EffectiveState(s) == IF s \in DOMAIN stepProof THEN stepProof[s] ELSE s.state

ReconcileStepAnyTime(s, st) ==
  /\ s.state = "UNSETTLED"
  /\ s \notin DOMAIN stepProof
  /\ stepProof' = Put(stepProof, s, st)
  /\ UNCHANGED <<missionVars, leaseVars, active, started, effectVars, steps, receipts, acked>>

\* reconcile_step_effect: once for an unsettled step of a claim that is active
\* and current.
ReconcileStepEffect(s, st) ==
  /\ ClaimCurrent(s.packet)
  /\ s.state = "UNSETTLED"
  /\ s \notin DOMAIN stepProof
  /\ stepProof' = Put(stepProof, s, st)
  /\ UNCHANGED <<missionVars, leaseVars, active, started, effectVars, steps, receipts, acked>>

-----------------------------------------------------------------------------
(* Terminal receipts.                                                      *)

StepsIgnored(p) == TRUE

\* _assert_packet_effects_reconciled_before_terminal.
StepsReconciled(p) ==
  \A s \in steps : s.packet = p => EffectiveState(s) # "UNSETTLED"

LeaseKept(p, status, e, st) ==
  /\ p \notin DOMAIN receipts
  /\ p \in active
  /\ StepsReconciled(p)
  /\ receipts' = Put(receipts, p, [status |-> status, effect |-> e, state |-> st])
  /\ UNCHANGED active

\* _persist_terminal: one receipt per packet, and the lease is released with
\* it.  The mission need not be current any more.
PersistTerminal(p, status, e, st) ==
  /\ p \notin DOMAIN receipts
  /\ p \in active
  /\ StepsReconciled(p)
  /\ receipts' = Put(receipts, p, [status |-> status, effect |-> e, state |-> st])
  /\ active' = active \ {p}

TerminalizeStarted(p) ==
  /\ PersistTerminal(p, "BLOCKED", NoEffect, "NONE")
  /\ UNCHANGED <<missionVars, leaseVars, started, effectVars, stepVars, acked>>

\* terminalize_pre_execution: a typed blocker, only before execution starts.
TerminalizePreExecution(p) ==
  /\ p \notin started
  /\ PersistTerminal(p, "BLOCKED", NoEffect, "NONE")
  /\ UNCHANGED <<missionVars, leaseVars, started, effectVars, stepVars, acked>>

\* An observed effect goes to the failed packet unless another already has it.
OwnIfFree(p, e) == IF e \in DOMAIN owner \cup {NoEffect} THEN owner ELSE Put(owner, e, p)

\* record_execution_failure: what happened to the effect is not known yet.
RecordExecutionFailure(p, e) ==
  /\ p \in active
  /\ p \in started
  /\ p \notin DOMAIN failures \cup DOMAIN receipts
  /\ failures' = Put(failures, p, e)
  /\ owner' = OwnIfFree(p, e)
  /\ UNCHANGED <<missionVars, leaseVars, active, started, attempts, stepVars, receipts, acked>>

TakesAnyEffect(p, e) == failures[p] \in {e, NoEffect}

ObservedIgnored(p, e) == e \in DOMAIN owner => owner[e] = p

\* reconcile_failure with SETTLED: the observed effect if there is one, and
\* never another packet's.
MayClaimEffect(p, e) ==
  /\ failures[p] \in {e, NoEffect}
  /\ e \in DOMAIN owner => owner[e] = p

DisownNothing(p) == owner

DisownAnyone(p) == [e \in DOMAIN owner \ {failures[p]} |-> owner[e]]

\* reconcile_failure with NONE: the packet gives back the effect it observed.
Disown(p) ==
  [e \in {x \in DOMAIN owner : ~(x = failures[p] /\ owner[x] = p)} |-> owner[e]]

ReconcileSettled(p, e) ==
  /\ e # NoEffect
  /\ MayClaimEffect(p, e)
  /\ owner' = Put(owner, e, p)
  /\ PersistTerminal(p, "FAILED", e, "SETTLED")

ReconcileAbsent(p, e) ==
  /\ e = NoEffect
  /\ owner' = Disown(p)
  /\ PersistTerminal(p, "FAILED", NoEffect, "NONE")

\* reconcile_failure, with e the effect of the reconciliation: a failed attempt
\* ends only on a proof that it had an effect or that it had none.
ReconcileFailure(p, e) ==
  /\ p \in DOMAIN failures
  /\ ReconcileSettled(p, e) \/ ReconcileAbsent(p, e)
  /\ UNCHANGED <<missionVars, leaseVars, started, attempts, failures, stepVars, acked>>

-----------------------------------------------------------------------------
(* record_execution, one action per way it can end.                        *)

\* The checks before anything is written.
MayReturn(p) ==
  /\ p \in active
  /\ StepsReconciled(p)
  /\ p \in started
  /\ p \notin DOMAIN attempts

\* The result is bound to another packet, lease or executor, or reports an
\* effect that already has an owner: it is kept as a failure of this packet.
RejectResult(p, e) ==
  /\ MayReturn(p)
  /\ RecordExecutionFailure(p, e)

OwnerNotChecked(p, e) == MayReturn(p)

MayOwnResult(p, e) == MayReturn(p) /\ e \notin DOMAIN owner

\* An unsettled result is recorded with its effect; the lease is kept.
ReturnUnsettled(p, e) ==
  /\ MayOwnResult(p, e)
  /\ attempts' = Put(attempts, p, [effect |-> e, state |-> "UNSETTLED"])
  /\ owner' = Put(owner, e, p)
  /\ UNCHANGED <<missionVars, leaseVars, active, started, failures, stepVars, receipts, acked>>

ReturnSettled(p, e) ==
  /\ MayOwnResult(p, e)
  /\ attempts' = Put(attempts, p, [effect |-> e, state |-> "SETTLED"])
  /\ owner' = Put(owner, e, p)
  /\ PersistTerminal(p, "SUCCEEDED", e, "SETTLED")
  /\ UNCHANGED <<missionVars, leaseVars, started, failures, stepVars, acked>>

\* reconcile_effect: settles the recorded attempt without running it again.
ReconcileEffect(p) ==
  /\ p \in DOMAIN attempts
  /\ attempts[p].state = "UNSETTLED"
  /\ attempts' = [attempts EXCEPT ![p].state = "SETTLED"]
  /\ PersistTerminal(p, "SUCCEEDED", attempts[p].effect, "SETTLED")
  /\ UNCHANGED <<missionVars, leaseVars, started, failures, owner, stepVars, acked>>

-----------------------------------------------------------------------------

Next ==
  \/ \E m \in Missions, n \in 1..MaxRevision, d \in DeclaredTruths : Register(m, n, d)
  \/ \E m \in Missions, r \in Routes : Dispose(m, r)
  \/ \E m \in Missions, r \in Routes : Plan(m, r)
  \/ \E p \in planned : Claim(p)
  \/ \E p \in planned : BeginExecution(p)
  \/ \E p \in planned, e \in StepEffects \cup {NoEffect}, st \in EffectState :
       RecordStepAttempt(p, e, st)
  \/ \E s \in steps, st \in {"NONE", "SETTLED"} : ReconcileStepEffect(s, st)
  \/ \E p \in planned : TerminalizePreExecution(p)
  \/ \E p \in planned, e \in Effects \cup {NoEffect} : RecordExecutionFailure(p, e)
  \/ \E p \in planned, e \in Effects \cup {NoEffect} : ReconcileFailure(p, e)
  \/ \E p \in planned, e \in Effects : RejectResult(p, e)
  \/ \E p \in planned, e \in Effects : ReturnUnsettled(p, e)
  \/ \E p \in planned, e \in Effects : ReturnSettled(p, e)
  \/ \E p \in planned : ReconcileEffect(p)
  \/ \E p \in planned : Acknowledge(p)
  \/ \E p \in planned, s \in 0..MaxSequence, t \in ReadbackTruths : VerifyMission(p, s, t)
  \/ \E p \in planned : RecordMissionSupersession(p)

Spec == Init /\ [][Next]_vars

-----------------------------------------------------------------------------
(* Properties.                                                             *)

CommonItems(p, q) == Scope(p) \cap Scope(q)

\* p gave up every item it shares with q before q took them.
HandedOver(p, q) ==
  /\ p \in DOMAIN receipts
  /\ \A i \in CommonItems(p, q) : p.versions[i] < q.versions[i]

\* Two claims that share an item never overlap in time, and their scope
\* versions order them the same way on every shared item: the later claim was
\* made after the earlier packet's receipt (claim, _persist_terminal).
ClaimsSerialised ==
  \A p, q \in claims :
    p # q /\ CommonItems(p, q) # {} => HandedOver(p, q) \/ HandedOver(q, p)

\* A settled effect is paid for by one receipt only, whether it was returned
\* by the executor or found by reconciling a failure (record_execution,
\* reconcile_failure, reconcile_effect).
EffectSettledOnce ==
  \A p, q \in DOMAIN receipts :
    /\ receipts[p].state = "SETTLED"
    /\ receipts[q].state = "SETTLED"
    /\ receipts[p].effect = receipts[q].effect
    => p = q

\* No terminal path releases a lease while a step of the packet is unsettled
\* (SPEC.md 6.1), and none becomes unsettled afterwards.
NoReceiptOverUnsettledStep ==
  \A s \in steps : s.packet \in DOMAIN receipts => EffectiveState(s) # "UNSETTLED"

\* A packet rejected before execution never ran: no execution starts before
\* the rejection or after it (execute's STALE_IDENTITY path, core.py:2810).
RejectedNeverRan ==
  \A p \in DOMAIN receipts : receipts[p].status = "BLOCKED" => p \notin started

\* What the store holds for the truth of a revision was read back after a
\* packet of that same revision was acknowledged: neither a readback of an
\* older revision nor one made through its packets survives a new revision
\* (verify_mission, register_mission; SPEC.md 8, invariant 1).
TruthEvidenced ==
  \A m \in Missions : sequence[m] # NoSnapshot =>
    \E p \in acked : p.mission = m /\ p.revision = revision[m]

\* Evidence put aside for a newer revision stays old: the revision it was put
\* aside for, or a still newer one, is current for ever after
\* (record_mission_supersession, register_mission).
SupersededForGood ==
  \A x \in superseded : x[1].revision < x[2] /\ x[2] <= revision[x[1].mission]

\* Readbacks of a revision may arrive in any order: an older one never
\* replaces the truth of a newer one, and one parent state has one truth.
ReadbacksForward ==
  [][\A m \in Missions : revision'[m] = revision[m] =>
       /\ sequence'[m] >= sequence[m]
       /\ sequence'[m] = sequence[m] => truth'[m] = truth[m]]_vars

\* The owner of an effect settled by a receipt is that receipt's packet, for
\* ever: a failure of another packet that observed the same effect and is
\* then proved to have had none does not give it away (reconcile_failure).
SettledEffectKeepsOwner ==
  [][\A p \in DOMAIN receipts :
       receipts[p].state = "SETTLED" =>
         receipts[p].effect \in DOMAIN owner' /\ owner'[receipts[p].effect] = p]_vars

\* The packet holds a lease, one of its steps is unsettled, and its mission
\* has moved on for good: a newer revision, or its route given up.
Wedged(p) ==
  /\ p \in active
  /\ \E s \in steps : s.packet = p /\ EffectiveState(s) = "UNSETTLED"
  /\ \/ revision[p.mission] > p.revision
     \/ RouteDisposed(p.mission, p.revision, p.route)

\* There is no way out of that state: no receipt, no release of the lease
\* (reconcile_step_effect asks for a current packet, core.py:1770).
WedgeIsPermanent == [][\A p \in active : Wedged(p) => Wedged(p)']_vars

\* SPEC.md 8, invariant 7: every admitted attempt has an explicit
\* reconciliation path to terminal state and lease release.
EveryAttemptHasAWayOut == \A p \in active : ~Wedged(p)

\* The scopes of active leases, as the owners of ScopeOwnership.
Ownership == INSTANCE ScopeOwnership WITH
  holder <- [i \in Items |-> {p \in active : i \in Scope(p)}],
  retired <- DOMAIN receipts

\* The store implements ScopeOwnership: a claim takes its whole scope, free
\* until then, and a receipt gives the whole scope back.
ImplementsOwnership == Ownership!Spec

-----------------------------------------------------------------------------
(* The strengthenings that make the invariants above inductive.            *)

\* A claim is active until its receipt, and has bumped the version of every
\* item it took.
LeaseInv ==
  /\ active = claims \ DOMAIN receipts
  /\ \A p \in claims : \A i \in Scope(p) : p.versions[i] < version[i]
  /\ ClaimsSerialised

\* A receipt's settled effect, and the effect of a result not yet settled,
\* belong to the packet.
EffectInv ==
  /\ \A p \in DOMAIN receipts :
       receipts[p].state = "SETTLED" =>
         receipts[p].effect \in DOMAIN owner /\ owner[receipts[p].effect] = p
  /\ \A p \in DOMAIN attempts \ DOMAIN receipts :
       attempts[p].effect \in DOMAIN owner /\ owner[attempts[p].effect] = p
=============================================================================
