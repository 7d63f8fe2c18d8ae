------------------------------ MODULE Recovery ------------------------------
(***************************************************************************)
(* Local recovery over the task store: blockers reported for an active     *)
(* packet, proposals to recover from them, their admission, and the steps  *)
(* recorded under an admission (record_blocker, admit_recovery and the     *)
(* recovery branch of record_step_attempt).                                *)
(*                                                                         *)
(* A blocker, a proposal and an admission are content-addressed, so each   *)
(* is its own id.  Of the proposal's fields that admit_recovery compares   *)
(* with the packet (scope, authority, predicate, delta, destination,       *)
(* effect classes, verification plan) only the verdict is kept: the        *)
(* reason codes they give.  The same holds of the blocker's class and      *)
(* retry safety.                                                           *)
(***************************************************************************)
EXTENDS TaskStore

CONSTANTS
  RecoveryActions,  \* what a proposal may propose to do, RecoveryAction ids
  ActionGraphs,     \* RecoveryProposal.action_graph: tuples of actions, in any
                    \* order and with repetitions
  StateDigests,     \* BlockerReport.state_digest
  BlockerFaults,    \* reason codes of a blocker's own class and retry safety
  ProposalFaults,   \* reason codes of a proposal that leaves the packet's envelope
  RecoveryBudget,   \* TaskPacket.recovery_budget, of every packet
  Budgets,          \* RecoveryProposal.budget
  NoStep,           \* step_id is None
  MaxBlockers,      \* bound: blockers recorded in a run
  MaxProposals      \* bound: proposals judged in a run

ASSUME RecoveryAssumption ==
  /\ ActionGraphs \subseteq Seq(RecoveryActions)
  /\ RecoveryBudget \in Nat
  /\ Budgets \subseteq Nat
  /\ MaxBlockers \in Nat
  /\ MaxProposals \in Nat

VARIABLES
  blockers,      \* _blockers
  admissions,    \* _recovery_admissions: proposal -> its admission
  fingerprints,  \* _recovery_fingerprints
  consumed,      \* _recovery_budget_consumed: packet -> budget
  recoveries     \* the recovery fields of the steps that have them

recoveryVars == <<blockers, admissions, fingerprints, consumed, recoveries>>
allVars == <<vars, recoveryVars>>

Reasons ==
  BlockerFaults \cup ProposalFaults \cup
    {"STEP_EFFECT_UNSETTLED", "ACTION_GRAPH_REQUIRED", "RECOVERY_BUDGET_EXHAUSTED",
     "DUPLICATE_FINGERPRINT"}

Blockers ==
  [packet : claims, step : steps \cup {NoStep}, effect : EffectState,
   digest : StateDigests, faults : SUBSET BlockerFaults]

Proposals ==
  [blocker : blockers, actions : ActionGraphs, budget : Budgets,
   faults : SUBSET ProposalFaults]

Admission ==
  [state : {"ADMITTED", "ESCALATED", "DUPLICATE"}, reasons : SUBSET Reasons]

Admitted == {q \in DOMAIN admissions : admissions[q].state = "ADMITTED"}

RecoveryTypeOK ==
  /\ TypeOK
  /\ blockers \subseteq Blockers
  /\ admissions \in [DOMAIN admissions -> Admission]
  /\ DOMAIN admissions \subseteq Proposals
  /\ fingerprints \subseteq blockers \X ActionGraphs
  /\ consumed \in [DOMAIN consumed -> Nat]
  /\ DOMAIN consumed \subseteq claims
  /\ recoveries \in
       [DOMAIN recoveries -> [parent : steps, proposal : DOMAIN admissions,
                              action : RecoveryActions]]
  /\ DOMAIN recoveries \subseteq steps

RecoveryInit ==
  /\ Init
  /\ blockers = {}
  /\ admissions = <<>>
  /\ fingerprints = {}
  /\ consumed = <<>>
  /\ recoveries = <<>>

-----------------------------------------------------------------------------

\* record_blocker: it reports the effective state of a step of the packet, as
\* it is now, or no effect at all.
RecordBlocker(p, s, digest, faults) ==
  LET blocker ==
        [packet |-> p, step |-> s, digest |-> digest, faults |-> faults,
         effect |-> IF s = NoStep THEN "NONE" ELSE EffectiveState(s)]
  IN  /\ Cardinality(blockers) < MaxBlockers
      /\ ClaimCurrent(p)
      /\ s # NoStep => s.packet = p
      /\ blocker \notin blockers
      /\ blockers' = blockers \cup {blocker}
      /\ UNCHANGED <<vars, admissions, fingerprints, consumed, recoveries>>

Spent(p) == IF p \in DOMAIN consumed THEN consumed[p] ELSE 0

AffordableAlone(p, n) == n > 0 /\ n <= RecoveryBudget

Affordable(p, n) == n > 0 /\ Spent(p) + n <= RecoveryBudget

\* The reasons not to admit q, of the packet p.
ReasonsAgainst(p, q) ==
  q.blocker.faults \cup q.faults
    \cup {x \in {"STEP_EFFECT_UNSETTLED"} :
            q.blocker.effect = "UNSETTLED" \/ ~StepsReconciled(p)}
    \cup {x \in {"ACTION_GRAPH_REQUIRED"} : q.actions = <<>>}
    \cup {x \in {"RECOVERY_BUDGET_EXHAUSTED"} : ~Affordable(p, q.budget)}

\* The same action graph against the same blocker in the same state.  The graph
\* is hashed as the tuple it is: the same actions in another order, or one of
\* them twice, are another graph.
Fingerprint(q) == <<q.blocker, q.actions>>

SameProposal(q) == q \in DOMAIN admissions

Repeated(q) == Fingerprint(q) \in fingerprints

\* admit_recovery.  A proposal is judged once; judged again, it gets the
\* admission it has.
Judge(q, state, reasons) ==
  /\ Cardinality(DOMAIN admissions) < MaxProposals
  /\ ClaimCurrent(q.blocker.packet)
  /\ q \notin DOMAIN admissions
  /\ admissions' = Put(admissions, q, [state |-> state, reasons |-> reasons])
  /\ UNCHANGED <<vars, blockers, recoveries>>

JudgeDuplicate(q) ==
  /\ Repeated(q)
  /\ Judge(q, "DUPLICATE", {"DUPLICATE_FINGERPRINT"})
  /\ UNCHANGED <<fingerprints, consumed>>

Escalate(q) ==
  LET reasons == ReasonsAgainst(q.blocker.packet, q)
  IN  /\ ~Repeated(q) /\ reasons # {}
      /\ Judge(q, "ESCALATED", reasons)
      /\ UNCHANGED <<fingerprints, consumed>>

\* An admission uses up the fingerprint and the proposal's budget.
Admit(q) ==
  LET p == q.blocker.packet
  IN  /\ ~Repeated(q) /\ ReasonsAgainst(p, q) = {}
      /\ Judge(q, "ADMITTED", {})
      /\ fingerprints' = fingerprints \cup {Fingerprint(q)}
      /\ consumed' = Put(consumed, p, Spent(p) + q.budget)

Proposes(q, action) == \E i \in DOMAIN q.actions : q.actions[i] = action

AnyAdmission(p, q, action) == q.blocker.packet = p /\ Proposes(q, action)

\* What record_step_attempt asks of the admission and the action of a recovery
\* step.  It does not ask whether the packet's steps are settled.
Authorises(p, q, action) ==
  /\ q \in Admitted
  /\ q.blocker.packet = p
  /\ Proposes(q, action)

\* record_step_attempt for a recovery of the step parent.
RecordRecoveryStep(p, e, st, parent, q, action) ==
  /\ parent.packet = p
  /\ Authorises(p, q, action)
  /\ RecordStepAttempt(p, e, st)
  /\ recoveries' = Put(recoveries, [packet |-> p, effect |-> e, state |-> st],
                       [parent |-> parent, proposal |-> q, action |-> action])
  /\ UNCHANGED <<blockers, admissions, fingerprints, consumed>>

-----------------------------------------------------------------------------

RecoveryStep ==
  \/ \E p \in planned, s \in steps \cup {NoStep}, d \in StateDigests, f \in SUBSET BlockerFaults :
       RecordBlocker(p, s, d, f)
  \/ \E q \in Proposals : JudgeDuplicate(q)
  \/ \E q \in Proposals : Escalate(q)
  \/ \E q \in Proposals : Admit(q)
  \/ \E p \in planned, e \in StepEffects \cup {NoEffect}, st \in EffectState, parent \in steps,
        q \in DOMAIN admissions, a \in RecoveryActions :
       RecordRecoveryStep(p, e, st, parent, q, a)

RecoveryNext ==
  \/ Next /\ UNCHANGED recoveryVars
  \/ RecoveryStep

RecoverySpec == RecoveryInit /\ [][RecoveryNext]_allVars

-----------------------------------------------------------------------------
(* Properties.                                                             *)

\* The units of the recovery budget of p that its admissions were given.
Granted(p) ==
  UNION {{q} \X (1..q.budget) : q \in {r \in Admitted : r.blocker.packet = p}}

\* What the admitted proposals of a packet were given together is within the
\* parent's recovery budget, however proposals, duplicates and escalations
\* alternate (SPEC.md 5.8, available parent packet budget).
BudgetKept == \A p \in claims : Cardinality(Granted(p)) <= RecoveryBudget

\* An action graph is admitted once for a blocker in a state, whatever else
\* the proposals that carry it say, and whatever other graphs are judged in
\* between, among them the same actions reordered or repeated, which count as
\* new (docs/verification.md:90, Recovery replay).
OneAdmissionPerFingerprint ==
  \A q, r \in Admitted : Fingerprint(q) = Fingerprint(r) => q = r

\* A recovery step stands on an admission of its own packet, whose proposal is
\* inside the envelope and whose blocker may be recovered from locally.
RecoveriesAuthorised ==
  \A s \in DOMAIN recoveries :
    LET q == recoveries[s].proposal
    IN  /\ q \in Admitted
        /\ q.blocker.packet = s.packet /\ recoveries[s].parent.packet = s.packet
        /\ q.faults = {} /\ q.blocker.faults = {}
        /\ q.blocker.effect # "UNSETTLED"

\* docs/verification.md:93: an unsettled step is reconciled before local
\* recovery is considered; so none is unsettled when a recovery step is taken.
RecoveryAfterReconciliation ==
  [][\A s \in DOMAIN recoveries' \ DOMAIN recoveries : StepsReconciled(s.packet)]_allVars

\* The strengthening: the fingerprints are those of the admitted proposals,
\* and an admission, never taken back, was given without a reason against it.
RecoveryInv ==
  /\ fingerprints = {Fingerprint(q) : q \in Admitted}
  /\ OneAdmissionPerFingerprint
  /\ \A q \in Admitted :
       q.faults = {} /\ q.blocker.faults = {} /\ q.blocker.effect # "UNSETTLED"
  /\ RecoveriesAuthorised
  /\ \A p \in DOMAIN consumed : consumed[p] <= RecoveryBudget

\* What is charged to a packet is what its admissions were given, no unit of
\* it twice.
ChargeInv ==
  \A p \in claims : IsFiniteSet(Granted(p)) /\ Cardinality(Granted(p)) = Spent(p)
=============================================================================
