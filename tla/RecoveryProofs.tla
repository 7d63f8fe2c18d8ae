--------------------------- MODULE RecoveryProofs ---------------------------
(***************************************************************************)
(* Theorems about Recovery.  Recording a blocker or judging a proposal     *)
(* leaves the store alone, and a recovery step is one of its steps.        *)
(***************************************************************************)
EXTENDS Recovery, TaskStoreProofs, FiniteSetTheorems

LEMMA RecoveryStepIsStoreStep ==
  ASSUME [RecoveryNext]_allVars
  PROVE  [Next]_vars
<1>1. CASE RecoveryStep
  BY <1>1 DEF RecoveryStep, RecordBlocker, JudgeDuplicate, Escalate, Admit, Judge,
              RecordRecoveryStep, Next
<1>2. QED
  BY <1>1 DEF RecoveryNext, allVars

\* Recovery is one way of using the store, so what is proved of the store
\* holds with recovery steps among its steps.
THEOREM RecoveryUsesStore == RecoverySpec => Spec
<1>1. RecoveryInit => Init
  BY DEF RecoveryInit
<1>2. [RecoveryNext]_allVars => [Next]_vars
  BY RecoveryStepIsStoreStep
<1>3. QED
  BY <1>1, <1>2, PTL DEF RecoverySpec, Spec

-----------------------------------------------------------------------------
(* Type correctness.                                                       *)

LEMMA InitRecoveryType == ASSUME RecoveryInit PROVE RecoveryTypeOK
  BY InitTypeOK DEF RecoveryInit, RecoveryTypeOK

LEMMA ClaimsAndStepsGrow ==
  ASSUME [Next]_vars
  PROVE  claims \subseteq claims' /\ steps \subseteq steps'
  BY StepKinds
     DEF Claim, BeginExecution, TerminalStep, RecordStepAttempt, ReconcileStepEffect,
         leaseVars, stepVars

\* What judging a proposal writes, whatever the verdict.
LEMMA JudgeWrites ==
  ASSUME RecoveryTypeOK, NEW q \in Proposals, NEW state \in {"ADMITTED", "ESCALATED", "DUPLICATE"},
         NEW reasons \in SUBSET Reasons, Judge(q, state, reasons)
  PROVE  /\ q \notin DOMAIN admissions
         /\ DOMAIN admissions' = DOMAIN admissions \cup {q}
         /\ admissions' \in [DOMAIN admissions' -> Admission]
         /\ admissions'[q] = [state |-> state, reasons |-> reasons]
         /\ \A r \in DOMAIN admissions : admissions'[r] = admissions[r]
         /\ q.blocker.packet \in claims
         /\ UNCHANGED <<vars, blockers, recoveries>>
<1>1. [state |-> state, reasons |-> reasons] \in Admission
  BY DEF Admission
<1>2. q.blocker.packet \in claims
  BY DEF RecoveryTypeOK, Proposals, Blockers
<1>3. QED
  BY <1>1, <1>2 DEF Judge, Put, RecoveryTypeOK

\* An admission has no reasons.
LEMMA AdmitWrites ==
  ASSUME RecoveryTypeOK, NEW q \in Proposals, Admit(q)
  PROVE  /\ q \notin DOMAIN admissions
         /\ DOMAIN admissions' = DOMAIN admissions \cup {q}
         /\ admissions' \in [DOMAIN admissions' -> Admission]
         /\ admissions'[q].state = "ADMITTED"
         /\ \A r \in DOMAIN admissions : admissions'[r] = admissions[r]
         /\ q.blocker.packet \in claims
         /\ UNCHANGED <<vars, blockers, recoveries>>
<1>1. [state |-> "ADMITTED", reasons |-> {}] \in Admission
  BY DEF Admission
<1>2. q.blocker.packet \in claims
  BY DEF RecoveryTypeOK, Proposals, Blockers
<1>3. QED
  BY <1>1, <1>2 DEF Admit, Judge, Put, RecoveryTypeOK

LEMMA ReasonsType ==
  ASSUME NEW q \in Proposals, RecoveryTypeOK
  PROVE  ReasonsAgainst(q.blocker.packet, q) \subseteq Reasons
<1>1. q.blocker.faults \subseteq BlockerFaults /\ q.faults \subseteq ProposalFaults
  BY DEF RecoveryTypeOK, Proposals, Blockers
<1>2. QED
  BY <1>1 DEF ReasonsAgainst, Reasons

LEMMA NextRecoveryType ==
  ASSUME RecoveryTypeOK, [RecoveryNext]_allVars
  PROVE  RecoveryTypeOK'
<1>1. TypeOK' /\ claims \subseteq claims' /\ steps \subseteq steps'
  BY RecoveryStepIsStoreStep, NextTypeOK, ClaimsAndStepsGrow DEF RecoveryTypeOK
<1>2. Blockers \subseteq Blockers'
  BY <1>1 DEF Blockers
<1>3. CASE UNCHANGED recoveryVars
  BY <1>1, <1>2, <1>3 DEF RecoveryTypeOK, recoveryVars, Proposals
<1>4. ASSUME NEW p \in planned, NEW s \in steps \cup {NoStep}, NEW d \in StateDigests,
             NEW f \in SUBSET BlockerFaults, RecordBlocker(p, s, d, f)
      PROVE  RecoveryTypeOK'
  <2>1. EffectiveState(s) \in EffectState \/ s = NoStep
    BY DEF EffectiveState, EffectState, RecoveryTypeOK, TypeOK
  <2>2. p \in claims
    BY <1>4 DEF RecordBlocker, ClaimCurrent, RecoveryTypeOK, TypeOK
  <2>3. blockers \subseteq blockers' /\ blockers' \subseteq Blockers
    BY <1>4, <2>1, <2>2 DEF RecordBlocker, Blockers, EffectState, RecoveryTypeOK
  <2>4. Proposals \subseteq Proposals' /\ Blockers = Blockers'
    BY <1>4, <2>3 DEF RecordBlocker, Proposals, Blockers, vars, taskVars, leaseVars, stepVars
  <2>5. QED
    BY <1>1, <1>4, <2>3, <2>4
       DEF RecordBlocker, RecoveryTypeOK, vars, taskVars, leaseVars, stepVars
<1>5. ASSUME NEW q \in Proposals, NEW state \in {"ADMITTED", "ESCALATED", "DUPLICATE"},
             NEW reasons \in SUBSET Reasons, Judge(q, state, reasons),
             UNCHANGED <<fingerprints, consumed>>
      PROVE  RecoveryTypeOK'
  <2>1. Proposals = Proposals' /\ Blockers = Blockers'
    BY <1>5 DEF Judge, Proposals, Blockers, vars, taskVars, leaseVars, stepVars
  <2>2. /\ DOMAIN admissions' = DOMAIN admissions \cup {q}
        /\ admissions' \in [DOMAIN admissions' -> Admission]
        /\ UNCHANGED <<vars, blockers, recoveries>>
    BY <1>5, JudgeWrites
  <2>3. recoveries \in [DOMAIN recoveries -> [parent : steps, proposal : DOMAIN admissions', action : RecoveryActions]]
    BY <2>2 DEF RecoveryTypeOK
  <2>4. QED
    BY <1>1, <1>5, <2>1, <2>2, <2>3
       DEF RecoveryTypeOK, vars, taskVars, leaseVars, stepVars
<1>6. ASSUME NEW q \in Proposals, Admit(q)
      PROVE  RecoveryTypeOK'
  <2> DEFINE p == q.blocker.packet
  <2>1. Proposals = Proposals' /\ Blockers = Blockers'
    BY <1>6 DEF Admit, Judge, Proposals, Blockers, vars, taskVars, leaseVars, stepVars
  <2>2. /\ DOMAIN admissions' = DOMAIN admissions \cup {q}
        /\ admissions' \in [DOMAIN admissions' -> Admission]
        /\ p \in claims
        /\ UNCHANGED <<vars, blockers, recoveries>>
    BY <1>6, AdmitWrites
  <2>3. recoveries \in [DOMAIN recoveries -> [parent : steps, proposal : DOMAIN admissions', action : RecoveryActions]]
    BY <2>2 DEF RecoveryTypeOK
  <2>4. Fingerprint(q) \in blockers \X ActionGraphs /\ q.budget \in Nat /\ p \in claims
    BY <2>2, RecoveryAssumption DEF Fingerprint, Proposals
  <2>5. Spent(p) \in Nat
    BY DEF Spent, RecoveryTypeOK
  <2>6. /\ DOMAIN consumed' = DOMAIN consumed \cup {p}
        /\ consumed' \in [DOMAIN consumed' -> Nat]
    BY <1>6, <2>4, <2>5 DEF Admit, Put, RecoveryTypeOK
  <2>7. QED
    BY <1>1, <1>6, <2>1, <2>2, <2>3, <2>4, <2>6
       DEF Admit, RecoveryTypeOK, vars, taskVars, leaseVars, stepVars
<1>7. ASSUME NEW p \in planned, NEW e \in StepEffects \cup {NoEffect}, NEW st \in EffectState,
             NEW parent \in steps, NEW q \in DOMAIN admissions, NEW x \in RecoveryActions,
             RecordRecoveryStep(p, e, st, parent, q, x)
      PROVE  RecoveryTypeOK'
  <2> DEFINE step == [packet |-> p, effect |-> e, state |-> st]
  <2>1. /\ DOMAIN recoveries' = DOMAIN recoveries \cup {step}
        /\ recoveries' \in [DOMAIN recoveries' -> [parent : steps, proposal : DOMAIN admissions, action : RecoveryActions]]
    BY <1>7 DEF RecordRecoveryStep, Put, RecoveryTypeOK
  <2>2. step \in steps' /\ UNCHANGED claims
    BY <1>7 DEF RecordRecoveryStep, RecordStepAttempt, leaseVars
  <2>3. UNCHANGED <<blockers, admissions, fingerprints, consumed>>
    BY <1>7 DEF RecordRecoveryStep
  <2>4. recoveries' \in [DOMAIN recoveries' -> [parent : steps', proposal : DOMAIN admissions', action : RecoveryActions]]
    BY <1>1, <2>1, <2>3
  <2>5. QED
    BY <1>1, <1>2, <2>1, <2>2, <2>3, <2>4 DEF RecoveryTypeOK, Proposals
<1>8. QED
  <2>1. CASE \E q \in Proposals : JudgeDuplicate(q)
    BY <1>5, <2>1 DEF JudgeDuplicate, Reasons
  <2>2. CASE \E q \in Proposals : Escalate(q)
    BY <1>5, <2>2, ReasonsType DEF Escalate
  <2>3. QED
    BY <1>3, <1>4, <1>6, <1>7, <2>1, <2>2 DEF RecoveryNext, RecoveryStep, allVars

\* Blockers, admissions and recovery steps keep their types, and refer to
\* claims, steps and proposals that the store has.
THEOREM RecoveryTypeCorrect == RecoverySpec => []RecoveryTypeOK
  BY InitRecoveryType, NextRecoveryType, PTL DEF RecoverySpec

-----------------------------------------------------------------------------
(* Admissions.                                                             *)

LEMMA InitRecovery == ASSUME RecoveryInit PROVE RecoveryInv
  BY DEF RecoveryInit, RecoveryInv, Admitted, OneAdmissionPerFingerprint, RecoveriesAuthorised

\* A verdict other than an admission leaves the admitted proposals as they are.
LEMMA NothingAdmitted ==
  ASSUME RecoveryTypeOK, NEW q \in Proposals, NEW state \in {"ESCALATED", "DUPLICATE"},
         NEW reasons \in SUBSET Reasons, Judge(q, state, reasons)
  PROVE  Admitted' = Admitted
<1>1. /\ q \notin DOMAIN admissions
      /\ DOMAIN admissions' = DOMAIN admissions \cup {q}
      /\ admissions'[q] = [state |-> state, reasons |-> reasons]
      /\ \A r \in DOMAIN admissions : admissions'[r] = admissions[r]
  BY JudgeWrites
<1>2. QED
  BY <1>1 DEF Admitted

LEMMA OtherVerdict ==
  ASSUME RecoveryTypeOK, RecoveryInv, NEW q \in Proposals, NEW state \in {"ESCALATED", "DUPLICATE"},
         NEW reasons \in SUBSET Reasons, Judge(q, state, reasons),
         UNCHANGED <<fingerprints, consumed>>
  PROVE  RecoveryInv'
<1>1. Admitted' = Admitted
  BY NothingAdmitted
<1>2. UNCHANGED recoveries
  BY DEF Judge
<1>3. QED
  BY <1>1, <1>2 DEF RecoveryInv, OneAdmissionPerFingerprint, RecoveriesAuthorised, Fingerprint

LEMMA AdmitRecovers ==
  ASSUME RecoveryTypeOK, RecoveryInv, NEW q \in Proposals, Admit(q)
  PROVE  RecoveryInv'
<1> DEFINE p == q.blocker.packet
<1>1. /\ q \notin DOMAIN admissions
      /\ DOMAIN admissions' = DOMAIN admissions \cup {q}
      /\ admissions'[q].state = "ADMITTED"
      /\ \A r \in DOMAIN admissions : admissions'[r] = admissions[r]
      /\ UNCHANGED recoveries
  BY AdmitWrites
<1>2. Admitted' = Admitted \cup {q}
  BY <1>1 DEF Admitted
<1>3. fingerprints' = {Fingerprint(r) : r \in Admitted'}
  BY <1>2 DEF Admit, RecoveryInv
<1>4. \A r \in Admitted : Fingerprint(r) # Fingerprint(q)
  BY DEF Admit, Repeated, RecoveryInv
<1>5. /\ q.faults = {} /\ q.blocker.faults = {} /\ q.blocker.effect # "UNSETTLED"
      /\ Affordable(p, q.budget)
  BY DEF Admit, ReasonsAgainst
<1>6. \A r \in DOMAIN consumed' : consumed'[r] <= RecoveryBudget
  BY <1>5 DEF Admit, Put, Affordable, RecoveryInv
<1>7. RecoveriesAuthorised'
  BY <1>1, <1>2 DEF RecoveryInv, RecoveriesAuthorised
<1>8. QED
  BY <1>2, <1>3, <1>4, <1>5, <1>6, <1>7 DEF RecoveryInv, OneAdmissionPerFingerprint, Fingerprint

LEMMA RecoveryStepRecovers ==
  ASSUME RecoveryTypeOK, RecoveryInv,
         NEW p \in planned, NEW e \in StepEffects \cup {NoEffect}, NEW st \in EffectState,
         NEW parent \in steps, NEW q \in DOMAIN admissions, NEW x \in RecoveryActions,
         RecordRecoveryStep(p, e, st, parent, q, x)
  PROVE  RecoveryInv'
<1> DEFINE step == [packet |-> p, effect |-> e, state |-> st]
           rec == [parent |-> parent, proposal |-> q, action |-> x]
<1>1. /\ DOMAIN recoveries' = DOMAIN recoveries \cup {step}
      /\ recoveries'[step] = rec
      /\ \A s \in DOMAIN recoveries \ {step} : recoveries'[s] = recoveries[s]
  BY DEF RecordRecoveryStep, Put
<1>2. UNCHANGED <<admissions, fingerprints, consumed>> /\ Admitted' = Admitted
  BY DEF RecordRecoveryStep, Admitted
<1>3. q \in Admitted /\ q.blocker.packet = step.packet /\ parent.packet = step.packet
  BY DEF RecordRecoveryStep, Authorises
<1>4. RecoveriesAuthorised'
  BY <1>1, <1>2, <1>3 DEF RecoveryInv, RecoveriesAuthorised
<1>5. QED
  BY <1>2, <1>4 DEF RecoveryInv, OneAdmissionPerFingerprint, Fingerprint

LEMMA NextRecovery ==
  ASSUME RecoveryTypeOK, RecoveryInv, [RecoveryNext]_allVars
  PROVE  RecoveryInv'
<1>1. CASE UNCHANGED <<admissions, fingerprints, consumed, recoveries>>
  BY <1>1 DEF RecoveryInv, Admitted, OneAdmissionPerFingerprint, RecoveriesAuthorised, Fingerprint
<1>2. CASE \E q \in Proposals : JudgeDuplicate(q)
  BY <1>2, OtherVerdict DEF JudgeDuplicate, Reasons
<1>3. CASE \E q \in Proposals : Escalate(q)
  BY <1>3, OtherVerdict, ReasonsType DEF Escalate
<1>4. CASE \E q \in Proposals : Admit(q)
  BY <1>4, AdmitRecovers
<1>5. QED
  BY <1>1, <1>2, <1>3, <1>4, RecoveryStepRecovers
     DEF RecoveryNext, RecoveryStep, RecordBlocker, recoveryVars, allVars

LEMMA RecoveryAlways == RecoverySpec => []RecoveryInv
  BY InitRecovery, NextRecovery, RecoveryTypeCorrect, PTL DEF RecoverySpec

\* admit_recovery admits the same tuple of actions against the same blocker in
\* the same state once, whatever else the proposals say.
THEOREM FingerprintsAdmittedOnce == RecoverySpec => []OneAdmissionPerFingerprint
<1>1. RecoveryInv => OneAdmissionPerFingerprint
  BY DEF RecoveryInv
<1>2. QED
  BY <1>1, RecoveryAlways, PTL

\* Every recovery step stands on an admission for its own packet, of a
\* proposal inside the envelope and a blocker that allows a local recovery.
THEOREM RecoveryStepsAuthorised == RecoverySpec => []RecoveriesAuthorised
<1>1. RecoveryInv => RecoveriesAuthorised
  BY DEF RecoveryInv
<1>2. QED
  BY <1>1, RecoveryAlways, PTL

-----------------------------------------------------------------------------
(* The budget.                                                             *)

\* The units of one proposal are as many as its budget.
LEMMA UnitsCounted ==
  ASSUME NEW q, NEW n \in Nat
  PROVE  IsFiniteSet({q} \X (1..n)) /\ Cardinality({q} \X (1..n)) = n
<1>1. IsFiniteSet({q}) /\ Cardinality({q}) = 1
  BY FS_Singleton
<1>2. IsFiniteSet(1..n) /\ Cardinality(1..n) = n
  BY FS_Interval
<1>3. /\ IsFiniteSet({q} \X (1..n))
      /\ Cardinality({q} \X (1..n)) = Cardinality({q}) * Cardinality(1..n)
  BY <1>1, <1>2, FS_Product
<1>4. QED
  BY <1>1, <1>2, <1>3

\* The units of an admission are added to those that are there.
LEMMA UnitsAdded ==
  ASSUME NEW S, NEW T, IsFiniteSet(S), IsFiniteSet(T), S \cap T = {}
  PROVE  IsFiniteSet(S \cup T) /\ Cardinality(S \cup T) = Cardinality(S) + Cardinality(T)
<1>1. Cardinality(S) \in Nat /\ Cardinality(T) \in Nat
  BY FS_CardinalityType
<1>2. IsFiniteSet(S \cup T) /\ Cardinality(S \cup T) = Cardinality(S) + Cardinality(T) - Cardinality(S \cap T)
  BY FS_Union
<1>3. Cardinality(S \cap T) = 0
  BY FS_EmptySet
<1>4. QED
  BY <1>1, <1>2, <1>3

LEMMA InitCharge == ASSUME RecoveryInit PROVE ChargeInv
  BY DEF RecoveryInit, Init, TaskInit, ChargeInv

\* A packet without a claim has no blockers, so it was given nothing.
LEMMA NothingGranted ==
  ASSUME RecoveryTypeOK, NEW p, p \notin claims
  PROVE  Granted(p) = {} /\ Spent(p) = 0
<1>1. \A q \in Admitted : q.blocker.packet \in claims
  BY DEF Admitted, RecoveryTypeOK, Proposals, Blockers
<1>2. QED
  BY <1>1 DEF Granted, Spent, RecoveryTypeOK

\* Steps that neither admit nor charge.
LEMMA ChargeKept ==
  ASSUME RecoveryTypeOK, ChargeInv, Admitted' = Admitted, UNCHANGED consumed
  PROVE  ChargeInv'
<1> SUFFICES ASSUME NEW p \in claims'
             PROVE  IsFiniteSet(Granted(p)') /\ Cardinality(Granted(p)') = Spent(p)'
  BY DEF ChargeInv
<1>1. Granted(p)' = Granted(p) /\ Spent(p)' = Spent(p)
  BY DEF Granted, Spent
<1>2. CASE p \in claims
  BY <1>1, <1>2 DEF ChargeInv
<1>3. CASE p \notin claims
  BY <1>1, <1>3, NothingGranted, FS_EmptySet
<1>4. QED
  BY <1>2, <1>3

LEMMA AdmitCharges ==
  ASSUME RecoveryTypeOK, ChargeInv, NEW q \in Proposals, Admit(q)
  PROVE  ChargeInv'
<1> DEFINE p == q.blocker.packet
           units == {q} \X (1..q.budget)
<1>1. /\ q \notin DOMAIN admissions
      /\ DOMAIN admissions' = DOMAIN admissions \cup {q}
      /\ admissions'[q].state = "ADMITTED"
      /\ \A r \in DOMAIN admissions : admissions'[r] = admissions[r]
      /\ p \in claims
      /\ claims' = claims
  BY AdmitWrites DEF vars, taskVars, leaseVars
<1>2. Admitted' = Admitted \cup {q} /\ q \notin Admitted
  BY <1>1 DEF Admitted
<1>3. consumed' = Put(consumed, p, Spent(p) + q.budget)
  BY DEF Admit
<1>4. Granted(p)' = Granted(p) \cup units
  BY <1>2 DEF Granted
<1>5. \A r \in claims \ {p} : Granted(r)' = Granted(r) /\ Spent(r)' = Spent(r)
  BY <1>2, <1>3 DEF Granted, Spent, Put
<1>6. IsFiniteSet(units) /\ Cardinality(units) = q.budget
  BY UnitsCounted, RecoveryAssumption DEF Proposals
<1>7. Granted(p) \cap units = {}
  BY <1>2 DEF Granted
<1>8. IsFiniteSet(Granted(p)') /\ Cardinality(Granted(p)') = Spent(p) + q.budget
  BY <1>1, <1>4, <1>6, <1>7, UnitsAdded DEF ChargeInv
<1>9. Spent(p)' = Spent(p) + q.budget
  BY <1>3 DEF Spent, Put
<1>10. QED
  BY <1>1, <1>5, <1>8, <1>9 DEF ChargeInv

LEMMA NextCharge ==
  ASSUME RecoveryTypeOK, ChargeInv, [RecoveryNext]_allVars
  PROVE  ChargeInv'
<1>1. CASE UNCHANGED <<admissions, consumed>>
  BY <1>1, ChargeKept DEF Admitted
<1>2. ASSUME NEW q \in Proposals, NEW state \in {"ESCALATED", "DUPLICATE"},
             NEW reasons \in SUBSET Reasons, Judge(q, state, reasons), UNCHANGED consumed
      PROVE  ChargeInv'
  BY <1>2, NothingAdmitted, ChargeKept
<1>3. CASE \E q \in Proposals : JudgeDuplicate(q)
  BY <1>2, <1>3 DEF JudgeDuplicate, Reasons
<1>4. CASE \E q \in Proposals : Escalate(q)
  BY <1>2, <1>4, ReasonsType DEF Escalate
<1>5. CASE \E q \in Proposals : Admit(q)
  BY <1>5, AdmitCharges
<1>6. QED
  BY <1>1, <1>3, <1>4, <1>5
     DEF RecoveryNext, RecoveryStep, RecordBlocker, RecordRecoveryStep, recoveryVars, allVars

LEMMA ChargeAlways == RecoverySpec => []ChargeInv
  BY InitCharge, NextCharge, RecoveryTypeCorrect, PTL DEF RecoverySpec

\* What admit_recovery admits for a packet never adds up to more than its
\* recovery budget, for any number of blockers, proposals and verdicts.
THEOREM BudgetAlwaysKept == RecoverySpec => []BudgetKept
<1>1. RecoveryInv /\ ChargeInv => BudgetKept
  BY RecoveryAssumption DEF RecoveryInv, ChargeInv, BudgetKept, Spent
<1>2. QED
  BY <1>1, RecoveryAlways, ChargeAlways, PTL
=============================================================================
