--------------------------- MODULE TaskStoreProofs ---------------------------
(***************************************************************************)
(* Theorems about TaskStore, for every value of its constants.             *)
(***************************************************************************)
EXTENDS TaskStore, TLAPS

-----------------------------------------------------------------------------
(* Type correctness.                                                       *)

LEMMA InitTypeOK == ASSUME Init PROVE TypeOK
  BY DEF Init, MissionInit, TaskInit, TypeOK, MissionTypeOK, Truth, NoSnapshot

\* What a terminal receipt writes.
LEMMA TerminalType ==
  ASSUME TypeOK, NEW p \in planned, NEW status \in Status,
         NEW e \in Effects \cup {NoEffect}, NEW st \in EffectState,
         PersistTerminal(p, status, e, st)
  PROVE  /\ receipts' \in [DOMAIN receipts' -> Receipt]
         /\ DOMAIN receipts' = DOMAIN receipts \cup {p}
         /\ receipts'[p] = [status |-> status, effect |-> e, state |-> st]
         /\ \A q \in DOMAIN receipts : receipts'[q] = receipts[q]
         /\ p \in active
         /\ p \notin DOMAIN receipts
         /\ active' = active \ {p}
<1> DEFINE rec == [status |-> status, effect |-> e, state |-> st]
<1>1. rec \in Receipt
  BY DEF Receipt
<1>2. receipts \in [DOMAIN receipts -> Receipt]
  BY DEF TypeOK
<1>3. QED
  BY <1>1, <1>2 DEF Put, PersistTerminal

LEMMA NextTypeOK == ASSUME TypeOK, [Next]_vars PROVE TypeOK'
<1> USE DEF TypeOK, MissionTypeOK
<1>1. ASSUME NEW m \in Missions, NEW n \in 1..MaxRevision, NEW d \in DeclaredTruths,
             Register(m, n, d)
      PROVE  TypeOK'
  BY <1>1, MissionAssumption DEF Register, RegisterMission, taskVars, leaseVars, effectVars, stepVars, IsPacket
<1>2. ASSUME NEW m \in Missions, NEW r \in Routes, Dispose(m, r)
      PROVE  TypeOK'
  BY <1>2 DEF Dispose, RecordRouteDisposition, taskVars, leaseVars, effectVars, stepVars, IsPacket
<1>3. ASSUME NEW m \in Missions, NEW r \in Routes, Plan(m, r)
      PROVE  TypeOK'
  BY <1>3, TaskAssumption DEF Plan, missionVars, effectVars, stepVars, IsPacket
<1>4. ASSUME NEW p \in planned, Claim(p)
      PROVE  TypeOK'
  BY <1>4, TaskAssumption DEF Claim, BumpedVersions, Scope, missionVars, effectVars, stepVars, IsPacket
<1>5. ASSUME NEW p \in planned, BeginExecution(p)
      PROVE  TypeOK'
  BY <1>5 DEF BeginExecution, ClaimCurrent, missionVars, leaseVars, effectVars, stepVars, IsPacket
<1>6. ASSUME NEW p \in planned, NEW e \in StepEffects \cup {NoEffect}, NEW st \in EffectState,
             RecordStepAttempt(p, e, st)
      PROVE  TypeOK'
  BY <1>6 DEF RecordStepAttempt, missionVars, leaseVars, effectVars, IsPacket
<1>7. ASSUME NEW s \in steps, NEW st \in {"NONE", "SETTLED"}, ReconcileStepEffect(s, st)
      PROVE  TypeOK'
  <2>1. stepProof \in [DOMAIN stepProof -> {"NONE", "SETTLED"}]
    OBVIOUS
  <2>2. /\ DOMAIN stepProof' = DOMAIN stepProof \cup {s}
        /\ stepProof' \in [DOMAIN stepProof' -> {"NONE", "SETTLED"}]
    BY <1>7, <2>1 DEF Put, ReconcileStepEffect
  <2>3. QED
    BY <1>7, <2>2 DEF ReconcileStepEffect, missionVars, leaseVars, effectVars, IsPacket
<1>8. ASSUME NEW p \in planned, TerminalizePreExecution(p)
      PROVE  TypeOK'
  <2>1. /\ receipts' \in [DOMAIN receipts' -> Receipt]
        /\ DOMAIN receipts' = DOMAIN receipts \cup {p}
        /\ p \in active
        /\ active' = active \ {p}
    BY <1>8, TerminalType DEF TerminalizePreExecution, Status, EffectState
  <2>2. QED
    BY <1>8, <2>1 DEF TerminalizePreExecution, missionVars, leaseVars, effectVars, stepVars, IsPacket
<1>9. ASSUME NEW p \in planned, NEW e \in Effects \cup {NoEffect}, RecordExecutionFailure(p, e)
      PROVE  TypeOK'
  <2>1. /\ DOMAIN failures' = DOMAIN failures \cup {p}
        /\ failures' \in [DOMAIN failures' -> Effects \cup {NoEffect}]
    BY <1>9 DEF Put, RecordExecutionFailure
  <2>2. /\ DOMAIN owner' \subseteq Effects
        /\ owner' \in [DOMAIN owner' -> started]
    <3>1. CASE e \in DOMAIN owner \cup {NoEffect}
      BY <1>9, <3>1 DEF RecordExecutionFailure, OwnIfFree
    <3>2. CASE e \notin DOMAIN owner \cup {NoEffect}
      BY <1>9, <3>2 DEF Put, RecordExecutionFailure, OwnIfFree
    <3>3. QED
      BY <3>1, <3>2
  <2>3. QED
    BY <1>9, <2>1, <2>2 DEF RecordExecutionFailure, missionVars, leaseVars, stepVars, IsPacket
<1>10. ASSUME NEW p \in planned, NEW e \in Effects \cup {NoEffect}, ReconcileFailure(p, e)
       PROVE  TypeOK'
  <2>1. /\ DOMAIN owner' \subseteq Effects
        /\ owner' \in [DOMAIN owner' -> started]
    <3>1. CASE ReconcileSettled(p, e)
      BY <1>10, <3>1 DEF Put, ReconcileFailure, ReconcileSettled
    <3>2. CASE ReconcileAbsent(p, e)
      BY <3>2 DEF ReconcileAbsent, Disown
    <3>3. QED
      BY <1>10, <3>1, <3>2 DEF ReconcileFailure
  <2>2. /\ receipts' \in [DOMAIN receipts' -> Receipt]
        /\ DOMAIN receipts' = DOMAIN receipts \cup {p}
        /\ p \in active
        /\ active' = active \ {p}
    BY <1>10, TerminalType DEF ReconcileFailure, ReconcileSettled, ReconcileAbsent, Status, EffectState
  <2>3. QED
    BY <1>10, <2>1, <2>2 DEF ReconcileFailure, missionVars, leaseVars, stepVars, IsPacket
<1>11. ASSUME NEW p \in planned, NEW e \in Effects, RejectResult(p, e)
       PROVE  TypeOK'
  BY <1>9, <1>11 DEF RejectResult
<1>12. ASSUME NEW p \in planned, NEW e \in Effects, ReturnUnsettled(p, e)
       PROVE  TypeOK'
  <2>1. /\ attempts' \in [DOMAIN attempts' -> Result]
        /\ DOMAIN attempts' = DOMAIN attempts \cup {p}
    BY <1>12 DEF Put, ReturnUnsettled, Result
  <2>2. /\ owner' \in [DOMAIN owner' -> started]
        /\ DOMAIN owner' = DOMAIN owner \cup {e}
    BY <1>12 DEF Put, ReturnUnsettled, MayOwnResult, MayReturn
  <2>3. QED
    BY <1>12, <2>1, <2>2 DEF ReturnUnsettled, MayOwnResult, MayReturn, missionVars, leaseVars, stepVars, IsPacket
<1>13. ASSUME NEW p \in planned, NEW e \in Effects, ReturnSettled(p, e)
       PROVE  TypeOK'
  <2>1. /\ attempts' \in [DOMAIN attempts' -> Result]
        /\ DOMAIN attempts' = DOMAIN attempts \cup {p}
    BY <1>13 DEF Put, ReturnSettled, Result
  <2>2. /\ owner' \in [DOMAIN owner' -> started]
        /\ DOMAIN owner' = DOMAIN owner \cup {e}
    BY <1>13 DEF Put, ReturnSettled, MayOwnResult, MayReturn
  <2>3. /\ receipts' \in [DOMAIN receipts' -> Receipt]
        /\ DOMAIN receipts' = DOMAIN receipts \cup {p}
        /\ active' = active \ {p}
    BY <1>13, TerminalType DEF ReturnSettled, Status, EffectState
  <2>4. QED
    BY <1>13, <2>1, <2>2, <2>3 DEF ReturnSettled, MayOwnResult, MayReturn, missionVars, leaseVars, stepVars, IsPacket
<1>14. ASSUME NEW p \in planned, ReconcileEffect(p)
       PROVE  TypeOK'
  <2>1. /\ attempts' \in [DOMAIN attempts' -> Result]
        /\ DOMAIN attempts' = DOMAIN attempts
        /\ attempts[p].effect \in Effects
    BY <1>14 DEF ReconcileEffect, Result
  <2>2. /\ receipts' \in [DOMAIN receipts' -> Receipt]
        /\ DOMAIN receipts' = DOMAIN receipts \cup {p}
        /\ active' = active \ {p}
    BY <1>14, <2>1, TerminalType DEF ReconcileEffect, Status, EffectState
  <2>3. QED
    BY <1>14, <2>1, <2>2 DEF ReconcileEffect, missionVars, leaseVars, stepVars, IsPacket
<1>15. ASSUME NEW p \in planned, Acknowledge(p)
       PROVE  TypeOK'
  BY <1>15 DEF Acknowledge, missionVars, leaseVars, effectVars, stepVars, IsPacket
<1>16. ASSUME NEW p \in planned, NEW s \in 0..MaxSequence, NEW t \in ReadbackTruths, VerifyMission(p, s, t)
       PROVE  TypeOK'
  BY <1>16, MissionAssumption DEF VerifyMission, AdoptReadback, taskVars, leaseVars, effectVars, stepVars, IsPacket
<1>17. ASSUME NEW p \in planned, RecordMissionSupersession(p)
       PROVE  TypeOK'
  BY <1>17 DEF RecordMissionSupersession, taskVars, leaseVars, effectVars, stepVars, IsPacket
<1>18. CASE UNCHANGED vars
  BY <1>18 DEF vars, missionVars, taskVars, leaseVars, effectVars, stepVars, IsPacket
<1>19. QED
  BY <1>1, <1>2, <1>3, <1>4, <1>5, <1>6, <1>7, <1>8, <1>9, <1>10, <1>11, <1>12,
     <1>13, <1>14, <1>15, <1>16, <1>17, <1>18 DEF Next

\* Every variable keeps its type, and the store's dictionaries keep the
\* inclusions their keys rely on: only claimed packets start, only started
\* ones own effects or have steps, and only claimed ones get receipts.
THEOREM TypeCorrect == Spec => []TypeOK
  BY InitTypeOK, NextTypeOK, PTL DEF Spec

-----------------------------------------------------------------------------
(* Leases.                                                                 *)

\* The receipt of p, the only one written by the step; a rejection is written
\* only for a packet that has not started.
TerminalStep(p) ==
  /\ p \in active
  /\ p \notin DOMAIN receipts
  /\ StepsReconciled(p)
  /\ active' = active \ {p}
  /\ DOMAIN receipts' = DOMAIN receipts \cup {p}
  /\ \A q \in DOMAIN receipts : receipts'[q] = receipts[q]
  /\ receipts'[p].status = "BLOCKED" => p \notin started
  /\ UNCHANGED <<missionVars, leaseVars, started, stepVars>>

LEMMA TerminalWrites ==
  ASSUME NEW p, NEW status, NEW e, NEW st, PersistTerminal(p, status, e, st)
  PROVE  /\ p \in active
         /\ p \notin DOMAIN receipts
         /\ StepsReconciled(p)
         /\ active' = active \ {p}
         /\ DOMAIN receipts' = DOMAIN receipts \cup {p}
         /\ receipts'[p].status = status
         /\ receipts'[p].effect = e
         /\ receipts'[p].state = st
         /\ \A q \in DOMAIN receipts : receipts'[q] = receipts[q]
  BY DEF PersistTerminal, Put

LEMMA TerminalSteps ==
  ASSUME NEW p, NEW e,
         \/ TerminalizePreExecution(p)
         \/ ReconcileFailure(p, e)
         \/ ReturnSettled(p, e)
         \/ ReconcileEffect(p)
  PROVE  TerminalStep(p)
<1>1. CASE TerminalizePreExecution(p)
  BY <1>1, TerminalWrites DEF TerminalizePreExecution, TerminalStep
<1>2. CASE ReconcileFailure(p, e)
  <2>1. \E st \in {"NONE", "SETTLED"} : PersistTerminal(p, "FAILED", e, st)
    BY <1>2 DEF ReconcileFailure, ReconcileSettled, ReconcileAbsent
  <2>2. receipts'[p].status = "FAILED"
    BY <2>1, TerminalWrites
  <2>3. QED
    BY <1>2, <2>1, <2>2, TerminalWrites DEF ReconcileFailure, TerminalStep
<1>3. CASE ReturnSettled(p, e)
  <2>1. PersistTerminal(p, "SUCCEEDED", e, "SETTLED")
    BY <1>3 DEF ReturnSettled
  <2>2. receipts'[p].status = "SUCCEEDED"
    BY <2>1, TerminalWrites
  <2>3. QED
    BY <1>3, <2>1, <2>2, TerminalWrites DEF ReturnSettled, TerminalStep
<1>4. CASE ReconcileEffect(p)
  <2>1. PersistTerminal(p, "SUCCEEDED", attempts[p].effect, "SETTLED")
    BY <1>4 DEF ReconcileEffect
  <2>2. receipts'[p].status = "SUCCEEDED"
    BY <2>1, TerminalWrites
  <2>3. QED
    BY <1>4, <2>1, <2>2, TerminalWrites DEF ReconcileEffect, TerminalStep
<1>5. QED
  BY <1>1, <1>2, <1>3, <1>4

\* Every step is one of these, as far as leases, steps and receipts go.
LEMMA StepKinds ==
  ASSUME [Next]_vars
  PROVE  \/ \E p \in planned : Claim(p)
         \/ \E p \in planned : BeginExecution(p)
         \/ \E p \in planned : TerminalStep(p)
         \/ \E p \in planned, e \in StepEffects \cup {NoEffect}, st \in EffectState :
              RecordStepAttempt(p, e, st)
         \/ \E s \in steps, st \in {"NONE", "SETTLED"} : ReconcileStepEffect(s, st)
         \/ UNCHANGED <<version, claims, active, started, steps, stepProof, receipts>>
<1> USE DEF leaseVars, stepVars
<1>1. CASE UNCHANGED vars
  BY <1>1 DEF vars, taskVars
<1>2. CASE \E m \in Missions, n \in 1..MaxRevision, d \in DeclaredTruths : Register(m, n, d)
  BY <1>2 DEF Register, taskVars
<1>3. CASE \E m \in Missions, r \in Routes : Dispose(m, r)
  BY <1>3 DEF Dispose, taskVars
<1>4. CASE \E m \in Missions, r \in Routes : Plan(m, r)
  BY <1>4 DEF Plan
<1>5. CASE \E p \in planned, e \in Effects \cup {NoEffect} : RecordExecutionFailure(p, e)
  BY <1>5 DEF RecordExecutionFailure
<1>6. CASE \E p \in planned, e \in Effects : RejectResult(p, e)
  BY <1>6 DEF RejectResult, RecordExecutionFailure
<1>7. CASE \E p \in planned, e \in Effects : ReturnUnsettled(p, e)
  BY <1>7 DEF ReturnUnsettled
<1>8. CASE \E p \in planned : Acknowledge(p)
  BY <1>8 DEF Acknowledge
<1>9. CASE \E p \in planned, s \in 0..MaxSequence, t \in ReadbackTruths : VerifyMission(p, s, t)
  BY <1>9 DEF VerifyMission, taskVars
<1>10. CASE \E p \in planned : RecordMissionSupersession(p)
  BY <1>10 DEF RecordMissionSupersession, taskVars
<1>11. QED
  BY <1>1, <1>2, <1>3, <1>4, <1>5, <1>6, <1>7, <1>8, <1>9, <1>10, TerminalSteps DEF Next

LEMMA InitLease == ASSUME Init PROVE LeaseInv
  BY DEF Init, TaskInit, LeaseInv, ClaimsSerialised

\* The packet just claimed comes after every earlier claim it shares an item
\* with: that one is no longer active, and its versions were passed.
LEMMA ClaimLease ==
  ASSUME TypeOK, LeaseInv, NEW p \in planned, Claim(p)
  PROVE  LeaseInv'
<1> USE DEF Claim, Scope, CommonItems, HandedOver
<1>1. (active = claims \ DOMAIN receipts)'
  BY DEF LeaseInv, TypeOK
<1>2. \A q \in claims \cup {p} : \A i \in Scope(q) : i \in Items /\ q.versions[i] \in Nat
  BY TaskAssumption DEF TypeOK, IsPacket
<1>3. \A q \in claims : \A i \in Scope(q) : q.versions[i] < version[i]
  BY DEF LeaseInv
<1>4. (\A q \in claims : \A i \in Scope(q) : q.versions[i] < version[i])'
  BY <1>2, <1>3 DEF BumpedVersions, VersionsMatch, TypeOK
<1>5. \A q \in claims : CommonItems(p, q) # {} => HandedOver(q, p)'
  BY <1>2, <1>3 DEF ScopeFree, VersionsMatch, LeaseInv
<1>6. ClaimsSerialised'
  BY <1>5 DEF ClaimsSerialised, LeaseInv
<1>7. QED
  BY <1>1, <1>4, <1>6 DEF LeaseInv

LEMMA NextLease == ASSUME TypeOK, LeaseInv, [Next]_vars PROVE LeaseInv'
<1> USE DEF Scope, CommonItems, HandedOver
<1>1. CASE \E p \in planned : Claim(p)
  BY <1>1, ClaimLease
<1>2. CASE \E p \in planned : TerminalStep(p)
  BY <1>2 DEF TerminalStep, LeaseInv, ClaimsSerialised, leaseVars, TypeOK
<1>3. CASE UNCHANGED <<version, claims, active, receipts>>
  BY <1>3 DEF LeaseInv, ClaimsSerialised
<1>4. QED
  BY <1>1, <1>2, <1>3, StepKinds
     DEF BeginExecution, RecordStepAttempt, ReconcileStepEffect, leaseVars

LEMMA LeaseAlways == Spec => []LeaseInv
  BY InitLease, NextLease, TypeCorrect, PTL DEF Spec

\* Claims that share an item are serialised by receipts and ordered alike on
\* all shared items: claim checks the overlap with active leases and compares
\* and bumps the versions, and a lease ends only with a receipt.
THEOREM LeasesSerialised == Spec => []ClaimsSerialised
<1>1. LeaseInv => ClaimsSerialised
  BY DEF LeaseInv
<1>2. QED
  BY <1>1, TypeCorrect, LeaseAlways, PTL DEF Spec

LEMMA InitOwnership == ASSUME Init PROVE Ownership!Init
  BY DEF Init, TaskInit, Ownership!Init

LEMMA ClaimAcquires ==
  ASSUME TypeOK, LeaseInv, NEW p \in planned, Claim(p)
  PROVE  Ownership!Next
<1>1. Scope(p) \in (SUBSET Items) \ {{}}
  BY TaskAssumption DEF TypeOK, IsPacket, Scope
<1>2. p \notin active /\ p \notin DOMAIN receipts
  BY DEF Claim, TypeOK
<1>3. Ownership!Acquire(p, Scope(p))
  <2>1. p \notin Ownership!Holding \cup DOMAIN receipts
    BY <1>2 DEF Ownership!Holding
  <2>2. \A i \in Scope(p) : {q \in active : i \in Scope(q)} = {}
    BY DEF Claim, ScopeFree
  <2>3. ASSUME NEW i \in Items
        PROVE  {q \in active' : i \in Scope(q)} =
                 IF i \in Scope(p) THEN {p} ELSE {q \in active : i \in Scope(q)}
    BY <2>2 DEF Claim
  <2>4. QED
    BY <1>1, <2>1, <2>2, <2>3 DEF Claim, Ownership!Acquire
<1>4. p \in (Ownership!Holding)'
  BY <1>1 DEF Claim, Ownership!Holding
<1>5. QED
  BY <1>1, <1>3, <1>4 DEF Ownership!Next

LEMMA ReceiptReleases ==
  ASSUME TypeOK, NEW p \in planned, TerminalStep(p)
  PROVE  Ownership!Next
<1>1. Scope(p) \in (SUBSET Items) \ {{}}
  BY TaskAssumption DEF TypeOK, IsPacket, Scope
<1>2. Ownership!Release(p)
  BY DEF TerminalStep, Ownership!Release
<1>3. p \in Ownership!Holding
  BY <1>1 DEF TerminalStep, Ownership!Holding
<1>4. QED
  BY <1>2, <1>3 DEF Ownership!Next

LEMMA NextOwnership ==
  ASSUME TypeOK, LeaseInv, [Next]_vars
  PROVE  [Ownership!Next]_(Ownership!ownerVars)
<1>1. CASE \E p \in planned : Claim(p)
  BY <1>1, ClaimAcquires
<1>2. CASE \E p \in planned : TerminalStep(p)
  BY <1>2, ReceiptReleases
<1>3. CASE UNCHANGED <<active, receipts>>
  BY <1>3 DEF Ownership!ownerVars
<1>4. QED
  BY <1>1, <1>2, <1>3, StepKinds DEF BeginExecution, RecordStepAttempt, ReconcileStepEffect

\* The leases of the store are an implementation of ScopeOwnership: claim
\* takes the whole scope of a packet that never held one, all of it free, and
\* every terminal receipt gives the whole scope back in the same step.
THEOREM StoreImplementsOwnership == Spec => ImplementsOwnership
  BY InitOwnership, NextOwnership, TypeCorrect, LeaseAlways, PTL
     DEF Spec, ImplementsOwnership, Ownership!Spec

-----------------------------------------------------------------------------
(* Effects.                                                                *)

\* What a terminal step must show of the owners to keep EffectInv: the others'
\* effects stay theirs, and a settled receipt's effect belongs to its packet.
LEMMA TerminalEffect ==
  ASSUME EffectInv, NEW p, TerminalStep(p),
         \A x \in DOMAIN owner : owner[x] # p => x \in DOMAIN owner' /\ owner'[x] = owner[x],
         \A q \in DOMAIN attempts' : q # p => q \in DOMAIN attempts /\ attempts'[q] = attempts[q],
         receipts'[p].state = "SETTLED" =>
           receipts'[p].effect \in DOMAIN owner' /\ owner'[receipts'[p].effect] = p
  PROVE  EffectInv'
<1>1. ASSUME NEW q \in DOMAIN receipts', receipts'[q].state = "SETTLED"
      PROVE  receipts'[q].effect \in DOMAIN owner' /\ owner'[receipts'[q].effect] = q
  BY <1>1 DEF EffectInv, TerminalStep
<1>2. ASSUME NEW q \in DOMAIN attempts' \ DOMAIN receipts'
      PROVE  attempts'[q].effect \in DOMAIN owner' /\ owner'[attempts'[q].effect] = q
  BY <1>2 DEF EffectInv, TerminalStep
<1>3. QED
  BY <1>1, <1>2 DEF EffectInv

LEMMA InitEffect == ASSUME Init PROVE EffectInv
  BY DEF Init, TaskInit, EffectInv

LEMMA FailureEffect ==
  ASSUME TypeOK, EffectInv, NEW p \in planned, NEW e, RecordExecutionFailure(p, e)
  PROVE  EffectInv'
<1> USE DEF RecordExecutionFailure
<1>1. \A x \in DOMAIN owner : x \in DOMAIN owner' /\ owner'[x] = owner[x]
  BY DEF OwnIfFree, Put
<1>2. QED
  BY <1>1 DEF EffectInv

LEMMA ReconcileFailureEffect ==
  ASSUME TypeOK, EffectInv, LeaseInv, NEW p \in planned, NEW e, ReconcileFailure(p, e)
  PROVE  EffectInv'
<1>1. TerminalStep(p)
  BY TerminalSteps
<1>2. CASE ReconcileSettled(p, e)
  <2>1. /\ e \in DOMAIN owner' /\ owner'[e] = p
        /\ \A x \in DOMAIN owner : owner[x] # p => x \in DOMAIN owner' /\ owner'[x] = owner[x]
    BY <1>2 DEF ReconcileSettled, MayClaimEffect, Put
  <2>2. receipts'[p].effect = e
    BY <1>2, TerminalWrites DEF ReconcileSettled
  <2>3. QED
    BY <1>1, <2>1, <2>2, TerminalEffect DEF ReconcileFailure
<1>3. CASE ReconcileAbsent(p, e)
  <2>1. receipts'[p].state = "NONE"
    BY <1>3, TerminalWrites DEF ReconcileAbsent
  <2>2. \A x \in DOMAIN owner : owner[x] # p => x \in DOMAIN owner' /\ owner'[x] = owner[x]
    BY <1>3 DEF ReconcileAbsent, Disown
  <2>3. QED
    BY <1>1, <2>1, <2>2, TerminalEffect DEF ReconcileFailure
<1>4. QED
  BY <1>2, <1>3 DEF ReconcileFailure

LEMMA NextEffect == ASSUME TypeOK, LeaseInv, EffectInv, [Next]_vars PROVE EffectInv'
<1>1. CASE UNCHANGED vars
  BY <1>1 DEF vars, taskVars, effectVars, EffectInv
<1>2. CASE \E m \in Missions, n \in 1..MaxRevision, d \in DeclaredTruths : Register(m, n, d)
  BY <1>2 DEF Register, taskVars, effectVars, EffectInv
<1>3. CASE \E m \in Missions, r \in Routes : Dispose(m, r)
  BY <1>3 DEF Dispose, taskVars, effectVars, EffectInv
<1>4. CASE \E m \in Missions, r \in Routes : Plan(m, r)
  BY <1>4 DEF Plan, effectVars, EffectInv
<1>5. CASE \E p \in planned : Claim(p)
  BY <1>5 DEF Claim, effectVars, EffectInv
<1>6. CASE \E p \in planned : BeginExecution(p)
  BY <1>6 DEF BeginExecution, effectVars, EffectInv
<1>7. CASE \E p \in planned, e \in StepEffects \cup {NoEffect}, st \in EffectState :
             RecordStepAttempt(p, e, st)
  BY <1>7 DEF RecordStepAttempt, effectVars, EffectInv
<1>8. CASE \E s \in steps, st \in {"NONE", "SETTLED"} : ReconcileStepEffect(s, st)
  BY <1>8 DEF ReconcileStepEffect, effectVars, EffectInv
<1>9. ASSUME NEW p \in planned, TerminalizePreExecution(p)
      PROVE  EffectInv'
  <2>1. receipts'[p].state = "NONE"
    BY <1>9, TerminalWrites DEF TerminalizePreExecution
  <2>2. TerminalStep(p)
    BY <1>9, TerminalSteps
  <2>3. QED
    BY <1>9, <2>1, <2>2, TerminalEffect DEF TerminalizePreExecution, effectVars
<1>10. CASE \E p \in planned, e \in Effects \cup {NoEffect} : RecordExecutionFailure(p, e)
  BY <1>10, FailureEffect
<1>11. CASE \E p \in planned, e \in Effects \cup {NoEffect} : ReconcileFailure(p, e)
  BY <1>11, ReconcileFailureEffect
<1>12. CASE \E p \in planned, e \in Effects : RejectResult(p, e)
  BY <1>12, FailureEffect DEF RejectResult
<1>13. ASSUME NEW p \in planned, NEW e \in Effects, ReturnUnsettled(p, e)
       PROVE  EffectInv'
  BY <1>13 DEF ReturnUnsettled, MayOwnResult, MayReturn, Put, EffectInv
<1>14. ASSUME NEW p \in planned, NEW e \in Effects, ReturnSettled(p, e)
       PROVE  EffectInv'
  <2>1. receipts'[p].effect = e
    BY <1>14, TerminalWrites DEF ReturnSettled
  <2>2. TerminalStep(p)
    BY <1>14, TerminalSteps
  <2>3. /\ e \in DOMAIN owner' /\ owner'[e] = p
        /\ \A x \in DOMAIN owner : x \in DOMAIN owner' /\ owner'[x] = owner[x]
    BY <1>14 DEF ReturnSettled, MayOwnResult, Put
  <2>4. \A q \in DOMAIN attempts' : q # p => q \in DOMAIN attempts /\ attempts'[q] = attempts[q]
    BY <1>14 DEF ReturnSettled, Put
  <2>5. QED
    BY <2>1, <2>2, <2>3, <2>4, TerminalEffect
<1>15. ASSUME NEW p \in planned, ReconcileEffect(p)
       PROVE  EffectInv'
  <2>1. receipts'[p].effect = attempts[p].effect
    BY <1>15, TerminalWrites DEF ReconcileEffect
  <2>2. TerminalStep(p)
    BY <1>15, TerminalSteps
  <2>3. owner' = owner /\ p \in DOMAIN attempts \ DOMAIN receipts
    BY <1>15, <2>2 DEF ReconcileEffect, TerminalStep
  <2>4. \A q \in DOMAIN attempts' : q # p => q \in DOMAIN attempts /\ attempts'[q] = attempts[q]
    BY <1>15 DEF ReconcileEffect
  <2>5. receipts'[p].effect \in DOMAIN owner' /\ owner'[receipts'[p].effect] = p
    BY <2>1, <2>3 DEF EffectInv
  <2>6. QED
    BY <2>2, <2>3, <2>4, <2>5, TerminalEffect
<1>16. CASE \E p \in planned : Acknowledge(p)
  BY <1>16 DEF Acknowledge, effectVars, EffectInv
<1>17. CASE \E p \in planned, s \in 0..MaxSequence, t \in ReadbackTruths : VerifyMission(p, s, t)
  BY <1>17 DEF VerifyMission, taskVars, effectVars, EffectInv
<1>18. CASE \E p \in planned : RecordMissionSupersession(p)
  BY <1>18 DEF RecordMissionSupersession, taskVars, effectVars, EffectInv
<1>19. QED
  BY <1>1, <1>2, <1>3, <1>4, <1>5, <1>6, <1>7, <1>8, <1>9, <1>10, <1>11, <1>12,
     <1>13, <1>14, <1>15, <1>16, <1>17, <1>18 DEF Next

\* No two receipts settle the same effect: record_execution takes only an
\* effect without an owner, reconcile_failure only one it owns or nobody does,
\* and what reconcile_failure gives back is never another packet's.
THEOREM EffectsSettledOnce == Spec => []EffectSettledOnce
<1>1. EffectInv => EffectSettledOnce
  BY DEF EffectInv, EffectSettledOnce
<1>2. QED
  BY <1>1, InitEffect, NextEffect, TypeCorrect, LeaseAlways, PTL DEF Spec

LEMMA ReceiptsFinal ==
  ASSUME TypeOK, LeaseInv, [Next]_vars
  PROVE  \A p \in DOMAIN receipts : p \in DOMAIN receipts' /\ receipts'[p] = receipts[p]
  BY StepKinds DEF Claim, TerminalStep, BeginExecution, RecordStepAttempt, ReconcileStepEffect

\* An effect settled by a receipt stays with its packet in every later step.
THEOREM SettledEffectsKeepOwner == Spec => SettledEffectKeepsOwner
<1>1. ASSUME TypeOK, LeaseInv, EffectInv, [Next]_vars
      PROVE  \A p \in DOMAIN receipts :
               receipts[p].state = "SETTLED" =>
                 receipts[p].effect \in DOMAIN owner' /\ owner'[receipts[p].effect] = p
  BY <1>1, ReceiptsFinal, NextEffect DEF EffectInv
<1>2. QED
  BY <1>1, InitEffect, NextEffect, TypeCorrect, LeaseAlways, PTL
     DEF Spec, SettledEffectKeepsOwner

-----------------------------------------------------------------------------
(* Steps and rejections.                                                   *)

LEMMA InitStepsClosed == ASSUME Init PROVE NoReceiptOverUnsettledStep
  BY DEF Init, TaskInit, NoReceiptOverUnsettledStep

LEMMA NextStepsClosed ==
  ASSUME TypeOK, LeaseInv, NoReceiptOverUnsettledStep, [Next]_vars
  PROVE  NoReceiptOverUnsettledStep'
<1> USE DEF NoReceiptOverUnsettledStep, EffectiveState
<1>1. CASE \E p \in planned : Claim(p)
  BY <1>1 DEF Claim, stepVars
<1>2. CASE \E p \in planned : BeginExecution(p)
  BY <1>2 DEF BeginExecution, stepVars
<1>3. CASE \E p \in planned : TerminalStep(p)
  BY <1>3 DEF TerminalStep, StepsReconciled, stepVars
<1>4. ASSUME NEW p \in planned, NEW e \in StepEffects \cup {NoEffect}, NEW st \in EffectState,
             RecordStepAttempt(p, e, st)
      PROVE  NoReceiptOverUnsettledStep'
  <2>1. p \notin DOMAIN receipts
    BY <1>4 DEF RecordStepAttempt, ClaimCurrent, LeaseInv
  <2>2. QED
    BY <1>4, <2>1 DEF RecordStepAttempt
<1>5. ASSUME NEW s \in steps, NEW st \in {"NONE", "SETTLED"}, ReconcileStepEffect(s, st)
      PROVE  NoReceiptOverUnsettledStep'
  BY <1>5 DEF ReconcileStepEffect, Put
<1>6. CASE UNCHANGED <<version, claims, active, started, steps, stepProof, receipts>>
  BY <1>6
<1>7. QED
  BY <1>1, <1>2, <1>3, <1>4, <1>5, <1>6, StepKinds

\* No packet has a receipt over an unsettled step: every terminal path asks
\* that its steps are reconciled, and a step needs an active lease.
THEOREM ReceiptsCloseSteps == Spec => []NoReceiptOverUnsettledStep
  BY InitStepsClosed, NextStepsClosed, TypeCorrect, LeaseAlways, PTL DEF Spec

LEMMA InitRejected == ASSUME Init PROVE RejectedNeverRan
  BY DEF Init, TaskInit, RejectedNeverRan

LEMMA NextRejected ==
  ASSUME TypeOK, LeaseInv, RejectedNeverRan, [Next]_vars
  PROVE  RejectedNeverRan'
<1> USE DEF RejectedNeverRan
<1>1. CASE \E p \in planned : Claim(p)
  BY <1>1 DEF Claim
<1>2. CASE \E p \in planned : BeginExecution(p)
  BY <1>2 DEF BeginExecution
<1>3. CASE \E p \in planned : TerminalStep(p)
  BY <1>3 DEF TerminalStep
<1>4. CASE \E p \in planned, e \in StepEffects \cup {NoEffect}, st \in EffectState :
             RecordStepAttempt(p, e, st)
  BY <1>4 DEF RecordStepAttempt
<1>5. CASE \E s \in steps, st \in {"NONE", "SETTLED"} : ReconcileStepEffect(s, st)
  BY <1>5 DEF ReconcileStepEffect
<1>6. CASE UNCHANGED <<version, claims, active, started, steps, stepProof, receipts>>
  BY <1>6
<1>7. QED
  BY <1>1, <1>2, <1>3, <1>4, <1>5, <1>6, StepKinds

\* A packet with a BLOCKED receipt is never started, before or after it:
\* terminalize_pre_execution and begin_execution exclude each other.
THEOREM RejectedPacketsNeverRan == Spec => []RejectedNeverRan
  BY InitRejected, NextRejected, TypeCorrect, LeaseAlways, PTL DEF Spec

-----------------------------------------------------------------------------
(* Missions.                                                               *)

\* The four steps that change a mission leave the tasks alone, and what was
\* acknowledged stays so.
LEMMA MissionSteps ==
  ASSUME [Next]_vars
  PROVE  /\ \/ \E m \in Missions, n \in 1..MaxRevision, d \in DeclaredTruths : Register(m, n, d)
            \/ \E m \in Missions, r \in Routes : Dispose(m, r)
            \/ \E p \in planned, s \in 0..MaxSequence, t \in ReadbackTruths : VerifyMission(p, s, t)
            \/ \E p \in planned : RecordMissionSupersession(p)
            \/ UNCHANGED missionVars
         /\ acked \subseteq acked'
  BY DEF Next, vars, taskVars, Register, Dispose, VerifyMission, RecordMissionSupersession,
         Plan, Claim, BeginExecution, RecordStepAttempt, ReconcileStepEffect,
         TerminalizePreExecution, RecordExecutionFailure, ReconcileFailure, RejectResult,
         ReturnUnsettled, ReturnSettled, ReconcileEffect, Acknowledge

LEMMA MissionsMoveOn ==
  ASSUME TypeOK, [Next]_vars
  PROVE  /\ \A m \in Missions : revision'[m] \in Nat /\ revision'[m] >= revision[m]
         /\ disposed \subseteq disposed'
<1> USE DEF TypeOK, MissionTypeOK, missionVars
<1>1. CASE \E m \in Missions, n \in 1..MaxRevision, d \in DeclaredTruths : Register(m, n, d)
  BY <1>1 DEF Register, RegisterMission, IsNewer
<1>2. CASE \E m \in Missions, r \in Routes : Dispose(m, r)
  BY <1>2 DEF Dispose, RecordRouteDisposition
<1>3. CASE \E p \in planned, s \in 0..MaxSequence, t \in ReadbackTruths : VerifyMission(p, s, t)
  BY <1>3 DEF VerifyMission, AdoptReadback
<1>4. CASE \E p \in planned : RecordMissionSupersession(p)
  BY <1>4 DEF RecordMissionSupersession
<1>5. CASE UNCHANGED missionVars
  BY <1>5
<1>6. QED
  BY <1>1, <1>2, <1>3, <1>4, <1>5, MissionSteps

LEMMA InitEvidenced == ASSUME Init PROVE TruthEvidenced /\ SupersededForGood
  BY DEF Init, MissionInit, TruthEvidenced, SupersededForGood

LEMMA NextEvidenced ==
  ASSUME TypeOK, TruthEvidenced, [Next]_vars
  PROVE  TruthEvidenced'
<1> USE DEF TruthEvidenced, TypeOK, MissionTypeOK
<1>1. acked \subseteq acked'
  BY MissionSteps
<1>2. CASE \E m \in Missions, n \in 1..MaxRevision, d \in DeclaredTruths : Register(m, n, d)
  BY <1>1, <1>2 DEF Register, RegisterMission
<1>3. CASE \E m \in Missions, r \in Routes : Dispose(m, r)
  BY <1>1, <1>3 DEF Dispose, RecordRouteDisposition
<1>4. ASSUME NEW p \in planned, NEW s \in 0..MaxSequence, NEW t \in ReadbackTruths,
             VerifyMission(p, s, t)
      PROVE  TruthEvidenced'
  <2>1. revision' = revision /\ p \in acked' /\ p.revision = revision[p.mission]
    BY <1>1, <1>4 DEF VerifyMission, MayReadBack, AdoptReadback
  <2>2. \A m \in Missions : m # p.mission => sequence'[m] = sequence[m]
    BY <1>4 DEF VerifyMission, AdoptReadback
  <2>3. QED
    BY <1>1, <2>1, <2>2
<1>5. CASE \E p \in planned : RecordMissionSupersession(p)
  BY <1>1, <1>5 DEF RecordMissionSupersession
<1>6. CASE UNCHANGED missionVars
  BY <1>1, <1>6 DEF missionVars
<1>7. QED
  BY <1>2, <1>3, <1>4, <1>5, <1>6, MissionSteps

\* The truth of a revision that a readback gave is backed by an acknowledged
\* packet of that very revision: verify_mission asks for one, and
\* register_mission leaves the older revision's snapshot behind.
THEOREM TruthAlwaysEvidenced == Spec => []TruthEvidenced
  BY InitEvidenced, NextEvidenced, TypeCorrect, PTL DEF Spec

LEMMA NextSuperseded ==
  ASSUME TypeOK, SupersededForGood, [Next]_vars
  PROVE  SupersededForGood'
<1> USE DEF SupersededForGood
<1>1. \A x \in superseded : x[1].mission \in Missions /\ x[1].revision \in Nat /\ x[2] \in Nat
  BY DEF TypeOK, IsPacket
<1>2. \A m \in Missions : revision[m] \in Nat /\ revision'[m] \in Nat /\ revision'[m] >= revision[m]
  BY MissionsMoveOn DEF TypeOK, MissionTypeOK
<1>3. CASE superseded' = superseded
  BY <1>1, <1>2, <1>3
<1>4. ASSUME NEW p \in planned, RecordMissionSupersession(p)
      PROVE  SupersededForGood'
  <2>1. p.mission \in Missions /\ p.revision \in Nat
    BY DEF TypeOK, IsPacket
  <2>2. QED
    BY <1>1, <1>2, <1>4, <2>1 DEF RecordMissionSupersession
<1>5. QED
  BY <1>3, <1>4, MissionSteps
     DEF Register, RegisterMission, Dispose, RecordRouteDisposition, VerifyMission,
         AdoptReadback, missionVars

\* Evidence put aside for a newer revision never becomes current again: the
\* registered revision of a mission only grows.
THEOREM SupersessionsFinal == Spec => []SupersededForGood
  BY InitEvidenced, NextSuperseded, TypeCorrect, PTL DEF Spec

LEMMA NextForward ==
  ASSUME TypeOK, [Next]_vars, NEW m \in Missions, revision'[m] = revision[m]
  PROVE  /\ sequence'[m] >= sequence[m]
         /\ sequence'[m] = sequence[m] => truth'[m] = truth[m]
<1> USE DEF TypeOK, MissionTypeOK, NoSnapshot
<1>1. CASE \E k \in Missions, n \in 1..MaxRevision, d \in DeclaredTruths : Register(k, n, d)
  BY <1>1 DEF Register, RegisterMission, IsNewer
<1>2. ASSUME NEW p \in planned, NEW s \in 0..MaxSequence, NEW t \in ReadbackTruths,
             VerifyMission(p, s, t)
      PROVE  /\ sequence'[m] >= sequence[m]
             /\ sequence'[m] = sequence[m] => truth'[m] = truth[m]
  <2>1. s \in Int /\ sequence[m] \in Int /\ s > sequence[p.mission]
    BY <1>2, MissionAssumption DEF VerifyMission, AdoptReadback, IsLater
  <2>2. /\ sequence' = [sequence EXCEPT ![p.mission] = s]
        /\ truth' = [truth EXCEPT ![p.mission] = t]
    BY <1>2 DEF VerifyMission, AdoptReadback
  <2>3. CASE m = p.mission
    BY <2>1, <2>2, <2>3
  <2>4. CASE m # p.mission
    BY <2>1, <2>2, <2>4
  <2>5. QED
    BY <2>3, <2>4
<1>3. CASE UNCHANGED <<truth, sequence>>
  BY <1>3
<1>4. QED
  BY <1>1, <1>2, <1>3, MissionSteps
     DEF Dispose, RecordRouteDisposition, RecordMissionSupersession, missionVars

\* Within a revision the parent's truth only moves forward, whatever the order
\* in which its readbacks arrive.
THEOREM ReadbacksNeverGoBack == Spec => ReadbacksForward
<1>1. ASSUME TypeOK, [Next]_vars
      PROVE  \A m \in Missions : revision'[m] = revision[m] =>
               /\ sequence'[m] >= sequence[m]
               /\ sequence'[m] = sequence[m] => truth'[m] = truth[m]
  BY <1>1, NextForward
<1>2. QED
  BY <1>1, TypeCorrect, PTL DEF Spec, ReadbacksForward

-----------------------------------------------------------------------------
(* The wedge.                                                              *)

\* While its mission has moved on, a packet's unsettled step stays unsettled
\* and its lease stays active.
LEMMA WedgeStays ==
  ASSUME TypeOK, LeaseInv, [Next]_vars, NEW p \in active, Wedged(p)
  PROVE  Wedged(p)'
<1> USE DEF EffectiveState
<1>1. PICK s \in steps : s.packet = p /\ EffectiveState(s) = "UNSETTLED"
  BY DEF Wedged
<1>2. p \in claims /\ p.mission \in Missions /\ p.revision \in Nat
  BY DEF TypeOK, IsPacket
<1>3. ~Current(p) /\ ~StepsReconciled(p)
  BY <1>1, <1>2 DEF Wedged, Current, StepsReconciled, TypeOK, MissionTypeOK
<1>4. /\ p \in active'
      /\ s \in steps'
      /\ s \in DOMAIN stepProof' <=> s \in DOMAIN stepProof
      /\ s \in DOMAIN stepProof => stepProof'[s] = stepProof[s]
  BY <1>1, <1>3, StepKinds
     DEF Claim, BeginExecution, TerminalStep, RecordStepAttempt, ReconcileStepEffect,
         ClaimCurrent, stepVars, Put
<1>5. \/ revision'[p.mission] > p.revision
      \/ <<p.mission, p.revision, p.route>> \in disposed'
  BY <1>2, MissionsMoveOn DEF Wedged, RouteDisposed, TypeOK, MissionTypeOK
<1>6. QED
  BY <1>1, <1>4, <1>5 DEF Wedged, RouteDisposed

\* A packet with an unsettled step whose mission got a newer revision, or
\* whose route was given up, never gets a receipt and never releases its
\* scope: reconcile_step_effect refuses it, and every terminal path waits.
THEOREM WedgesArePermanent == Spec => WedgeIsPermanent
<1>1. ASSUME TypeOK, LeaseInv, [Next]_vars
      PROVE  \A p \in active : Wedged(p) => Wedged(p)'
  BY <1>1, WedgeStays
<1>2. QED
  BY <1>1, TypeCorrect, LeaseAlways, PTL DEF Spec, WedgeIsPermanent

=============================================================================
