---------------------------- MODULE HarnessProofs ----------------------------
(***************************************************************************)
(* Theorems about Harness, for any number of threads.  Every step of the   *)
(* harness is a step of the store or leaves it alone, so the theorems of   *)
(* TaskStoreProofs hold of the harness too.                                *)
(***************************************************************************)
EXTENDS Harness, TaskStoreProofs

LEMMA HostStepIsStoreStep == ASSUME HostStep PROVE Next
  BY DEF HostStep, Next

LEMMA ExecuteStepIsStoreStep ==
  ASSUME HarnessTypeOK, NEW t \in Threads, ExecuteStep(t)
  PROVE  [Next]_vars
<1>1. at[t] # "idle" /\ job[t] \in planned
  BY DEF ExecuteStep, HarnessTypeOK, WrongExecutor, Begin, BeginStale, BeginRaises, Reject,
         RejectRaises, ExecutorReturns, ExecutorFails, ResultLost, FailureLost, Goes, Ends
<1>2. CASE UNCHANGED vars
  BY <1>2
<1>3. CASE Begin(t)
  BY <1>1, <1>3 DEF Begin, Next
<1>4. CASE Reject(t)
  BY <1>1, <1>4 DEF Reject, Next
<1>5. CASE \E e \in Effects : ExecutorReturns(t, e)
  BY <1>1, <1>5 DEF ExecutorReturns, Next
<1>6. CASE \E e \in Effects \cup {NoEffect} : ExecutorFails(t, e)
  BY <1>1, <1>6 DEF ExecutorFails, Next
<1>7. QED
  BY <1>2, <1>3, <1>4, <1>5, <1>6
     DEF ExecuteStep, WrongExecutor, BeginStale, BeginRaises, RejectRaises, ResultLost, FailureLost

LEMMA HarnessStepIsStoreStep ==
  ASSUME HarnessTypeOK, [HarnessNext]_harnessVars
  PROVE  [Next]_vars
  BY HostStepIsStoreStep, ExecuteStepIsStoreStep DEF HarnessNext, harnessVars, Execute

LEMMA InitHarnessType == ASSUME HarnessInit PROVE HarnessTypeOK
  BY InitTypeOK DEF HarnessInit, HarnessTypeOK

LEMMA PlannedAndStartedGrow ==
  ASSUME [Next]_vars
  PROVE  planned \subseteq planned' /\ started \subseteq started'
<1> USE DEF vars, taskVars, leaseVars
<1>1. CASE UNCHANGED vars
  BY <1>1
<1>2. CASE Next
  BY <1>2
     DEF Next, Register, Dispose, Plan, Claim, BeginExecution, RecordStepAttempt,
         ReconcileStepEffect, TerminalizePreExecution, RecordExecutionFailure, ReconcileFailure,
         RejectResult, ReturnUnsettled, ReturnSettled, ReconcileEffect, Acknowledge, VerifyMission,
         RecordMissionSupersession
<1>3. QED
  BY <1>1, <1>2

LEMMA NextHarnessType ==
  ASSUME HarnessTypeOK, [HarnessNext]_harnessVars
  PROVE  HarnessTypeOK'
<1>1. TypeOK' /\ planned \subseteq planned' /\ started \subseteq started'
  BY HarnessStepIsStoreStep, NextTypeOK, PlannedAndStartedGrow DEF HarnessTypeOK
<1> USE DEF HarnessTypeOK
<1>2. CASE UNCHANGED threadVars
  BY <1>1, <1>2 DEF threadVars
<1>3. ASSUME NEW t \in Threads, NEW p \in planned, Execute(t, p)
      PROVE  HarnessTypeOK'
  <2>1. /\ at' = [at EXCEPT ![t] = "called"]
        /\ job' = [job EXCEPT ![t] = p]
        /\ UNCHANGED <<planned, started, ran>>
    BY <1>3 DEF Execute, Goes, vars, taskVars, leaseVars
  <2>2. at' \in [Threads -> {"idle", "called", "rejecting", "executing"}]
    BY <2>1
  <2>3. \A u \in Threads : at'[u] # "idle" => job'[u] \in planned'
    BY <2>1
  <2>4. job' \in [Threads -> planned' \cup {NoEffect}]
    BY <2>1
  <2>5. QED
    BY <1>1, <2>1, <2>2, <2>3, <2>4
<1>4. ASSUME NEW t \in Threads, Begin(t)
      PROVE  HarnessTypeOK'
  <2>1. /\ DOMAIN ran' = DOMAIN ran \cup {job[t]}
        /\ ran' \in [DOMAIN ran' -> Nat]
    BY <1>4 DEF Begin, Put, TimesRun
  <2>2. job[t] \in started'
    BY <1>4 DEF Begin, BeginExecution
  <2>3. QED
    BY <1>1, <1>4, <2>1, <2>2 DEF Begin, Goes
<1>5. ASSUME NEW t \in Threads, Goes(t, "called", "rejecting"), UNCHANGED <<job, ran>>
      PROVE  HarnessTypeOK'
  <2>1. at' \in [Threads -> {"idle", "called", "rejecting", "executing"}]
    BY <1>5 DEF Goes
  <2>2. \A u \in Threads : at'[u] # "idle" => job'[u] \in planned'
    BY <1>1, <1>5 DEF Goes
  <2>3. job' \in [Threads -> planned' \cup {NoEffect}]
    BY <1>1, <1>5
  <2>4. QED
    BY <1>1, <1>5, <2>1, <2>2, <2>3
<1>6. ASSUME NEW t \in Threads, NEW s \in {"called", "rejecting", "executing"}, Ends(t, s)
      PROVE  HarnessTypeOK'
  <2>1. at' \in [Threads -> {"idle", "called", "rejecting", "executing"}]
    BY <1>6 DEF Ends, Goes
  <2>2. \A u \in Threads : at'[u] # "idle" => job'[u] \in planned'
    BY <1>1, <1>6 DEF Ends, Goes
  <2>3. job' \in [Threads -> planned' \cup {NoEffect}]
    BY <1>1, <1>6 DEF Ends
  <2>4. QED
    BY <1>1, <1>6, <2>1, <2>2, <2>3 DEF Ends
<1>7. QED
  BY <1>2, <1>3, <1>4, <1>5, <1>6
     DEF HarnessNext, harnessVars, ExecuteStep, WrongExecutor, BeginStale, BeginRaises, Reject,
         RejectRaises, ExecutorReturns, ExecutorFails, ResultLost, FailureLost

\* The harness keeps the types of its threads and of the store.
THEOREM HarnessTypeCorrect == HarnessSpec => []HarnessTypeOK
  BY InitHarnessType, NextHarnessType, PTL DEF HarnessSpec

\* The harness is one way of using the store: its behaviours are behaviours of
\* the store, so what is proved of the store holds under execute.
THEOREM HarnessUsesStore == HarnessSpec => Spec
<1>1. HarnessInit => Init
  BY DEF HarnessInit
<1>2. HarnessTypeOK /\ [HarnessNext]_harnessVars => [Next]_vars
  BY HarnessStepIsStoreStep
<1>3. QED
  BY <1>1, <1>2, HarnessTypeCorrect, PTL DEF HarnessSpec, Spec

-----------------------------------------------------------------------------
(* What execute does with a packet.                                        *)

\* The parts of the store that RunInv is about.
recorded == <<started, attempts, failures, receipts, owner>>

\* A settled reconciliation of a failure, as far as RunInv goes: the effect
\* is the packet's, and it is the receipt's; nothing else changes hands.
LEMMA ReconcileFailureRun ==
  ASSUME HarnessTypeOK, RunInv, UNCHANGED threadVars,
         NEW p \in planned, NEW e \in Effects \cup {NoEffect}, ReconcileFailure(p, e)
  PROVE  RunInv'
<1>1. /\ DOMAIN receipts' = DOMAIN receipts \cup {p}
      /\ receipts'[p].effect = e
      /\ \A q \in DOMAIN receipts : receipts'[q] = receipts[q]
      /\ p \in DOMAIN failures \ DOMAIN receipts
      /\ UNCHANGED <<started, attempts, failures>>
  BY TerminalWrites DEF ReconcileFailure, ReconcileSettled, ReconcileAbsent
<1>2. \A t \in Threads : at[t] = "executing" => job[t] # p
  BY <1>1 DEF RunInv
<1>3. p \notin DOMAIN attempts
  BY <1>1 DEF RunInv, OneOutcome
<1>4. OwnedEffectsAccounted'
  <2>1. CASE ReconcileSettled(p, e)
    <3>1. DOMAIN owner' = DOMAIN owner \cup {e} /\ owner'[e] = p
      BY <2>1 DEF ReconcileSettled, Put
    <3>2. \A x \in DOMAIN owner \ {e} : owner'[x] = owner[x]
      BY <2>1 DEF ReconcileSettled, Put
    <3>3. \A x \in DOMAIN owner \ {e} : owner[x] # p
      BY <1>1, <1>3, <2>1, TaskAssumption
         DEF ReconcileSettled, MayClaimEffect, RunInv, OwnedEffectsAccounted, HarnessTypeOK, TypeOK
    <3>4. QED
      BY <1>1, <3>1, <3>2, <3>3 DEF RunInv, OwnedEffectsAccounted
  <2>2. CASE ReconcileAbsent(p, e)
    <3>1. \A x \in DOMAIN owner' :
            x \in DOMAIN owner /\ owner'[x] = owner[x] /\ ~(x = failures[p] /\ owner[x] = p)
      BY <2>2 DEF ReconcileAbsent, Disown
    <3>2. QED
      BY <1>1, <1>3, <3>1 DEF RunInv, OwnedEffectsAccounted
  <2>3. QED
    BY <2>1, <2>2 DEF ReconcileFailure
<1>5. QED
  BY <1>1, <1>2, <1>4 DEF RunInv, OneOutcome, threadVars

LEMMA ReconcileEffectRun ==
  ASSUME HarnessTypeOK, RunInv, UNCHANGED threadVars, NEW p \in planned, ReconcileEffect(p)
  PROVE  RunInv'
<1>1. /\ DOMAIN receipts' = DOMAIN receipts \cup {p}
      /\ receipts'[p].effect = attempts[p].effect
      /\ \A q \in DOMAIN receipts : receipts'[q] = receipts[q]
      /\ p \in DOMAIN attempts
      /\ UNCHANGED <<started, failures, owner>>
  BY TerminalWrites DEF ReconcileEffect
<1>2. /\ DOMAIN attempts' = DOMAIN attempts
      /\ \A q \in DOMAIN attempts : attempts'[q].effect = attempts[q].effect
  BY DEF ReconcileEffect, HarnessTypeOK, TypeOK, Result
<1>3. OwnedEffectsAccounted'
  BY <1>1, <1>2 DEF RunInv, OwnedEffectsAccounted, OneOutcome
<1>4. QED
  BY <1>1, <1>2, <1>3 DEF RunInv, OneOutcome, threadVars

LEMMA HostStepRun ==
  ASSUME HarnessTypeOK, RunInv, HostStep, UNCHANGED threadVars
  PROVE  RunInv'
<1>1. CASE \E p \in planned, e \in Effects \cup {NoEffect} : ReconcileFailure(p, e)
  BY <1>1, ReconcileFailureRun
<1>2. CASE \E p \in planned : ReconcileEffect(p)
  BY <1>2, ReconcileEffectRun
<1>3. CASE UNCHANGED recorded
  BY <1>3 DEF recorded, RunInv, OneOutcome, OwnedEffectsAccounted, threadVars
<1>4. QED
  BY <1>1, <1>2, <1>3
     DEF HostStep, recorded, taskVars, leaseVars, effectVars, Register, Dispose, Plan, Claim,
         RecordStepAttempt, ReconcileStepEffect, Acknowledge, VerifyMission,
         RecordMissionSupersession

LEMMA BeginRun ==
  ASSUME HarnessTypeOK, RunInv, NEW t \in Threads, Begin(t)
  PROVE  RunInv'
<1>1. /\ job[t] \notin started
      /\ job[t] \notin DOMAIN receipts
      /\ started' = started \cup {job[t]}
      /\ UNCHANGED <<attempts, failures, receipts, owner, job>>
  BY DEF Begin, BeginExecution, effectVars
<1>2. job[t] \notin DOMAIN attempts \cup DOMAIN failures \cup DOMAIN ran
  BY <1>1 DEF HarnessTypeOK, TypeOK
<1>3. at'[t] = "executing" /\ \A u \in Threads \ {t} : at'[u] = at[u]
  BY DEF Begin, Goes, HarnessTypeOK
<1>4. \A u \in Threads : at[u] = "executing" => job[u] # job[t]
  BY <1>1 DEF RunInv
<1>5. \A p \in DOMAIN ran' : ran'[p] = 1
  BY <1>2 DEF Begin, Put, TimesRun, RunInv
<1>6. QED
  BY <1>1, <1>2, <1>3, <1>4, <1>5 DEF RunInv, OneOutcome, OwnedEffectsAccounted

\* A thread that ends leaves the others where they are.
LEMMA EndsRun ==
  ASSUME HarnessTypeOK, NEW t \in Threads, NEW s \in {"called", "rejecting", "executing"},
         Ends(t, s)
  PROVE  /\ at[t] = s
         /\ at'[t] = "idle"
         /\ \A u \in Threads \ {t} : at'[u] = at[u] /\ job'[u] = job[u]
         /\ ran' = ran
  BY DEF Ends, Goes, HarnessTypeOK

LEMMA FailureRun ==
  ASSUME HarnessTypeOK, RunInv, NEW t \in Threads, NEW e \in Effects \cup {NoEffect},
         Ends(t, "executing"), RecordExecutionFailure(job[t], e)
  PROVE  RunInv'
<1> DEFINE p == job[t]
<1>1. /\ p \in started
      /\ p \notin DOMAIN attempts \cup DOMAIN failures \cup DOMAIN receipts
      /\ \A u \in Threads \ {t} : at[u] = "executing" => job[u] # p
  BY EndsRun DEF RunInv
<1>2. /\ DOMAIN failures' = DOMAIN failures \cup {p}
      /\ failures'[p] = e
      /\ \A q \in DOMAIN failures : failures'[q] = failures[q]
      /\ UNCHANGED <<started, attempts, receipts>>
  BY <1>1 DEF RecordExecutionFailure, Put
<1>3. \A x \in DOMAIN owner : owner[x] # p
  BY <1>1 DEF RunInv, OwnedEffectsAccounted
<1>4. \A x \in DOMAIN owner' :
        \/ x \in DOMAIN owner /\ owner'[x] = owner[x]
        \/ x = e /\ owner'[x] = p
  BY DEF RecordExecutionFailure, OwnIfFree, Put
<1>5. OwnedEffectsAccounted'
  BY <1>1, <1>2, <1>3, <1>4 DEF RunInv, OwnedEffectsAccounted
<1>6. QED
  BY <1>1, <1>2, <1>5, EndsRun DEF RunInv, OneOutcome

LEMMA ReturnRun ==
  ASSUME HarnessTypeOK, RunInv, NEW t \in Threads, NEW e \in Effects,
         Ends(t, "executing"), ReturnUnsettled(job[t], e) \/ ReturnSettled(job[t], e)
  PROVE  RunInv'
<1> DEFINE p == job[t]
<1>1. /\ p \in started
      /\ p \notin DOMAIN attempts \cup DOMAIN failures \cup DOMAIN receipts
      /\ \A u \in Threads \ {t} : at[u] = "executing" => job[u] # p
  BY EndsRun DEF RunInv
<1>2. /\ DOMAIN attempts' = DOMAIN attempts \cup {p}
      /\ attempts'[p].effect = e
      /\ \A q \in DOMAIN attempts : attempts'[q] = attempts[q]
      /\ UNCHANGED <<started, failures>>
  BY <1>1 DEF ReturnUnsettled, ReturnSettled, Put
<1>3. /\ DOMAIN owner' = DOMAIN owner \cup {e}
      /\ owner'[e] = p
      /\ \A x \in DOMAIN owner : x # e => owner'[x] = owner[x]
  BY DEF ReturnUnsettled, ReturnSettled, Put
<1>4. /\ DOMAIN receipts \subseteq DOMAIN receipts'
      /\ DOMAIN receipts' \subseteq DOMAIN receipts \cup {p}
      /\ \A q \in DOMAIN receipts : receipts'[q] = receipts[q]
  <2>1. CASE ReturnUnsettled(p, e)
    BY <2>1 DEF ReturnUnsettled
  <2>2. CASE ReturnSettled(p, e)
    BY <2>2, TerminalWrites DEF ReturnSettled
  <2>3. QED
    BY <2>1, <2>2
<1>5. \A x \in DOMAIN owner : owner[x] # p
  BY <1>1 DEF RunInv, OwnedEffectsAccounted
<1>6. OwnedEffectsAccounted'
  BY <1>1, <1>2, <1>3, <1>4, <1>5 DEF RunInv, OwnedEffectsAccounted
<1>7. QED
  BY <1>1, <1>2, <1>4, <1>6, EndsRun DEF RunInv, OneOutcome

LEMMA RejectRun ==
  ASSUME HarnessTypeOK, RunInv, NEW t \in Threads, Reject(t)
  PROVE  RunInv'
<1> DEFINE p == job[t]
<1>1. /\ p \notin started
      /\ DOMAIN receipts' = DOMAIN receipts \cup {p}
      /\ \A q \in DOMAIN receipts : receipts'[q] = receipts[q]
      /\ UNCHANGED <<started, attempts, failures, owner>>
  BY TerminalWrites DEF Reject, TerminalizePreExecution, effectVars
<1>2. \A x \in DOMAIN owner : owner[x] # p
  BY <1>1 DEF HarnessTypeOK, TypeOK
<1>3. OwnedEffectsAccounted'
  BY <1>1, <1>2 DEF RunInv, OwnedEffectsAccounted
<1>4. QED
  BY <1>1, <1>3, EndsRun DEF Reject, RunInv, OneOutcome

LEMMA InitRun == ASSUME HarnessInit PROVE RunInv
  BY DEF HarnessInit, Init, TaskInit, RunInv, OneOutcome, OwnedEffectsAccounted

LEMMA NextRun ==
  ASSUME HarnessTypeOK, RunInv, [HarnessNext]_harnessVars
  PROVE  RunInv'
<1>1. CASE HostStep /\ UNCHANGED threadVars
  BY <1>1, HostStepRun
<1>2. ASSUME NEW t \in Threads, Begin(t)
      PROVE  RunInv'
  BY <1>2, BeginRun
<1>3. ASSUME NEW t \in Threads, Reject(t)
      PROVE  RunInv'
  BY <1>3, RejectRun
<1>4. ASSUME NEW t \in Threads, NEW e \in Effects, ExecutorReturns(t, e)
      PROVE  RunInv'
  BY <1>4, FailureRun, ReturnRun DEF ExecutorReturns, RejectResult
<1>5. ASSUME NEW t \in Threads, NEW e \in Effects \cup {NoEffect}, ExecutorFails(t, e)
      PROVE  RunInv'
  BY <1>5, FailureRun DEF ExecutorFails
<1>6. ASSUME NEW t \in Threads, NEW s \in {"called", "rejecting", "executing"}, Ends(t, s),
             UNCHANGED vars
      PROVE  RunInv'
  BY <1>6, EndsRun
     DEF RunInv, OneOutcome, OwnedEffectsAccounted, vars, taskVars, effectVars
<1>7. ASSUME NEW t \in Threads, NEW s \in {"called", "rejecting"}, at' = [at EXCEPT ![t] = s],
             \A u \in Threads \ {t} : job'[u] = job[u],
             UNCHANGED <<vars, ran>>
      PROVE  RunInv'
  <2>1. \A u \in Threads : at'[u] = "executing" => u # t /\ at[u] = "executing" /\ job'[u] = job[u]
    BY <1>7 DEF HarnessTypeOK
  <2>2. UNCHANGED recorded
    BY <1>7 DEF vars, taskVars, effectVars, recorded
  <2>3. QED
    BY <1>7, <2>1, <2>2 DEF RunInv, OneOutcome, OwnedEffectsAccounted, recorded
<1>8. CASE UNCHANGED harnessVars
  BY <1>8 DEF RunInv, OneOutcome, OwnedEffectsAccounted, harnessVars, threadVars, vars, taskVars, effectVars
<1>9. CASE \E t \in Threads, p \in planned : Execute(t, p)
  BY <1>7, <1>9 DEF Execute, Goes, HarnessTypeOK
<1>10. CASE \E t \in Threads : WrongExecutor(t) \/ BeginStale(t)
  BY <1>7, <1>10 DEF WrongExecutor, BeginStale, Goes
<1>11. CASE \E t \in Threads : BeginRaises(t) \/ RejectRaises(t) \/ ResultLost(t) \/ FailureLost(t)
  BY <1>6, <1>11 DEF BeginRaises, RejectRaises, ResultLost, FailureLost
<1>12. QED
  BY <1>1, <1>2, <1>3, <1>4, <1>5, <1>8, <1>9, <1>10, <1>11 DEF HarnessNext, ExecuteStep

LEMMA RunAlways == HarnessSpec => []RunInv
  BY InitRun, NextRun, HarnessTypeCorrect, PTL DEF HarnessSpec

\* However many threads call execute for a packet, its executor is called at
\* most once, and not at all when one of them rejects the packet.
THEOREM PacketsRunOnce == HarnessSpec => []ExecutedOnce
<1>1. HarnessTypeOK /\ RunInv /\ RejectedNeverRan => ExecutedOnce
  BY DEF HarnessTypeOK, RunInv, RejectedNeverRan, ExecutedOnce
<1>2. QED
  BY <1>1, HarnessTypeCorrect, RunAlways, HarnessUsesStore, RejectedPacketsNeverRan, PTL

\* Under execute a packet has a result or a failure, never both: only the
\* thread that began it records, and it records once.
THEOREM AttemptsHaveOneOutcome == HarnessSpec => []OneOutcome
<1>1. RunInv => OneOutcome
  BY DEF RunInv
<1>2. QED
  BY <1>1, RunAlways, PTL

\* Under execute no effect stays owned by a packet whose records do not name
\* it, whichever way its failure is reconciled.
THEOREM OwnedEffectsAlwaysAccounted == HarnessSpec => []OwnedEffectsAccounted
<1>1. RunInv => OwnedEffectsAccounted
  BY DEF RunInv
<1>2. QED
  BY <1>1, RunAlways, PTL

-----------------------------------------------------------------------------
(* The life of a packet, step by step.                                     *)

\* What a step may record of a packet.  That an attempt is settled does not
\* show in what it records.
lives == <<planned, claims, active, started, DOMAIN attempts, DOMAIN failures, receipts, acked>>

\* The attempt of the packet that t has in its hands ends in the store.
Reports(t, e) ==
  /\ at[t] = "executing"
  /\ \/ RecordExecutionFailure(job[t], e)
     \/ ReturnUnsettled(job[t], e)
     \/ ReturnSettled(job[t], e)

LEMMA PacketSteps ==
  ASSUME HarnessTypeOK, [HarnessNext]_harnessVars
  PROVE  \/ \E m \in Missions, r \in Routes : Plan(m, r)
         \/ \E p \in planned : Claim(p)
         \/ \E p \in planned : BeginExecution(p)
         \/ \E t \in Threads, e \in Effects \cup {NoEffect} : Reports(t, e)
         \/ \E p \in planned : TerminalizePreExecution(p)
         \/ \E p \in planned, e \in Effects \cup {NoEffect} : ReconcileFailure(p, e)
         \/ \E p \in planned : ReconcileEffect(p)
         \/ \E p \in planned : Acknowledge(p)
         \/ UNCHANGED lives
<1> USE DEF lives, vars, taskVars, leaseVars, effectVars
<1>1. CASE UNCHANGED vars
  BY <1>1
<1>2. CASE HostStep
  BY <1>2 DEF HostStep, Register, Dispose, RecordStepAttempt, ReconcileStepEffect, VerifyMission,
              RecordMissionSupersession
<1>3. ASSUME NEW t \in Threads, ExecuteStep(t)
      PROVE  \/ \E p \in planned : BeginExecution(p)
             \/ \E e \in Effects \cup {NoEffect} : Reports(t, e)
             \/ \E p \in planned : TerminalizePreExecution(p)
             \/ UNCHANGED vars
  <2>1. at[t] # "idle" => job[t] \in planned
    BY DEF HarnessTypeOK
  <2>2. CASE Begin(t) \/ Reject(t)
    BY <2>1, <2>2 DEF Begin, Reject, Goes, Ends
  <2>3. CASE \E e \in Effects : ExecutorReturns(t, e)
    BY <2>3 DEF ExecutorReturns, RejectResult, Reports, Goes, Ends
  <2>4. CASE \E e \in Effects \cup {NoEffect} : ExecutorFails(t, e)
    BY <2>4 DEF ExecutorFails, Reports, Goes, Ends
  <2>5. QED
    BY <1>3, <2>2, <2>3, <2>4
       DEF ExecuteStep, WrongExecutor, BeginStale, BeginRaises, RejectRaises, ResultLost, FailureLost
<1>4. QED
  BY <1>1, <1>2, <1>3 DEF HarnessNext, harnessVars, Execute

\* What t reports is of the packet in its hands, and the first on record.
LEMMA ReportsOwn ==
  ASSUME RunInv, NEW t \in Threads, NEW e, Reports(t, e)
  PROVE  /\ job[t] \in started
         /\ job[t] \notin DOMAIN attempts \cup DOMAIN failures \cup DOMAIN receipts
         /\ DOMAIN attempts' \cup DOMAIN failures' \cup DOMAIN receipts'
              = DOMAIN attempts \cup DOMAIN failures \cup DOMAIN receipts \cup {job[t]}
<1> DEFINE p == job[t]
<1>1. p \in started /\ p \notin DOMAIN attempts \cup DOMAIN failures \cup DOMAIN receipts
  BY DEF RunInv, Reports
<1>2. CASE RecordExecutionFailure(p, e)
  BY <1>1, <1>2 DEF RecordExecutionFailure, Put
<1>3. CASE ReturnUnsettled(p, e)
  BY <1>1, <1>3 DEF ReturnUnsettled, Put
<1>4. CASE ReturnSettled(p, e)
  <2>1. DOMAIN receipts' = DOMAIN receipts \cup {p}
    BY <1>4, TerminalWrites DEF ReturnSettled
  <2>2. DOMAIN attempts' = DOMAIN attempts \cup {p} /\ failures' = failures
    BY <1>4 DEF ReturnSettled, Put
  <2>3. QED
    BY <1>1, <2>1, <2>2
<1>5. QED
  BY <1>1, <1>2, <1>3, <1>4 DEF Reports

\* Nobody reports of an orphan, and every reconciliation asks for a report.
LEMMA OrphanUnrecorded ==
  ASSUME HarnessTypeOK, RunInv, [HarnessNext]_harnessVars, NEW p \in started, Orphaned(p)
  PROVE  p \notin DOMAIN attempts' \cup DOMAIN failures' \cup DOMAIN receipts'
<1> USE DEF Orphaned
<1>1. CASE \E t \in Threads, e \in Effects \cup {NoEffect} : Reports(t, e)
  <2>1. PICK t \in Threads, e \in Effects \cup {NoEffect} : Reports(t, e)
    BY <1>1
  <2>2. job[t] # p
    BY <2>1 DEF Reports
  <2>3. QED
    BY <2>1, <2>2, ReportsOwn
<1>2. ASSUME NEW q \in planned, TerminalizePreExecution(q)
      PROVE  p \notin DOMAIN attempts' \cup DOMAIN failures' \cup DOMAIN receipts'
  BY <1>2, TerminalWrites DEF TerminalizePreExecution, effectVars
<1>3. ASSUME NEW q \in planned, NEW e, ReconcileFailure(q, e)
      PROVE  p \notin DOMAIN attempts' \cup DOMAIN failures' \cup DOMAIN receipts'
  <2>1. /\ DOMAIN receipts' = DOMAIN receipts \cup {q}
        /\ q \in DOMAIN failures
        /\ UNCHANGED <<attempts, failures>>
    BY <1>3, TerminalWrites DEF ReconcileFailure, ReconcileSettled, ReconcileAbsent
  <2>2. QED
    BY <2>1
<1>4. ASSUME NEW q \in planned, ReconcileEffect(q)
      PROVE  p \notin DOMAIN attempts' \cup DOMAIN failures' \cup DOMAIN receipts'
  <2>1. /\ DOMAIN receipts' = DOMAIN receipts \cup {q}
        /\ q \in DOMAIN attempts /\ DOMAIN attempts' = DOMAIN attempts
        /\ failures' = failures
    BY <1>4, TerminalWrites DEF ReconcileEffect
  <2>2. QED
    BY <2>1
<1>5. CASE \/ \E m \in Missions, r \in Routes : Plan(m, r)
           \/ \E q \in planned : Claim(q) \/ BeginExecution(q) \/ Acknowledge(q)
           \/ UNCHANGED lives
  BY <1>5 DEF Plan, Claim, BeginExecution, Acknowledge, effectVars, lives
<1>6. QED
  BY <1>1, <1>2, <1>3, <1>4, <1>5, PacketSteps

\* A thread takes up only what was not begun.
LEMMA OrphanNotTaken ==
  ASSUME HarnessTypeOK, [HarnessNext]_harnessVars, NEW p \in started, Orphaned(p),
         NEW t \in Threads
  PROVE  ~(at'[t] = "executing" /\ job'[t] = p)
<1> USE DEF Orphaned, HarnessTypeOK
<1>1. CASE UNCHANGED threadVars
  BY <1>1 DEF threadVars
<1>2. ASSUME NEW u \in Threads, NEW q \in planned, Execute(u, q)
      PROVE  ~(at'[t] = "executing" /\ job'[t] = p)
  BY <1>2 DEF Execute, Goes
<1>3. ASSUME NEW u \in Threads, Begin(u)
      PROVE  ~(at'[t] = "executing" /\ job'[t] = p)
  BY <1>3 DEF Begin, BeginExecution, Goes
<1>4. ASSUME NEW u \in Threads, WrongExecutor(u) \/ BeginStale(u)
      PROVE  ~(at'[t] = "executing" /\ job'[t] = p)
  BY <1>4 DEF WrongExecutor, BeginStale, Goes
<1>5. ASSUME NEW u \in Threads, NEW s \in {"called", "rejecting", "executing"}, Ends(u, s)
      PROVE  ~(at'[t] = "executing" /\ job'[t] = p)
  BY <1>5, EndsRun
<1>6. QED
  BY <1>1, <1>2, <1>3, <1>4, <1>5
     DEF HarnessNext, harnessVars, ExecuteStep, BeginRaises, Reject, RejectRaises, ExecutorReturns,
         ExecutorFails, ResultLost, FailureLost

\* A new claim shares no item with a lease.
LEMMA ClaimsAvoidLeases ==
  ASSUME TypeOK, [Next]_vars, NEW p \in active, NEW q \in claims' \ claims
  PROVE  CommonItems(p, q) = {}
<1>1. CASE \E r \in planned : Claim(r)
  BY <1>1 DEF Claim, ScopeFree, CommonItems
<1>2. CASE claims' = claims
  BY <1>2
<1>3. QED
  BY <1>1, <1>2, StepKinds
     DEF TerminalStep, BeginExecution, RecordStepAttempt, ReconcileStepEffect, leaseVars

\* An execution that nobody reported leaves its scope locked for ever: every
\* way to a receipt asks for a report, and nobody is left to make one.
THEOREM OrphansArePermanent == HarnessSpec => OrphanIsPermanent
<1>1. ASSUME HarnessTypeOK, RunInv, LeaseInv, LeaseInv', [HarnessNext]_harnessVars
      PROVE  \A p \in started : Orphaned(p) =>
               /\ Orphaned(p)' /\ p \in active'
               /\ \A q \in claims' \ claims : CommonItems(p, q) = {}
  <2> SUFFICES ASSUME NEW p \in started, Orphaned(p)
               PROVE  /\ Orphaned(p)' /\ p \in active'
                      /\ \A q \in claims' \ claims : CommonItems(p, q) = {}
    OBVIOUS
  <2>1. TypeOK' /\ started \subseteq started'
    BY <1>1, HarnessStepIsStoreStep, NextTypeOK, PlannedAndStartedGrow DEF HarnessTypeOK
  <2>2. p \notin DOMAIN attempts' \cup DOMAIN failures' \cup DOMAIN receipts'
    BY <1>1, OrphanUnrecorded
  <2>3. Orphaned(p)'
    BY <1>1, <2>1, <2>2, OrphanNotTaken DEF Orphaned
  <2>4. p \in active /\ p \in active'
    BY <1>1, <2>1, <2>2 DEF LeaseInv, TypeOK, HarnessTypeOK, Orphaned
  <2>5. QED
    BY <1>1, <2>3, <2>4, HarnessStepIsStoreStep, ClaimsAvoidLeases DEF HarnessTypeOK
<1>2. HarnessSpec => []LeaseInv
  BY HarnessUsesStore, LeaseAlways, PTL
<1>3. HarnessTypeOK /\ RunInv /\ LeaseInv /\ LeaseInv' /\ [HarnessNext]_harnessVars
        => [\A p \in started : Orphaned(p) =>
              /\ Orphaned(p)' /\ p \in active'
              /\ \A q \in claims' \ claims : CommonItems(p, q) = {}]_harnessVars
  BY <1>1
<1>4. QED
  BY <1>2, <1>3, HarnessTypeCorrect, RunAlways, PTL DEF HarnessSpec, OrphanIsPermanent
=============================================================================
