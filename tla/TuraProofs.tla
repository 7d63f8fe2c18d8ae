----------------------------- MODULE TuraProofs -----------------------------
(***************************************************************************)
(* Theorems about TuraAdapter.  Its behaviours are behaviours of Harness,  *)
(* so the theorems of HarnessProofs hold with the adapter as the executor. *)
(***************************************************************************)
EXTENDS TuraAdapter, HarnessProofs

\* The step of execute that a step of the adapter is, if it is one.
LEMMA AdapterStepIsExecuteStep ==
  ASSUME TuraTypeOK, NEW t \in Threads, AdapterStep(t)
  PROVE  ExecuteStep(t) \/ UNCHANGED harnessVars
<1>1. CASE \E q \in DOMAIN sent, st \in {"SETTLED", "UNSETTLED"} : ResultArrives(t, q, st)
  <2>1. PICK q \in DOMAIN sent, st \in {"SETTLED", "UNSETTLED"} : ResultArrives(t, q, st)
    BY <1>1
  <2>2. effectOf[q] \in Effects
    BY <2>1 DEF ResultArrives, MayReport, Had, TuraTypeOK
  <2>3. ExecutorReturns(t, effectOf[q]) \/ ResultLost(t)
    BY <2>1 DEF ResultArrives, ExecutorReturns, ResultLost
  <2>4. QED
    BY <2>2, <2>3 DEF ExecuteStep
<1>2. CASE DispatchRefused(t) \/ TransportRaises(t)
  BY <1>2 DEF DispatchRefused, TransportRaises, ExecuteStep
<1>3. CASE \E q \in DOMAIN sent, e \in Effects \cup {NoEffect} :
             FailureArrives(t, q, e) \/ Undecodable(t, q, e) \/ IdentityMismatch(t, q, e)
  BY <1>3 DEF FailureArrives, Undecodable, IdentityMismatch, ExecuteStep
<1>4. CASE Dispatch(t)
  BY <1>4 DEF Dispatch
<1>5. CASE Interrupted(t)
  BY <1>5 DEF Interrupted, ExecuteStep
<1>6. QED
  BY <1>1, <1>2, <1>3, <1>4, <1>5 DEF AdapterStep

LEMMA TuraStepIsHarnessStep ==
  ASSUME TuraTypeOK, [TuraNext]_allVars
  PROVE  [HarnessNext]_harnessVars
<1>1. CASE HonestHost
  BY <1>1 DEF HonestHost, HarnessNext
<1>2. CASE RuntimeStep
  BY <1>2 DEF RuntimeStep, Accept, Perform, GiveUp
<1>3. CASE \E t \in Threads, p \in planned : Execute(t, p) /\ UNCHANGED turaVars
  BY <1>3 DEF HarnessNext
<1>4. CASE \E t \in Threads : BeforeAdapter(t)
  BY <1>4 DEF BeforeAdapter, ExecuteStep, HarnessNext
<1>5. CASE \E t \in Threads : AdapterStep(t)
  BY <1>5, AdapterStepIsExecuteStep DEF HarnessNext
<1>6. CASE UNCHANGED allVars
  BY <1>6 DEF allVars
<1>7. QED
  BY <1>1, <1>2, <1>3, <1>4, <1>5, <1>6 DEF TuraNext

\* The adapter is done with the packet of t.
AdapterEnds(t) ==
  /\ Ends(t, "executing")
  /\ waiting' = waiting \ {t}
  /\ UNCHANGED <<sent, effectOf, fate>>

LEMMA AdapterSteps ==
  ASSUME TuraTypeOK, NEW t \in Threads, AdapterStep(t)
  PROVE  Dispatch(t) \/ AdapterEnds(t)
<1>1. CASE \E q \in DOMAIN sent, st \in {"SETTLED", "UNSETTLED"} : ResultArrives(t, q, st)
  BY <1>1 DEF ResultArrives, Answered, AdapterEnds
<1>2. CASE \E q \in DOMAIN sent, e \in Effects \cup {NoEffect} :
             FailureArrives(t, q, e) \/ Undecodable(t, q, e) \/ IdentityMismatch(t, q, e)
  BY <1>2 DEF FailureArrives, Undecodable, IdentityMismatch, Answered, ExecutorFails, AdapterEnds
<1>3. CASE DispatchRefused(t)
  BY <1>3 DEF DispatchRefused, ExecutorFails, turaVars, AdapterEnds
<1>4. CASE TransportRaises(t)
  BY <1>4 DEF TransportRaises, Answered, ExecutorFails, AdapterEnds
<1>5. CASE Interrupted(t)
  BY <1>5 DEF Interrupted, FailureLost, AdapterEnds
<1>6. QED
  BY <1>1, <1>2, <1>3, <1>4, <1>5 DEF AdapterStep

-----------------------------------------------------------------------------
(* Types.                                                                  *)

LEMMA InitTuraType == ASSUME TuraInit PROVE TuraTypeOK
  BY InitHarnessType DEF TuraInit, TuraTypeOK

\* A step of a thread that leaves the runtime alone, and does not end an
\* execution that waits for it.
LEMMA WaitingKept ==
  ASSUME TuraTypeOK, HarnessTypeOK', started \subseteq started',
         UNCHANGED <<sent, effectOf, fate>>,
         \A t \in waiting' : t \in waiting /\ at'[t] = at[t]
  PROVE  TuraTypeOK'
  BY DEF TuraTypeOK

LEMMA NextTuraType ==
  ASSUME TuraTypeOK, RunInv, [TuraNext]_allVars
  PROVE  TuraTypeOK'
<1>1. [HarnessNext]_harnessVars
  BY TuraStepIsHarnessStep
<1>2. HarnessTypeOK' /\ started \subseteq started'
  BY <1>1, NextHarnessType, HarnessStepIsStoreStep, PlannedAndStartedGrow DEF TuraTypeOK
<1>3. CASE HonestHost
  BY <1>2, <1>3, WaitingKept DEF HonestHost, threadVars, turaVars
<1>4. CASE RuntimeStep
  <2>1. UNCHANGED <<harnessVars, waiting, sent>>
    BY <1>4 DEF RuntimeStep, Accept, Perform, GiveUp
  <2>2. started' = started /\ at' = at
    BY <2>1 DEF harnessVars, threadVars, vars, taskVars
  <2>3. CASE \E p \in DOMAIN sent, e \in Effects : Accept(p, e)
    BY <1>2, <2>1, <2>2, <2>3 DEF Accept, Put, TuraTypeOK
  <2>4. CASE \E p \in DOMAIN sent : Perform(p) \/ GiveUp(p)
    BY <1>2, <2>1, <2>2, <2>4 DEF Perform, GiveUp, Put, TuraTypeOK
  <2>5. QED
    BY <1>4, <2>3, <2>4 DEF RuntimeStep
<1>5. ASSUME NEW t \in Threads, NEW p \in planned, Execute(t, p), UNCHANGED turaVars
      PROVE  TuraTypeOK'
  BY <1>2, <1>5, WaitingKept DEF Execute, Goes, turaVars, TuraTypeOK, HarnessTypeOK
<1>6. ASSUME NEW t \in Threads, BeforeAdapter(t)
      PROVE  TuraTypeOK'
  <2>1. t \notin waiting /\ \A u \in Threads \ {t} : at'[u] = at[u]
    BY <1>6 DEF BeforeAdapter, WrongExecutor, Begin, BeginStale, BeginRaises, Reject, RejectRaises,
                Goes, Ends, TuraTypeOK, HarnessTypeOK
  <2>2. QED
    BY <1>2, <1>6, <2>1, WaitingKept DEF BeforeAdapter, turaVars, TuraTypeOK
<1>7. ASSUME NEW t \in Threads, Dispatch(t)
      PROVE  TuraTypeOK'
  <2>1. job[t] \in started /\ started' = started /\ at' = at
    BY <1>7 DEF Dispatch, RunInv, harnessVars, threadVars, vars, taskVars
  <2>2. /\ sent' \in [DOMAIN sent' -> Nat]
        /\ DOMAIN sent' = DOMAIN sent \cup {job[t]}
    BY <1>7 DEF Dispatch, TuraTypeOK, Put, TimesSent
  <2>3. QED
    BY <1>2, <1>7, <2>1, <2>2 DEF Dispatch, TuraTypeOK
<1>8. ASSUME NEW t \in Threads, AdapterEnds(t)
      PROVE  TuraTypeOK'
  BY <1>2, <1>8, WaitingKept DEF AdapterEnds, Ends, Goes, TuraTypeOK, HarnessTypeOK
<1>9. CASE UNCHANGED allVars
  BY <1>2, <1>9, WaitingKept DEF allVars, turaVars, harnessVars, threadVars
<1>10. QED
  BY <1>3, <1>4, <1>5, <1>6, <1>7, <1>8, <1>9, AdapterSteps DEF TuraNext

LEMMA TuraRun ==
  ASSUME TuraTypeOK, RunInv, [TuraNext]_allVars
  PROVE  RunInv'
  BY TuraStepIsHarnessStep, NextRun DEF TuraTypeOK

LEMMA TuraTypeAndRun == TuraSpec => [](TuraTypeOK /\ RunInv)
<1>1. TuraInit => TuraTypeOK /\ RunInv
  BY InitTuraType, InitRun DEF TuraInit
<1>2. TuraTypeOK /\ RunInv /\ [TuraNext]_allVars => (TuraTypeOK /\ RunInv)'
  BY NextTuraType, TuraRun
<1>3. QED
  BY <1>1, <1>2, PTL DEF TuraSpec

\* The adapter, the runtime and the threads keep their types: a request is
\* sent for a packet that was begun, and only a running execution waits.
THEOREM TuraTypeCorrect == TuraSpec => []TuraTypeOK
  BY TuraTypeAndRun, PTL

\* With the adapter as its executor the harness behaves as the harness, so
\* what is proved of execute with any executor holds with this one.
THEOREM TuraIsAnExecutor == TuraSpec => HarnessSpec
<1>1. TuraInit => HarnessInit
  BY DEF TuraInit
<1>2. TuraTypeOK /\ [TuraNext]_allVars => [HarnessNext]_harnessVars
  BY TuraStepIsHarnessStep
<1>3. QED
  BY <1>1, <1>2, TuraTypeCorrect, PTL DEF TuraSpec, HarnessSpec

-----------------------------------------------------------------------------
(* Results and receipts.                                                   *)

\* The receipt a step writes, if it writes one: without a settled effect it
\* has no effect.
LEMMA ReceiptWritten ==
  ASSUME [Next]_vars
  PROVE  \/ UNCHANGED receipts
         \/ \E p \in planned :
              /\ p \notin DOMAIN receipts
              /\ DOMAIN receipts' = DOMAIN receipts \cup {p}
              /\ \A q \in DOMAIN receipts : receipts'[q] = receipts[q]
              /\ receipts'[p].state # "SETTLED" => receipts'[p].effect = NoEffect
<1>1. ASSUME NEW p \in planned, TerminalizePreExecution(p)
      PROVE  /\ p \notin DOMAIN receipts
             /\ DOMAIN receipts' = DOMAIN receipts \cup {p}
             /\ \A q \in DOMAIN receipts : receipts'[q] = receipts[q]
             /\ receipts'[p].effect = NoEffect
  BY <1>1, TerminalWrites DEF TerminalizePreExecution
<1>2. ASSUME NEW p \in planned, NEW e, ReconcileFailure(p, e)
      PROVE  /\ p \notin DOMAIN receipts
             /\ DOMAIN receipts' = DOMAIN receipts \cup {p}
             /\ \A q \in DOMAIN receipts : receipts'[q] = receipts[q]
             /\ receipts'[p].state # "SETTLED" => receipts'[p].effect = NoEffect
  BY <1>2, TerminalWrites DEF ReconcileFailure, ReconcileSettled, ReconcileAbsent
<1>3. ASSUME NEW p \in planned, NEW e, PersistTerminal(p, "SUCCEEDED", e, "SETTLED")
      PROVE  /\ p \notin DOMAIN receipts
             /\ DOMAIN receipts' = DOMAIN receipts \cup {p}
             /\ \A q \in DOMAIN receipts : receipts'[q] = receipts[q]
             /\ receipts'[p].state = "SETTLED"
  BY <1>3, TerminalWrites
<1>4. CASE \E p \in planned, e \in Effects : ReturnSettled(p, e)
  BY <1>3, <1>4 DEF ReturnSettled
<1>5. CASE \E p \in planned : ReconcileEffect(p)
  BY <1>3, <1>5 DEF ReconcileEffect
<1>6. CASE \E p \in planned : Claim(p)
  BY <1>6 DEF Claim
<1>7. CASE UNCHANGED vars
  BY <1>7 DEF vars, taskVars
<1>8. QED
  BY <1>1, <1>2, <1>4, <1>5, <1>6, <1>7
     DEF Next, taskVars, Register, Dispose, Plan, BeginExecution, RecordStepAttempt,
         ReconcileStepEffect, RecordExecutionFailure, RejectResult, ReturnUnsettled, Acknowledge,
         VerifyMission, RecordMissionSupersession

\* A result on record keeps its effect, and the host records none.
LEMMA HostKeepsResults ==
  ASSUME TypeOK, HostStep
  PROVE  /\ DOMAIN attempts' = DOMAIN attempts
         /\ \A p \in DOMAIN attempts : attempts'[p].effect = attempts[p].effect
<1>1. CASE \E p \in planned : ReconcileEffect(p)
  BY <1>1 DEF ReconcileEffect, TypeOK, Result
<1>2. CASE \E p \in planned, e \in Effects \cup {NoEffect} : ReconcileFailure(p, e)
  BY <1>2 DEF ReconcileFailure
<1>3. QED
  BY <1>1, <1>2
     DEF HostStep, taskVars, effectVars, Register, Dispose, Plan, Claim, RecordStepAttempt,
         ReconcileStepEffect, Acknowledge, VerifyMission, RecordMissionSupersession

LEMMA InitTuraInv == ASSUME TuraInit PROVE TuraInv
  BY DEF TuraInit, HarnessInit, Init, TaskInit, TuraInv, ReceiptsTruthful

LEMMA HostTura ==
  ASSUME TuraTypeOK, RunInv, TuraInv, HonestHost
  PROVE  TuraInv'
<1>1. Next
  BY HostStepIsStoreStep DEF HonestHost
<1>2. /\ DOMAIN attempts' = DOMAIN attempts
      /\ \A p \in DOMAIN attempts : attempts'[p].effect = attempts[p].effect
  BY HostKeepsResults DEF HonestHost, TuraTypeOK, HarnessTypeOK
<1>3. UNCHANGED <<waiting, sent, effectOf, fate, at, job>>
  BY DEF HonestHost, turaVars, threadVars
<1>4. \A p \in DOMAIN receipts :
        p \in DOMAIN receipts' /\ receipts'[p] = receipts[p]
  BY <1>1, ReceiptWritten
<1>5. \A p \in DOMAIN receipts' :
        p \in DOMAIN receipts \/ Proved(p, receipts'[p])
  BY DEF HonestHost
<1>6. ReceiptsTruthful'
  BY <1>3, <1>4, <1>5 DEF ReceiptsTruthful, Proved, Had, HasNone, TuraInv
<1>7. \A p \in DOMAIN receipts' : receipts'[p].state # "SETTLED" => receipts'[p].effect = NoEffect
  BY <1>1, ReceiptWritten DEF TuraInv
<1>8. QED
  BY <1>2, <1>3, <1>6, <1>7 DEF TuraInv

\* The runtime decides nothing twice, so no receipt becomes untrue: while the
\* effect of a request is open its packet has no receipt.
LEMMA RuntimeTura ==
  ASSUME TuraTypeOK, TuraInv, RuntimeStep
  PROVE  TuraInv'
<1>1. /\ UNCHANGED <<waiting, sent, at, job, attempts, receipts>>
      /\ \A p \in DOMAIN effectOf : p \in DOMAIN effectOf' /\ effectOf'[p] = effectOf[p]
      /\ \A p \in DOMAIN fate : p \in DOMAIN fate' /\ fate'[p] = fate[p]
  BY DEF RuntimeStep, Accept, Perform, GiveUp, Put, harnessVars, threadVars, vars, taskVars, effectVars
<1>2. ReceiptsTruthful'
  BY <1>1 DEF TuraInv, ReceiptsTruthful, Had, HasNone
<1>3. QED
  BY <1>1, <1>2 DEF TuraInv

LEMMA BeforeTura ==
  ASSUME TuraTypeOK, RunInv, TuraInv, NEW t \in Threads, BeforeAdapter(t)
  PROVE  TuraInv'
<1>1. /\ UNCHANGED <<waiting, sent, effectOf, fate, attempts>>
      /\ t \notin waiting
      /\ \A u \in Threads \ {t} : at'[u] = at[u] /\ job'[u] = job[u]
  BY DEF BeforeAdapter, WrongExecutor, Begin, BeginStale, BeginRaises, Reject, RejectRaises, Goes,
         Ends, TuraTypeOK, HarnessTypeOK, turaVars, vars, taskVars, effectVars, BeginExecution,
         TerminalizePreExecution
<1>2. CASE Begin(t)
  <2>1. job[t] \notin started /\ UNCHANGED <<job, receipts>>
    BY <1>2 DEF Begin, BeginExecution
  <2>2. job[t] \notin DOMAIN sent
    BY <2>1 DEF TuraTypeOK
  <2>3. ReceiptsTruthful'
    BY <1>1, <2>1 DEF TuraInv, ReceiptsTruthful, Had, HasNone
  <2>4. QED
    BY <1>1, <2>1, <2>2, <2>3 DEF TuraInv
<1>3. CASE Reject(t)
  <2>1. /\ job[t] \notin started
        /\ DOMAIN receipts' = DOMAIN receipts \cup {job[t]}
        /\ \A q \in DOMAIN receipts : receipts'[q] = receipts[q]
        /\ job[t] \notin DOMAIN receipts
        /\ receipts'[job[t]].state = "NONE"
        /\ receipts'[job[t]].effect = NoEffect
    BY <1>3, TerminalWrites DEF Reject, TerminalizePreExecution
  <2>2. job[t] \notin DOMAIN sent
    BY <2>1 DEF TuraTypeOK
  <2>3. ReceiptsTruthful'
    BY <1>1, <2>1, <2>2 DEF TuraInv, ReceiptsTruthful, Had, HasNone
  <2>4. at'[t] = "idle"
    BY <1>3 DEF Reject, Ends, Goes, TuraTypeOK, HarnessTypeOK
  <2>5. QED
    BY <1>1, <2>1, <2>3, <2>4 DEF TuraInv
<1>4. CASE WrongExecutor(t) \/ BeginStale(t) \/ BeginRaises(t) \/ RejectRaises(t)
  <2>1. /\ receipts' = receipts
        /\ at'[t] # "executing"
    BY <1>4 DEF WrongExecutor, BeginStale, BeginRaises, RejectRaises, Goes, Ends, vars, taskVars,
                TuraTypeOK, HarnessTypeOK
  <2>2. ReceiptsTruthful'
    BY <1>1, <2>1 DEF TuraInv, ReceiptsTruthful, Had, HasNone
  <2>3. QED
    BY <1>1, <2>1, <2>2 DEF TuraInv
<1>5. QED
  BY <1>2, <1>3, <1>4 DEF BeforeAdapter

LEMMA DispatchTura ==
  ASSUME TuraTypeOK, RunInv, TuraInv, NEW t \in Threads, Dispatch(t)
  PROVE  TuraInv'
<1>1. /\ UNCHANGED <<at, job, attempts, receipts, effectOf, fate>>
      /\ at[t] = "executing"
      /\ job[t] \notin DOMAIN sent
      /\ waiting' = waiting \cup {t}
      /\ DOMAIN sent' = DOMAIN sent \cup {job[t]}
  BY DEF Dispatch, harnessVars, threadVars, vars, taskVars, effectVars, TuraInv, Put
<1>2. \A p \in DOMAIN sent' : sent'[p] = 1
  BY <1>1 DEF Dispatch, Put, TimesSent, TuraInv
<1>3. job[t] \notin DOMAIN receipts /\ \A u \in Threads \ {t} : at[u] = "executing" => job[u] # job[t]
  BY <1>1 DEF RunInv
<1>4. ReceiptsTruthful'
  BY <1>1, <1>3 DEF TuraInv, ReceiptsTruthful, Had, HasNone
<1>5. QED
  BY <1>1, <1>2, <1>3, <1>4 DEF TuraInv

\* What the adapter leaves behind when it is done: a result of the packet's
\* own request, or no result and no receipt.
LEMMA AdapterRecords ==
  ASSUME TuraTypeOK, TuraInv, NEW t \in Threads, AdapterStep(t), ~Dispatch(t)
  PROVE  \/ UNCHANGED <<attempts, receipts>>
         \/ \E e \in Effects :
              /\ job[t] \in DOMAIN effectOf /\ effectOf[job[t]] = e
              /\ \/ ReturnUnsettled(job[t], e)
                 \/ ReturnSettled(job[t], e) /\ Had(job[t])
<1>1. CASE \E q \in DOMAIN sent, st \in {"SETTLED", "UNSETTLED"} : ResultArrives(t, q, st)
  <2>1. PICK q \in DOMAIN sent, st \in {"SETTLED", "UNSETTLED"} : ResultArrives(t, q, st)
    BY <1>1
  <2>2. q = job[t] /\ q \in DOMAIN effectOf /\ effectOf[q] \in Effects
    BY <2>1 DEF ResultArrives, SameIdentity, MayReport, Had, TuraTypeOK
  <2>3. st = "SETTLED" => Had(q)
    BY <2>1 DEF ResultArrives, MayReport
  <2>4. QED
    BY <2>1, <2>2, <2>3
       DEF ResultArrives, RejectResult, RecordExecutionFailure, vars, taskVars, effectVars
<1>2. CASE DispatchRefused(t) \/ TransportRaises(t)
  BY <1>2 DEF DispatchRefused, TransportRaises, ExecutorFails, RecordExecutionFailure
<1>3. CASE \E q \in DOMAIN sent, e \in Effects \cup {NoEffect} :
             FailureArrives(t, q, e) \/ Undecodable(t, q, e) \/ IdentityMismatch(t, q, e)
  BY <1>3 DEF FailureArrives, Undecodable, IdentityMismatch, ExecutorFails, RecordExecutionFailure
<1>4. CASE Interrupted(t)
  BY <1>4 DEF Interrupted, FailureLost, vars, taskVars, effectVars
<1>5. QED
  BY <1>1, <1>2, <1>3, <1>4 DEF AdapterStep

LEMMA AdapterTura ==
  ASSUME TuraTypeOK, RunInv, TuraInv, NEW t \in Threads, AdapterStep(t), ~Dispatch(t)
  PROVE  TuraInv'
<1>1. /\ UNCHANGED <<sent, effectOf, fate>>
      /\ waiting' = waiting \ {t}
      /\ at'[t] = "idle"
      /\ \A u \in Threads \ {t} : at'[u] = at[u] /\ job'[u] = job[u]
  BY AdapterSteps, EndsRun DEF AdapterEnds, TuraTypeOK
<1>2. CASE UNCHANGED <<attempts, receipts>>
  <2>1. ReceiptsTruthful'
    BY <1>1, <1>2 DEF TuraInv, ReceiptsTruthful, Had, HasNone
  <2>2. QED
    BY <1>1, <1>2, <2>1 DEF TuraInv
<1>3. ASSUME NEW e \in Effects, job[t] \in DOMAIN effectOf, effectOf[job[t]] = e,
             ReturnUnsettled(job[t], e) \/ (ReturnSettled(job[t], e) /\ Had(job[t]))
      PROVE  TuraInv'
  <2>1. /\ DOMAIN attempts' = DOMAIN attempts \cup {job[t]}
        /\ attempts'[job[t]].effect = e
        /\ \A p \in DOMAIN attempts : p # job[t] => attempts'[p] = attempts[p]
    BY <1>3 DEF ReturnUnsettled, ReturnSettled, Put
  <2>2. CASE ReturnUnsettled(job[t], e)
    <3>1. receipts' = receipts
      BY <2>2 DEF ReturnUnsettled
    <3>2. ReceiptsTruthful'
      BY <1>1, <3>1 DEF TuraInv, ReceiptsTruthful, Had, HasNone
    <3>3. QED
      BY <1>1, <1>3, <2>1, <3>1, <3>2 DEF TuraInv
  <2>3. CASE ReturnSettled(job[t], e) /\ Had(job[t])
    <3>1. /\ DOMAIN receipts' = DOMAIN receipts \cup {job[t]}
          /\ \A q \in DOMAIN receipts : receipts'[q] = receipts[q]
          /\ job[t] \notin DOMAIN receipts
          /\ receipts'[job[t]].state = "SETTLED"
          /\ receipts'[job[t]].effect = e
      BY <2>3, TerminalWrites DEF ReturnSettled
    <3>2. ReceiptsTruthful'
      BY <1>1, <1>3, <2>3, <3>1 DEF TuraInv, ReceiptsTruthful, Had, HasNone
    <3>3. QED
      BY <1>1, <1>3, <2>1, <3>1, <3>2 DEF TuraInv
  <2>4. QED
    BY <1>3, <2>2, <2>3
<1>4. QED
  BY <1>2, <1>3, AdapterRecords

LEMMA NextTura ==
  ASSUME TuraTypeOK, RunInv, TuraInv, [TuraNext]_allVars
  PROVE  TuraInv'
<1>1. ASSUME NEW t \in Threads, NEW p \in planned, Execute(t, p), UNCHANGED turaVars
      PROVE  TuraInv'
  <2>1. /\ UNCHANGED <<waiting, sent, effectOf, fate, attempts, receipts>>
        /\ \A u \in Threads : at'[u] = "executing" => at[u] = "executing" /\ job'[u] = job[u]
    BY <1>1 DEF Execute, Goes, vars, taskVars, effectVars, turaVars, TuraTypeOK, HarnessTypeOK
  <2>2. ReceiptsTruthful'
    BY <2>1 DEF TuraInv, ReceiptsTruthful, Had, HasNone
  <2>3. QED
    BY <2>1, <2>2 DEF TuraInv
<1>2. CASE UNCHANGED allVars
  BY <1>2 DEF allVars, harnessVars, threadVars, turaVars, vars, taskVars, effectVars, TuraInv,
              ReceiptsTruthful, Had, HasNone
<1>3. QED
  BY <1>1, <1>2, HostTura, RuntimeTura, BeforeTura, DispatchTura, AdapterTura DEF TuraNext

LEMMA TuraAlways == TuraSpec => []TuraInv
  BY InitTuraInv, NextTura, TuraTypeAndRun, PTL DEF TuraSpec

\* For any number of threads, packets and effects, and whatever the transport
\* does, a receipt tells the truth about its packet's own request.
THEOREM ReceiptsAreTruthful == TuraSpec => []ReceiptsTruthful
<1>1. TuraInv => ReceiptsTruthful
  BY DEF TuraInv
<1>2. QED
  BY <1>1, TuraAlways, PTL

\* No receipt leaves an effect with a packet that did not have it.
THEOREM MisownedIsAlwaysProvisional == TuraSpec => []MisownedIsProvisional
<1>1. ASSUME TuraTypeOK, RunInv, TuraInv
      PROVE  MisownedIsProvisional
  <2>1. SUFFICES ASSUME NEW e \in DOMAIN owner
                 PROVE  \/ owner[e] \in DOMAIN effectOf /\ effectOf[owner[e]] = e
                        \/ /\ owner[e] \in DOMAIN failures \ DOMAIN receipts
                           /\ failures[owner[e]] = e
    BY DEF MisownedIsProvisional
  <2>2. e # NoEffect
    BY <1>1, TaskAssumption DEF TuraTypeOK, HarnessTypeOK, TypeOK
  <2>3. CASE owner[e] \in DOMAIN attempts /\ attempts[owner[e]].effect = e
    BY <1>1, <2>3 DEF TuraInv
  <2>4. CASE owner[e] \in DOMAIN receipts /\ receipts[owner[e]].effect = e
    BY <1>1, <2>2, <2>4 DEF TuraInv, ReceiptsTruthful, Had
  <2>5. QED
    BY <1>1, <2>3, <2>4 DEF RunInv, OwnedEffectsAccounted
<1>2. QED
  BY <1>1, TuraTypeAndRun, TuraAlways, PTL

-----------------------------------------------------------------------------
(* What a packet that was misled can never do.                             *)

\* The runtime decides once what a request has.
LEMMA RuntimeDecidesOnce ==
  ASSUME TuraTypeOK, [TuraNext]_allVars, NEW p
  PROVE  /\ Had(p) => Had(p)' /\ effectOf'[p] = effectOf[p]
         /\ Had(p) => ~HasNone(p)
<1>1. \/ UNCHANGED <<effectOf, fate>>
      \/ RuntimeStep
  BY AdapterSteps
     DEF TuraNext, HonestHost, BeforeAdapter, Dispatch, AdapterEnds, turaVars, allVars
<1>2. /\ p \in DOMAIN effectOf => p \in DOMAIN effectOf' /\ effectOf'[p] = effectOf[p]
      /\ p \in DOMAIN fate => p \in DOMAIN fate' /\ fate'[p] = fate[p]
  BY <1>1 DEF RuntimeStep, Accept, Perform, GiveUp, Put
<1>3. QED
  BY <1>2 DEF Had, HasNone, TuraTypeOK

\* What a failure observed is on record for good.
LEMMA FailuresKept ==
  ASSUME HarnessTypeOK, RunInv, [HarnessNext]_harnessVars, NEW p \in DOMAIN failures
  PROVE  p \in DOMAIN failures' /\ failures'[p] = failures[p]
<1>1. [Next]_vars
  BY HarnessStepIsStoreStep
<1>2. CASE \E q \in planned, e \in Effects \cup {NoEffect} : RecordExecutionFailure(q, e)
  BY <1>2 DEF RecordExecutionFailure, Put
<1>3. CASE \E q \in planned, e \in Effects : RejectResult(q, e)
  BY <1>3 DEF RejectResult, RecordExecutionFailure, Put
<1>4. QED
  BY <1>1, <1>2, <1>3
     DEF Next, vars, taskVars, effectVars, Register, Dispose, Plan, Claim, BeginExecution,
         RecordStepAttempt, ReconcileStepEffect, TerminalizePreExecution, ReconcileFailure,
         ReturnUnsettled, ReturnSettled, ReconcileEffect, Acknowledge, VerifyMission,
         RecordMissionSupersession

\* A lease whose packet has failed ends with the reconciliation of the
\* failure, for the effect that the failure observed or for none.
LEMMA FailedLeaseEnds ==
  ASSUME HarnessTypeOK, RunInv, [HarnessNext]_harnessVars,
         NEW p \in active, p \in DOMAIN failures, p \notin active'
  PROVE  /\ p \in DOMAIN receipts'
         /\ receipts'[p].state = "SETTLED" => failures[p] \in {receipts'[p].effect, NoEffect}
<1>1. CASE \E q \in planned, e \in Effects \cup {NoEffect} : ReconcileFailure(q, e)
  <2>1. PICK q \in planned, e \in Effects \cup {NoEffect} : ReconcileFailure(q, e)
    BY <1>1
  <2>2. q = p /\ DOMAIN receipts' = DOMAIN receipts \cup {q}
    BY <2>1, TerminalWrites DEF ReconcileFailure, ReconcileSettled, ReconcileAbsent
  <2>3. CASE ReconcileSettled(p, e)
    BY <2>2, <2>3, TerminalWrites DEF ReconcileSettled, MayClaimEffect
  <2>4. CASE ReconcileAbsent(p, e)
    BY <2>2, <2>4, TerminalWrites DEF ReconcileAbsent
  <2>5. QED
    BY <2>1, <2>2, <2>3, <2>4 DEF ReconcileFailure
<1>2. ASSUME NEW q \in planned, TerminalizePreExecution(q)
      PROVE  FALSE
  <2>1. active' = active \ {q}
    BY <1>2, TerminalSteps DEF TerminalStep
  <2>2. q = p /\ q \notin started
    BY <1>2, <2>1 DEF TerminalizePreExecution
  <2>3. QED
    BY <2>2 DEF HarnessTypeOK, TypeOK
<1>3. ASSUME NEW q \in planned, ReconcileEffect(q)
      PROVE  FALSE
  <2>1. active' = active \ {q}
    BY <1>3, TerminalSteps DEF TerminalStep
  <2>2. q = p /\ q \in DOMAIN attempts
    BY <1>3, <2>1 DEF ReconcileEffect
  <2>3. QED
    BY <2>1, <2>2 DEF RunInv, OneOutcome
<1>4. ASSUME NEW t \in Threads, NEW e, Reports(t, e)
      PROVE  FALSE
  <2>1. active' = active \/ active' = active \ {job[t]}
    BY <1>4, TerminalWrites DEF Reports, RecordExecutionFailure, ReturnUnsettled, ReturnSettled
  <2>2. job[t] = p
    BY <2>1
  <2>3. QED
    BY <1>4, <2>2, ReportsOwn
<1>5. CASE \/ \E m \in Missions, r \in Routes : Plan(m, r)
           \/ \E q \in planned : Claim(q) \/ BeginExecution(q) \/ Acknowledge(q)
           \/ UNCHANGED lives
  BY <1>5 DEF Plan, Claim, BeginExecution, Acknowledge, lives
<1>6. QED
  BY <1>1, <1>2, <1>3, <1>4, <1>5, PacketSteps

\* A packet that was handed another's envelope and whose request had its
\* effect holds its lease for ever: with the effect it observed its receipt
\* would be untrue, and without one too.
THEOREM MisledPacketsStayLeased == TuraSpec => MisledIsPermanent
<1>1. ASSUME TuraTypeOK, TuraTypeOK', RunInv, TuraInv', [TuraNext]_allVars
      PROVE  \A p \in active : Misled(p) => Misled(p)'
  <2> SUFFICES ASSUME NEW p \in active, Misled(p)
               PROVE  Misled(p)'
    OBVIOUS
  <2>1. [HarnessNext]_harnessVars /\ HarnessTypeOK
    BY <1>1, TuraStepIsHarnessStep DEF TuraTypeOK
  <2>2. Had(p)' /\ effectOf'[p] = effectOf[p]
    BY <1>1, RuntimeDecidesOnce DEF Misled
  <2>3. ~HasNone(p)'
    BY <1>1, <2>2 DEF Had, HasNone, TuraTypeOK
  <2>4. p \in DOMAIN failures' /\ failures'[p] = failures[p]
    BY <1>1, <2>1, FailuresKept DEF Misled
  <2>5. p \in active'
    <3> SUFFICES ASSUME p \notin active'
                 PROVE  FALSE
      OBVIOUS
    <3>1. /\ p \in DOMAIN receipts'
          /\ receipts'[p].state = "SETTLED" => failures[p] \in {receipts'[p].effect, NoEffect}
      BY <1>1, <2>1, FailedLeaseEnds DEF Misled
    <3>2. receipts'[p].state = "SETTLED" /\ receipts'[p].effect = effectOf[p]
      BY <1>1, <2>2, <2>3, <3>1 DEF TuraInv, ReceiptsTruthful
    <3>3. QED
      BY <3>1, <3>2 DEF Misled
  <2>6. QED
    BY <2>2, <2>4, <2>5 DEF Misled
<1>2. TuraTypeOK /\ TuraTypeOK' /\ RunInv /\ TuraInv' /\ [TuraNext]_allVars
        => [\A p \in active : Misled(p) => Misled(p)']_allVars
  BY <1>1
<1>3. QED
  BY <1>2, TuraTypeAndRun, TuraAlways, PTL DEF TuraSpec, MisledIsPermanent
=============================================================================
