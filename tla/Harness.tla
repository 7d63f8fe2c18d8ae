------------------------------- MODULE Harness -------------------------------
(***************************************************************************)
(* CollaborationHarness.execute over the store.  Threads call execute, for *)
(* the same packet possibly from several of them; nobody else begins an    *)
(* execution, rejects a packet, or records a result or a failure.  The     *)
(* host plans, claims, reconciles and moves missions on through the        *)
(* harness, at any time.                                                   *)
(*                                                                         *)
(* A thread may be preempted between two calls of the store.  What the     *)
(* executor does while it runs is external; that it returned or raised is  *)
(* seen by nobody before the store is told, so it is one step with that.   *)
(***************************************************************************)
EXTENDS TaskStore

CONSTANT Threads   \* threads that call execute

VARIABLES
  at,    \* where each thread is in execute
  job,   \* the packet it was called for, NoEffect when it is idle
  ran    \* packet -> how often its executor was called

threadVars == <<at, job, ran>>
harnessVars == <<vars, threadVars>>

HarnessTypeOK ==
  /\ TypeOK
  /\ at \in [Threads -> {"idle", "called", "rejecting", "executing"}]
  /\ job \in [Threads -> planned \cup {NoEffect}]
  /\ \A t \in Threads : at[t] # "idle" => job[t] \in planned
  /\ ran \in [DOMAIN ran -> Nat]
  /\ DOMAIN ran \subseteq started

HarnessInit ==
  /\ Init
  /\ at = [t \in Threads |-> "idle"]
  /\ job = [t \in Threads |-> NoEffect]
  /\ ran = <<>>

Goes(t, from, to) ==
  /\ at[t] = from
  /\ at' = [at EXCEPT ![t] = to]

\* The thread's call ends: execute returns a receipt or raises.
Ends(t, from) ==
  /\ Goes(t, from, "idle")
  /\ job' = [job EXCEPT ![t] = NoEffect]
  /\ UNCHANGED ran

-----------------------------------------------------------------------------

\* execute is called with a packet and its lease; every call of the store
\* refuses another lease, so with one the call has no effect.
Execute(t, p) ==
  /\ Goes(t, "idle", "called")
  /\ job' = [job EXCEPT ![t] = p]
  /\ UNCHANGED <<vars, ran>>

\* The executor given is not the packet's: the packet is rejected.
WrongExecutor(t) ==
  /\ Goes(t, "called", "rejecting")
  /\ UNCHANGED <<vars, job, ran>>

TimesRun(p) == IF p \in DOMAIN ran THEN ran[p] ELSE 0

\* begin_execution succeeds, and the executor is called.
Begin(t) ==
  /\ Goes(t, "called", "executing")
  /\ BeginExecution(job[t])
  /\ ran' = Put(ran, job[t], TimesRun(job[t]) + 1)
  /\ UNCHANGED job

\* _validate_packet raises MISSION_READBACK_INDETERMINATE before it looks at
\* the packet's predicate, route and lease.
Indeterminate(p) ==
  /\ revision[p.mission] = p.revision
  /\ \E q \in Predicates : truth[p.mission][q] = "INDETERMINATE"

BeginDuplicate(p) == p \in started \cup DOMAIN receipts

\* begin_execution raises STALE_IDENTITY: the packet is to be rejected.
BeginStale(t) ==
  /\ Goes(t, "called", "rejecting")
  /\ ~BeginDuplicate(job[t]) /\ ~Indeterminate(job[t]) /\ ~ClaimCurrent(job[t])
  /\ UNCHANGED <<vars, job, ran>>

\* begin_execution raises something else, and execute raises it too: the
\* packet was begun or is finished, or the mission has to be read back first.
BeginRaises(t) ==
  /\ Ends(t, "called")
  /\ BeginDuplicate(job[t]) \/ Indeterminate(job[t])
  /\ UNCHANGED vars

Reject(t) ==
  /\ Ends(t, "rejecting")
  /\ TerminalizePreExecution(job[t])

\* terminalize_pre_execution raises: the packet has no lease, or was begun or
\* rejected by another thread between the two calls.
RejectRaises(t) ==
  /\ Ends(t, "rejecting")
  /\ job[t] \in started \/ job[t] \notin active
  /\ UNCHANGED vars

-----------------------------------------------------------------------------
(* The executor ends.                                                      *)

\* It returns an ExecutionResult, and execute records it.
ExecutorReturns(t, e) ==
  /\ Ends(t, "executing")
  /\ \/ RejectResult(job[t], e)
     \/ ReturnUnsettled(job[t], e)
     \/ ReturnSettled(job[t], e)

FailureNotRaised(t, e) ==
  /\ at[t] = "executing"
  /\ RecordExecutionFailure(job[t], e)
  /\ UNCHANGED threadVars

\* It signals a failure, raises an Exception or returns something else: an
\* execution failure is recorded, with the effect that the signal names.
ExecutorFails(t, e) ==
  /\ Ends(t, "executing")
  /\ RecordExecutionFailure(job[t], e)

\* A step is unsettled: record_execution raises before it records anything,
\* and execute does not return the result.
ResultLost(t) ==
  /\ Ends(t, "executing")
  /\ ~StepsReconciled(job[t])
  /\ UNCHANGED vars

\* Nothing is recorded for a signal whose failure has a code that only the
\* harness may give (the record's own check raises inside the handler), nor
\* for an interrupt, which the handlers are not for.
FailureLost(t) ==
  /\ Ends(t, "executing")
  /\ UNCHANGED vars

-----------------------------------------------------------------------------

ExecuteStep(t) ==
  \/ WrongExecutor(t)
  \/ Begin(t)
  \/ BeginStale(t)
  \/ BeginRaises(t)
  \/ Reject(t)
  \/ RejectRaises(t)
  \/ \E e \in Effects : ExecutorReturns(t, e)
  \/ \E e \in Effects \cup {NoEffect} : ExecutorFails(t, e)
  \/ ResultLost(t)
  \/ FailureLost(t)

\* What the host and the executors do through the harness.
HostStep ==
  \/ \E m \in Missions, n \in 1..MaxRevision, d \in DeclaredTruths : Register(m, n, d)
  \/ \E m \in Missions, r \in Routes : Dispose(m, r)
  \/ \E m \in Missions, r \in Routes : Plan(m, r)
  \/ \E p \in planned : Claim(p)
  \/ \E p \in planned, e \in StepEffects \cup {NoEffect}, st \in EffectState :
       RecordStepAttempt(p, e, st)
  \/ \E s \in steps, st \in {"NONE", "SETTLED"} : ReconcileStepEffect(s, st)
  \/ \E p \in planned, e \in Effects \cup {NoEffect} : ReconcileFailure(p, e)
  \/ \E p \in planned : ReconcileEffect(p)
  \/ \E p \in planned : Acknowledge(p)
  \/ \E p \in planned, s \in 0..MaxSequence, t \in ReadbackTruths : VerifyMission(p, s, t)
  \/ \E p \in planned : RecordMissionSupersession(p)

HarnessNext ==
  \/ HostStep /\ UNCHANGED threadVars
  \/ \E t \in Threads, p \in planned : Execute(t, p)
  \/ \E t \in Threads : ExecuteStep(t)

HarnessSpec == HarnessInit /\ [][HarnessNext]_harnessVars

-----------------------------------------------------------------------------
(* Properties.                                                             *)

\* The executor of a packet is called at most once, by whichever thread began
\* it, and never for a packet that was rejected: threads that execute the
\* same packet interleave their calls of begin_execution and
\* terminalize_pre_execution.
ExecutedOnce ==
  /\ \A p \in DOMAIN ran : ran[p] = 1
  /\ \A p \in DOMAIN receipts : receipts[p].status = "BLOCKED" => p \notin DOMAIN ran

\* What an attempt reported: one result or one failure, never both, so through
\* execute a recorded failure ends by its reconciliation only (SPEC.md 6.1).
\* The store does not see to it: record_execution does not look at failures.
OneOutcome == DOMAIN attempts \cap DOMAIN failures = {}

\* An owned effect is accounted for: it is the effect of the owner's result or
\* receipt, or its failure observed it and is not reconciled yet.
OwnedEffectsAccounted ==
  \A e \in DOMAIN owner :
    LET p == owner[e]
    IN  \/ p \in DOMAIN attempts /\ attempts[p].effect = e
        \/ p \in DOMAIN receipts /\ receipts[p].effect = e
        \/ p \in DOMAIN failures \ DOMAIN receipts /\ failures[p] = e

\* A packet that was begun and is in no thread's hands, with nothing on record
\* of what became of it.
Orphaned(p) ==
  /\ p \in started
  /\ \A t \in Threads : ~(at[t] = "executing" /\ job[t] = p)
  /\ p \notin DOMAIN attempts \cup DOMAIN failures \cup DOMAIN receipts

\* A packet that was begun is in the hands of a thread, or what became of it
\* is on record, for one of the harness's reconciliations to end.
NoOrphan == \A p \in started : ~Orphaned(p)

\* There is no way out for an orphan: no call of the harness records or ends
\* it, it keeps its lease, and nothing that shares an item of its scope is
\* claimed ever after (begin_execution, reconcile_failure, reconcile_effect).
OrphanIsPermanent ==
  [][\A p \in started : Orphaned(p) =>
       /\ Orphaned(p)' /\ p \in active'
       /\ \A q \in claims' \ claims : CommonItems(p, q) = {}]_harnessVars

\* Where a packet is in its life.
Phase(p) ==
  CASE p \in DOMAIN receipts -> receipts[p].status
    [] p \in DOMAIN attempts \ DOMAIN receipts -> "UNSETTLED"
    [] p \in DOMAIN failures \ (DOMAIN attempts \cup DOMAIN receipts) -> "UNRESOLVED"
    [] p \in started \ (DOMAIN attempts \cup DOMAIN failures \cup DOMAIN receipts) -> "EXECUTING"
    [] p \in claims \ (started \cup DOMAIN receipts) -> "CLAIMED"
    [] OTHER -> "PLANNED"

Lifecycle == INSTANCE TaskLifecycle WITH
  phase <- [p \in planned |-> Phase(p)],
  leased <- active,
  acknowledged <- acked

\* execute and the reconciliations take every packet through the life cycle
\* of SPEC.md 6.1, whichever threads and calls do it: rejected before its
\* execution or executed once, resolved once, leased until then.
ImplementsLifecycle == Lifecycle!Spec

-----------------------------------------------------------------------------
(* The strengthening that makes them inductive.                            *)

\* A packet in execution was begun, nothing is recorded of it yet, and one
\* thread has it.
RunInv ==
  /\ \A t \in Threads : at[t] = "executing" =>
       /\ job[t] \in started
       /\ job[t] \notin DOMAIN attempts \cup DOMAIN failures \cup DOMAIN receipts
  /\ \A t, u \in Threads :
       at[t] = "executing" /\ at[u] = "executing" /\ job[t] = job[u] => t = u
  /\ \A p \in DOMAIN ran : ran[p] = 1
  /\ OneOutcome
  /\ OwnedEffectsAccounted
=============================================================================
