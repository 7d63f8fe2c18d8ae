--------------------------- MODULE LifecycleProofs ---------------------------
(***************************************************************************)
(* Harness implements TaskLifecycle: every step of the harness moves at    *)
(* most one packet, and that one along an edge of its life.                *)
(***************************************************************************)
EXTENDS HarnessProofs

\* The phase a packet is in, read off its records.
PhaseTable(p) ==
  /\ p \in DOMAIN receipts => Phase(p) = receipts[p].status
  /\ p \in DOMAIN attempts \ DOMAIN receipts => Phase(p) = "UNSETTLED"
  /\ p \in DOMAIN failures \ (DOMAIN attempts \cup DOMAIN receipts) => Phase(p) = "UNRESOLVED"
  /\ p \in started \ (DOMAIN attempts \cup DOMAIN failures \cup DOMAIN receipts) =>
       Phase(p) = "EXECUTING"
  /\ p \in claims \ (started \cup DOMAIN receipts) => Phase(p) = "CLAIMED"
  /\ p \notin claims => Phase(p) = "PLANNED"

\* What is recorded of p, the same before and after.
SameRecords(p) ==
  /\ (p \in claims) <=> (p \in claims')
  /\ (p \in started) <=> (p \in started')
  /\ (p \in DOMAIN attempts) <=> (p \in DOMAIN attempts')
  /\ (p \in DOMAIN failures) <=> (p \in DOMAIN failures')
  /\ (p \in DOMAIN receipts) <=> (p \in DOMAIN receipts')
  /\ p \in DOMAIN receipts => receipts'[p] = receipts[p]

LEMMA PhasesBefore == ASSUME TypeOK, NEW p PROVE PhaseTable(p)
<1>1. p \notin claims => p \notin started \cup DOMAIN attempts \cup DOMAIN failures \cup DOMAIN receipts
  BY DEF TypeOK
<1>2. p \in DOMAIN attempts \cup DOMAIN failures => p \in started
  BY DEF TypeOK
<1>3. QED
  BY <1>1, <1>2 DEF PhaseTable, Phase

LEMMA PhasesAfter == ASSUME TypeOK', NEW p PROVE PhaseTable(p)'
<1>1. p \notin claims' =>
        p \notin started' \cup DOMAIN attempts' \cup DOMAIN failures' \cup DOMAIN receipts'
  BY DEF TypeOK
<1>2. p \in DOMAIN attempts' \cup DOMAIN failures' => p \in started'
  BY DEF TypeOK
<1>3. QED
  BY <1>1, <1>2 DEF PhaseTable, Phase

LEMMA PhaseKept == ASSUME NEW p, SameRecords(p) PROVE Phase(p)' = Phase(p)
  BY DEF SameRecords, Phase

\* A step that writes of p alone changes the phase of p alone.
LEMMA OnePacketMoves ==
  ASSUME UNCHANGED planned, NEW p \in planned, NEW to, Phase(p)' = to,
         \A q \in planned \ {p} : SameRecords(q)
  PROVE  [q \in planned |-> Phase(q)]' = [[q \in planned |-> Phase(q)] EXCEPT ![p] = to]
  BY PhaseKept

LEMMA NobodyMoves ==
  ASSUME UNCHANGED planned, \A q \in planned : SameRecords(q)
  PROVE  [q \in planned |-> Phase(q)]' = [q \in planned |-> Phase(q)]
  BY PhaseKept

-----------------------------------------------------------------------------
(* The steps.                                                              *)

\* Each packet step of the harness, as an action of TaskLifecycle.
lifeStep == [Lifecycle!Next]_(Lifecycle!lifeVars)

LEMMA PlanLife ==
  ASSUME TypeOK, TypeOK', NEW m \in Missions, NEW r \in Routes, Plan(m, r)
  PROVE  lifeStep
<1>1. /\ \A q : SameRecords(q)
      /\ UNCHANGED <<active, acked, claims>>
  BY DEF Plan, SameRecords, effectVars
<1>2. PICK p : planned' = planned \cup {p}
  BY DEF Plan
<1>3. CASE p \in planned
  BY <1>1, <1>2, <1>3, NobodyMoves DEF lifeStep, Lifecycle!lifeVars
<1>4. CASE p \notin planned
  <2>1. Phase(p)' = "PLANNED"
    BY <1>1, <1>4, PhasesAfter DEF PhaseTable, TypeOK
  <2>2. \A q : Phase(q)' = Phase(q)
    BY <1>1, PhaseKept
  <2>3. [q \in planned |-> Phase(q)]' =
          [u \in planned \cup {p} |-> IF u = p THEN "PLANNED" ELSE [q \in planned |-> Phase(q)][u]]
    BY <1>2, <1>4, <2>1, <2>2
  <2>4. Lifecycle!Plan(p)
    BY <1>1, <1>4, <2>3 DEF Lifecycle!Plan
  <2>5. QED
    BY <1>2, <2>4 DEF lifeStep, Lifecycle!Next
<1>5. QED
  BY <1>3, <1>4

LEMMA ClaimLife ==
  ASSUME TypeOK, TypeOK', NEW p \in planned, Claim(p)
  PROVE  lifeStep
<1>1. Phase(p) = "PLANNED"
  BY PhasesBefore DEF Claim, PhaseTable
<1>2. Phase(p)' = "CLAIMED"
  BY PhasesAfter DEF Claim, PhaseTable, TypeOK
<1>3. \A q \in planned \ {p} : SameRecords(q)
  BY DEF Claim, SameRecords, effectVars
<1>4. [q \in planned |-> Phase(q)]' = [[q \in planned |-> Phase(q)] EXCEPT ![p] = "CLAIMED"]
  BY <1>2, <1>3, OnePacketMoves DEF Claim
<1>5. Lifecycle!Claim(p)
  BY <1>1, <1>4 DEF Lifecycle!Claim, Claim
<1>6. QED
  BY <1>5 DEF lifeStep, Lifecycle!Next

\* A step along an edge that keeps the lease.
LEMMA Advances ==
  ASSUME UNCHANGED <<planned, active, acked>>, NEW p \in planned,
         NEW to \in {"EXECUTING", "UNSETTLED", "UNRESOLVED"},
         <<Phase(p), to>> \in Lifecycle!Goes, Phase(p)' = to,
         \A q \in planned \ {p} : SameRecords(q)
  PROVE  lifeStep
<1>1. [q \in planned |-> Phase(q)]' = [[q \in planned |-> Phase(q)] EXCEPT ![p] = to]
  BY OnePacketMoves
<1>2. Lifecycle!Advance(p, to)
  BY <1>1 DEF Lifecycle!Advance
<1>3. QED
  BY <1>2 DEF lifeStep, Lifecycle!Next

\* A step along an edge to a terminal status, and the end of the lease.
LEMMA Terminates ==
  ASSUME UNCHANGED <<planned, acked>>, NEW p \in planned, NEW to \in Status,
         <<Phase(p), to>> \in Lifecycle!Ends, Phase(p)' = to, active' = active \ {p},
         \A q \in planned \ {p} : SameRecords(q)
  PROVE  lifeStep
<1>1. [q \in planned |-> Phase(q)]' = [[q \in planned |-> Phase(q)] EXCEPT ![p] = to]
  BY OnePacketMoves
<1>2. Lifecycle!Terminate(p, to)
  BY <1>1 DEF Lifecycle!Terminate
<1>3. to \in Lifecycle!Terminal
  BY DEF Status, Lifecycle!Terminal
<1>4. QED
  BY <1>2, <1>3 DEF lifeStep, Lifecycle!Next

LEMMA BeginLife ==
  ASSUME TypeOK, TypeOK', NEW p \in planned, BeginExecution(p)
  PROVE  lifeStep
<1>1. Phase(p) = "CLAIMED"
  BY PhasesBefore DEF BeginExecution, ClaimCurrent, PhaseTable, TypeOK
<1>2. Phase(p)' = "EXECUTING"
  BY PhasesAfter DEF BeginExecution, PhaseTable, TypeOK, effectVars
<1>3. \A q \in planned \ {p} : SameRecords(q)
  BY DEF BeginExecution, SameRecords, effectVars, leaseVars
<1>4. UNCHANGED <<planned, active, acked>>
  BY DEF BeginExecution, leaseVars
<1>5. QED
  BY <1>1, <1>2, <1>3, <1>4, Advances DEF Lifecycle!Goes

\* The attempt in the hands of t ends without a result, or with one that is
\* settled or not.
LEMMA ReportLife ==
  ASSUME HarnessTypeOK, TypeOK', RunInv, NEW t \in Threads, NEW e, Reports(t, e),
         NEW p, p = job[t]
  PROVE  lifeStep
<1> USE DEF leaseVars
<1>1. p \in planned
  BY DEF Reports, HarnessTypeOK
<1>2. Phase(p) = "EXECUTING"
  BY ReportsOwn, PhasesBefore DEF PhaseTable, HarnessTypeOK
<1>3. CASE RecordExecutionFailure(p, e)
  <2>1. /\ DOMAIN failures' = DOMAIN failures \cup {p}
        /\ UNCHANGED <<planned, claims, active, started, attempts, receipts, acked>>
    BY <1>3 DEF RecordExecutionFailure, Put
  <2>2. Phase(p)' = "UNRESOLVED"
    BY <2>1, ReportsOwn, PhasesAfter DEF PhaseTable
  <2>3. \A q \in planned \ {p} : SameRecords(q)
    BY <2>1 DEF SameRecords
  <2>4. QED
    BY <1>1, <1>2, <2>1, <2>2, <2>3, Advances DEF Lifecycle!Goes
<1>4. CASE ReturnUnsettled(p, e)
  <2>1. /\ DOMAIN attempts' = DOMAIN attempts \cup {p}
        /\ UNCHANGED <<planned, claims, active, started, failures, receipts, acked>>
    BY <1>4 DEF ReturnUnsettled, Put
  <2>2. Phase(p)' = "UNSETTLED"
    BY <2>1, ReportsOwn, PhasesAfter DEF PhaseTable
  <2>3. \A q \in planned \ {p} : SameRecords(q)
    BY <2>1 DEF SameRecords
  <2>4. QED
    BY <1>1, <1>2, <2>1, <2>2, <2>3, Advances DEF Lifecycle!Goes
<1>5. CASE ReturnSettled(p, e)
  <2>1. /\ active' = active \ {p}
        /\ DOMAIN receipts' = DOMAIN receipts \cup {p}
        /\ receipts'[p].status = "SUCCEEDED"
        /\ \A q \in DOMAIN receipts : receipts'[q] = receipts[q]
    BY <1>5, TerminalWrites DEF ReturnSettled
  <2>2. /\ DOMAIN attempts' = DOMAIN attempts \cup {p}
        /\ UNCHANGED <<planned, claims, started, failures, acked>>
    BY <1>5 DEF ReturnSettled, Put
  <2>3. Phase(p)' = "SUCCEEDED"
    BY <2>1, PhasesAfter DEF PhaseTable
  <2>4. \A q \in planned \ {p} : SameRecords(q)
    BY <2>1, <2>2 DEF SameRecords
  <2>5. QED
    BY <1>1, <1>2, <2>1, <2>2, <2>3, <2>4, Terminates DEF Lifecycle!Ends, Status
<1>6. QED
  BY <1>3, <1>4, <1>5 DEF Reports

LEMMA RejectLife ==
  ASSUME TypeOK, TypeOK', NEW p \in planned, TerminalizePreExecution(p)
  PROVE  lifeStep
<1>1. /\ p \in active /\ p \notin started /\ p \notin DOMAIN receipts
      /\ active' = active \ {p}
      /\ DOMAIN receipts' = DOMAIN receipts \cup {p}
      /\ receipts'[p].status = "BLOCKED"
      /\ \A q \in DOMAIN receipts : receipts'[q] = receipts[q]
  BY TerminalWrites DEF TerminalizePreExecution
<1>2. UNCHANGED <<planned, claims, started, attempts, failures, acked>>
  BY DEF TerminalizePreExecution, leaseVars, effectVars
<1>3. Phase(p) = "CLAIMED"
  BY <1>1, PhasesBefore DEF PhaseTable, TypeOK
<1>4. Phase(p)' = "BLOCKED"
  BY <1>1, PhasesAfter DEF PhaseTable
<1>5. \A q \in planned \ {p} : SameRecords(q)
  BY <1>1, <1>2 DEF SameRecords
<1>6. QED
  BY <1>1, <1>2, <1>3, <1>4, <1>5, Terminates DEF Lifecycle!Ends, Status

\* A failure has no result beside it, so its reconciliation ends an attempt
\* that ended without one.
LEMMA ReconcileFailureLife ==
  ASSUME TypeOK, TypeOK', OneOutcome, NEW p \in planned, NEW e, ReconcileFailure(p, e)
  PROVE  lifeStep
<1>1. /\ p \in DOMAIN failures /\ p \notin DOMAIN receipts
      /\ active' = active \ {p}
      /\ DOMAIN receipts' = DOMAIN receipts \cup {p}
      /\ receipts'[p].status = "FAILED"
      /\ \A q \in DOMAIN receipts : receipts'[q] = receipts[q]
  BY TerminalWrites DEF ReconcileFailure, ReconcileSettled, ReconcileAbsent
<1>2. UNCHANGED <<planned, claims, started, attempts, failures, acked>>
  BY DEF ReconcileFailure, leaseVars
<1>3. Phase(p) = "UNRESOLVED"
  BY <1>1, PhasesBefore DEF PhaseTable, OneOutcome
<1>4. Phase(p)' = "FAILED"
  BY <1>1, PhasesAfter DEF PhaseTable
<1>5. \A q \in planned \ {p} : SameRecords(q)
  BY <1>1, <1>2 DEF SameRecords
<1>6. QED
  BY <1>1, <1>2, <1>3, <1>4, <1>5, Terminates DEF Lifecycle!Ends, Status

LEMMA ReconcileEffectLife ==
  ASSUME TypeOK, TypeOK', NEW p \in planned, ReconcileEffect(p)
  PROVE  lifeStep
<1>1. /\ p \in DOMAIN attempts /\ p \notin DOMAIN receipts
      /\ active' = active \ {p}
      /\ DOMAIN receipts' = DOMAIN receipts \cup {p}
      /\ receipts'[p].status = "SUCCEEDED"
      /\ \A q \in DOMAIN receipts : receipts'[q] = receipts[q]
  BY TerminalWrites DEF ReconcileEffect
<1>2. /\ DOMAIN attempts' = DOMAIN attempts
      /\ UNCHANGED <<planned, claims, started, failures, acked>>
  BY DEF ReconcileEffect, leaseVars
<1>3. Phase(p) = "UNSETTLED"
  BY <1>1, PhasesBefore DEF PhaseTable
<1>4. Phase(p)' = "SUCCEEDED"
  BY <1>1, PhasesAfter DEF PhaseTable
<1>5. \A q \in planned \ {p} : SameRecords(q)
  BY <1>1, <1>2 DEF SameRecords
<1>6. QED
  BY <1>1, <1>2, <1>3, <1>4, <1>5, Terminates DEF Lifecycle!Ends, Status

LEMMA AcknowledgeLife ==
  ASSUME TypeOK, NEW p \in planned, Acknowledge(p)
  PROVE  lifeStep
<1>1. \A q \in planned : SameRecords(q)
  BY DEF Acknowledge, SameRecords, leaseVars, effectVars
<1>2. [q \in planned |-> Phase(q)]' = [q \in planned |-> Phase(q)]
  BY <1>1, NobodyMoves DEF Acknowledge, leaseVars
<1>3. Phase(p) \in Lifecycle!Terminal
  BY PhasesBefore DEF Acknowledge, PhaseTable, TypeOK, Receipt, Status, Lifecycle!Terminal
<1>4. Lifecycle!Acknowledge(p)
  BY <1>2, <1>3 DEF Lifecycle!Acknowledge, Acknowledge
<1>5. QED
  BY <1>4 DEF lifeStep, Lifecycle!Next

LEMMA NothingRecorded == ASSUME UNCHANGED lives PROVE lifeStep
<1>1. \A q \in planned : SameRecords(q)
  BY DEF lives, SameRecords
<1>2. QED
  BY <1>1, NobodyMoves DEF lives, lifeStep, Lifecycle!lifeVars

LEMMA InitLife == ASSUME HarnessInit PROVE Lifecycle!Init
  BY DEF HarnessInit, Init, TaskInit, Lifecycle!Init

LEMMA NextLife ==
  ASSUME HarnessTypeOK, HarnessTypeOK', RunInv, [HarnessNext]_harnessVars
  PROVE  lifeStep
<1>1. TypeOK /\ TypeOK' /\ OneOutcome
  BY DEF HarnessTypeOK, RunInv
<1>2. QED
  BY <1>1, PacketSteps, PlanLife, ClaimLife, BeginLife, ReportLife, RejectLife,
     ReconcileFailureLife, ReconcileEffectLife, AcknowledgeLife, NothingRecorded

\* Whichever threads and calls take part, a packet lives as SPEC.md 6.1 says:
\* it is rejected before its execution or executed once, what became of it is
\* settled once and keeps its first outcome, and its lease ends with that.
THEOREM HarnessImplementsLifecycle == HarnessSpec => ImplementsLifecycle
<1>1. HarnessInit => Lifecycle!Init
  BY InitLife
<1>2. HarnessTypeOK /\ HarnessTypeOK' /\ RunInv /\ [HarnessNext]_harnessVars
        => [Lifecycle!Next]_(Lifecycle!lifeVars)
  BY NextLife DEF lifeStep
<1>3. QED
  BY <1>1, <1>2, HarnessTypeCorrect, RunAlways, PTL
     DEF HarnessSpec, ImplementsLifecycle, Lifecycle!Spec
=============================================================================
