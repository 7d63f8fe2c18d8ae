# Verification of the collaboration harness

TLA+ specifications of `codex_collaboration_harness`, model-checked with TLC
and proved with TLAPS. The specifications are translated from `core.py`,
`native_tura.py` and `adapters/tura.py` in `src/src/codex_collaboration_harness/`;
paths below are relative to the repository.

## 1. The system

A parent ("Commander") owns a mission: an ordered list of exit predicates and
candidate routes. The harness plans one bounded task packet for the first false
predicate, claims the packet's scope with a lease and compare-and-swap, lets an
executor run it once, reconciles whatever effects it had, writes one terminal
receipt, and delivers that receipt once to the parent, which then reads the
mission back. One `InMemoryStore` holds all state behind one lock; every public
method runs under it (`_atomic`, core.py:169). All concurrency is between
threads that call the store's methods, and between those calls and the
executors, transports and hosts that run outside the lock.

| Component | State | Operations | Interacts with | Modelled in |
| --- | --- | --- | --- | --- |
| Mission state | `_missions`, `_snapshots`, `_route_dispositions`, `_mission_supersessions` | `register_mission`, `record_route_disposition`, `first_false`, `verify_mission`, `record_mission_supersession` | read by `plan`, `claim`, `begin_execution`, every step method | `MissionState`; the last two with their guards on receipts in `TaskStore` |
| Task store | `_scope_versions`, `_packets`, `_leases_by_packet`, `_active_leases`, `_execution_started`, `_attempts`, `_execution_failures`, `_effect_owner`, `_step_*`, `_receipt*` | `claim` to `reconcile_effect` | mission state; continuations need its receipts | `TaskStore`, `ScopeOwnership` |
| Recovery | `_blockers`, `_recovery_*` | `record_blocker`, `admit_recovery`, steps under an admission | reads packets and steps, adds steps | `Recovery` |
| Continuation outbox | `_continuations`, `_acknowledgements`, `_ack_by_packet` | `prepare_continuation` to `reconcile_continuation` | transport and destination (external) | `Continuation`, `ExactlyOnce` |
| `CollaborationHarness` | the callers' program counters | `plan`, `execute`, `continue_and_ack`, `run` | calls the store; executors and transports call back | `Harness`, `TaskLifecycle`, callers in `Continuation`, `Plan` in `TaskStore` |
| Record types | none | field checks, content-addressed ids | everywhere | sets in the modules (section 3) |
| Tura adapter | none of its own; the runtime's requests and effects are external | one client call per execution, its answer mapped to a result or a failure | called by `execute`; calls the transport | `TuraAdapter` |
| Native capsules | files of a directory | publish, load, inspect | other processes through the file system | `Capsule` |
| Skill installation | a directory and its replacement | stage, two renames, verify, roll back | other processes | `SkillInstall` |
| Native dispatch, command line, scripts, example | none | parsing and rendering | | no (section 8) |

What is hard here, and what correctness means for each part:

* **Mission state.** Readbacks arrive out of order or belong to an older
  revision, and old evidence is put aside while revisions go on. What the
  mission holds true must have been read after evidence of that very revision,
  and must not be replaced by an older reading.
* **Task store.** Calls interleave freely, a host may keep a packet or a lease
  for as long as it likes, and the mission may move on under a packet at any
  time. Claims that share scope must be serialised; an effect must be settled
  by one packet; no lease may be released over an unsettled step; what is
  rejected must not have run; every lease should have a way out.
* **Harness.** `execute` is several store calls with an executor in between:
  another thread can come between two of them, the executor can return,
  signal, raise or be interrupted, and a handler can itself raise. A packet
  must run once, have one outcome, and never be left without a record.
* **Recovery.** Proposals, duplicates and escalations alternate; an admission
  is used long after it was given. The budget must hold, and a recovery step
  must stand on an admission that is still good.
* **Continuation.** The request or its answer may be lost or late, callers
  hold copies of a record that a reconciliation made valid again, an interrupt
  passes the handler. The destination must take the turn once.
* **Native capsules.** Publishers and loaders are processes that share a
  directory and no lock, decide on a listing and act later, can fail at any
  file operation and be killed at any moment. A revision has one content, what
  is published can be loaded, and a load is never older than what had been
  returned before it began.
* **Tura adapter.** The runtime may have the effect after the caller gave up;
  the transport may lose, delay, repeat, garble or misdirect an envelope. A
  receipt must be for the effect that the packet's own request had, and an
  effect must not stay with a packet that only was told of it.
* **Skill installation.** A replacement moves the old skill away and the new
  one in, and can fail, be killed or be rolled back between any two renames;
  first installations race. The skill in effect must be on disk as a whole at
  every moment, and be the target once nothing runs.

## 2. Modules

| Module | What it is | Builds on |
| --- | --- | --- |
| `MissionState` | revisions, truth of the predicates, dispositions | |
| `TaskStore` | the task part of the store, every method one action | `MissionState` |
| `ScopeOwnership` | abstract: owners take and give back whole scopes | |
| `Harness` | threads in `execute`, the host beside them | `TaskStore` |
| `TaskLifecycle` | abstract: the life of a packet from its plan to its acknowledgement (SPEC.md 6.1) | |
| `Recovery` | blockers, admissions, recovery steps | `TaskStore` |
| `Continuation` | callers, record and destination of one delivery | |
| `ExactlyOnce` | abstract: one turn, then one acknowledgement | |
| `TuraAdapter` | the adapter as the executor of the threads, with the runtime and its transport | `Harness` |
| `Capsule` | publishers, loaders and the directory of one native task | |
| `SkillInstall` | installing calls and the skills directory | |
| `MCTaskStore`, `MCHarness`, `MCRecovery`, `MCTura` | values for TLC | |
| `MCNative` | one instance of the two parts on the file system | `Capsule`, `SkillInstall` |
| `TaskStoreProofs`, `HarnessProofs`, `LifecycleProofs`, `TuraProofs`, `RecoveryProofs`, `ContinuationProofs`, `CapsuleProofs`, `SkillProofs` | theorems | |

## 3. How the models stand to the code

* **One action per method.** Each public store method is one step, guard and
  writes together, because `_atomic` holds one re-entrant lock. A call the code
  rejects changes nothing and is no step. A call that writes and then raises is
  a step: `RejectResult` (a result bound to another packet, or whose effect has
  an owner, is kept as a failure) and `ReturnUnsettled`. `record_execution` has
  one action per way it ends.
* **`TaskStore` is offered to everybody.** Its `Next` lets any method be called
  at any time for any planned packet. `Harness` restricts begin, reject, result
  and failure to threads that are at that place in `execute`; `Recovery` adds
  its own state. Both are proved to be ways of using the store, so what is
  proved of `TaskStore` holds under them.
* **Identities.** Records are content-addressed (`_stable_id`), so a record is
  its own id. `verify_identity` only rejects. A lease is determined by its
  packet; a call with another lease than the packet's is rejected.
* **Packets.** `[mission, revision, route, versions]`. Predicate, scope,
  executor and the texts follow from the route, which `_validate_packet`
  compares. All revisions of all missions share the constant predicates and
  routes; that a revision with other content is refused under the same number
  only rejects.
* **Truth.** `truth` is what `first_false` would read: the snapshot of the
  current revision, or the declared flags. A new revision starts without a
  snapshot, since snapshots are found by mission and revision.
* **Readback and supersession.** `VerifyMission` takes a readback through an
  acknowledged packet of the mission's current revision, and
  `RecordMissionSupersession` puts one of an older revision aside. A supersession is
  the pair of the packet and the revision current when it was recorded. The
  `MissionVerification` record that `verify_mission` keeps follows from the
  readback, and no method reads it to decide anything.
* **Planning.** `plan` is several store calls. It is one action here: `claim`
  checks again that the packet is current (revision, first false predicate,
  route not disposed) and compares every scope version, and dispositions and
  revisions never go back, so a packet that mixes two moments and is claimed
  all the same equals one that the single step would have built at the moment
  of the claim. Packets that claim refuses are in no other method's reach.
* **Steps.** A step is `[packet, effect, state]`. Steps of a packet without an
  effect are one record: nothing tells them apart but their wording. In
  `Recovery` a recovery step has its parent, proposal and action beside it.
* **Proposals.** `admit_recovery` compares eight fields of a proposal and two
  of its blocker with the packet. What a comparison gives is a reason code, and
  a proposal carries the set of those that hold against it; the reasons that
  depend on the store (unsettled steps, budget, fingerprint) are computed. A
  proposal's actions are the tuple `action_graph`, which may be in any order and
  repeat an action; its digest goes into the fingerprint (core.py:747, 934), so
  the same actions reordered or repeated are a new fingerprint, and admitted.
* **Executors.** External. What an executor does between `begin_execution` and
  its return is not seen by the store, so its return and the call that records
  it are one step. Its steps are recorded by `RecordStepAttempt` of the host,
  at any time.
* **Tura adapter.** The request is built from the packet and its lease, so the
  identity fields of an envelope stand for the packet whose request it answers.
  Of its content the model keeps what the code tells apart: result, failure or
  no envelope at all, whose it is, the effect it names and, in a result, its
  state; a failure's effect state goes no further in the code either. The
  runtime gives a request at most one effect id, of its own, decides once
  whether the effect happens, at any time, and its envelopes do not lie. A host
  receipts what it can prove (`Proved`): the harness asks for a proof digest,
  which it cannot check (SPEC.md, 8.7).
* **Destination.** External. It keeps requests under way, commits or loses
  them, and does not deduplicate. An absence proof is authoritative: it can be
  read only when no turn is committed and none is under way. A convergence
  proof needs a committed turn.
* **Delivery.** `Acknowledge` in `TaskStore` is a receipt's acknowledgement as
  the tasks see it; `Continuation` has the delivery of one receipt in full.
  Continuations of different receipts share nothing. `RecoverInterrupted` is
  `mark_delivery_unsettled` called on the store by the host: no method of
  `CollaborationHarness` does it.
* **Capsules.** One step is one operation on the task's directory: a listing
  with the decision taken on it, `mkstemp`, the write with its `fsync` and
  `chmod`, the link, the unlink. A capsule's file name is a digest of bytes
  that the input determines, so a name stands for an input, and an inode for
  the publisher that wrote it; the link count of an inode is 2 as long as the
  temporary file is there. A failed link and the unlink that follows are one
  step: until the unlink the directory is as before the link was tried; that the
  unlink itself raises is not modelled. What raises before `mkstemp` or after it
  is `Raise`, with the `finally` clause; a killed process (`Kill`) runs none. `before` is history: the publishers that
  had returned when a call began. Capsules with legacy names, whose revision is
  read from the file, are left out, and so is power failure.
  `inspect_native_tura_packets` only reads and decides nothing for the others.
* **Skills.** One step is one operation on the skills directory: looking at the
  target, making the staging directory, writing it, each rename, each removal.
  A version stands for the files of a skill. `adopted` is history: the version
  last put in place over nothing, or verified. A call raises at most one error
  that the directory does not explain, none more while it rolls back. `Alone`
  (a replacement runs while no other call does) is the operator's discipline:
  nothing in the code enforces it, and without it `SkillNeverLost` fails after
  12 steps, when a replacement that failed rolls back over a target that another
  call has verified in the meantime and returned on.

## 4. Runs

| Run | Instance | Shows |
| --- | --- | --- |
| `leases` | 1 mission, 2 revisions, 2 readbacks, scopes {a} and {a,b}, 2 packets, 1 step | `TypeOK`, `ClaimsSerialised`, `TruthEvidenced`, `SupersededForGood`, `ReadbacksForward`; the store implements `ScopeOwnership` |
| `execute` | 2 threads, 2 packets that can run together, 2 effects, 1 step | `HarnessTypeOK`, `ExecutedOnce`, `OneOutcome`, `OwnedEffectsAccounted`, `EffectSettledOnce`, `SettledEffectKeepsOwner`, `OrphanIsPermanent`; `execute` implements `TaskLifecycle` |
| `tura` | as `execute`, with the runtime and its transport | `TuraTypeOK`, `ReceiptsTruthful`, `MisownedIsProvisional`, `MisledIsPermanent` |
| `recovery` | 1 packet, 2 steps, 2 blockers, 3 proposals of one action or of it twice, budget 3 | `RecoveryTypeOK`, `BudgetKept`, `OneAdmissionPerFingerprint`, `RecoveriesAuthorised`, `NoReceiptOverUnsettledStep`, `WedgeIsPermanent` |
| `delivery` | 3 callers, one interruptible, 3 deliveries | `TypeOK`, `DeliveryExclusive`, `TurnCommittedOnce`, `ImplementsExactlyOnce`, `AcknowledgedIsFinal`, `DeliveryResolves` |
| `native` | 3 publishers of any inputs, one may be killed, 1 loader, 2 revisions, 2 contents; or 2 replacements, one may be killed, 2 installations, 3 versions | `CapsuleTypeOK`, `PublishedReadable`, `PublishedInOrder`, `LoadSeesPublished`, `SequentialPublishersAgree`, `NoStrayTemporaries`, `CapsulesImmutable`; `SkillTypeOK`, `SkillNeverLost`, `InEffectAtRest` |
| `wedge` | 1 mission, 2 revisions, 2 predicates, 2 packets, 2 steps | violates `EveryAttemptHasAWayOut` |
| `orphan` | as `execute` | violates `NoOrphan` |
| `misled` | as `tura` | violates `EveryFailureHasAWayOut` |
| `stale_admission` | as `recovery` | violates `RecoveryAfterReconciliation` |
| `replay` | as `delivery`, proofs of absence may be old | violates `TurnCommittedOnce` |
| `capsule_race` | 2 publishers, none killed | violates `OneInputPerRevision` |

**Bounds.** `MaxPlanned`, `MaxSteps`, `MaxRevision`, `MaxSequence`,
`MaxBlockers`, `MaxProposals` and `MaxDeliveries` bound the runs; nothing in
the code depends on them. Scope conflicts need two packets, over scopes that
overlap in part; effects conflict between two packets and need a second effect
id to tell which one is given back; a mission moves on with a second revision,
a readback or a disposition, and a late readback needs a second sequence number
(an order between three claims is left to the theorem). A misdirected envelope
needs the request of a second packet, and `TuraAdapter` has the bounds of
`execute`, without its readbacks, which decide nothing for the runtime; threads
and, for the runtime, effect ids are interchangeable, so these runs use symmetry
(their properties are invariants, action properties and a refinement of safety,
none of which names a thread or an effect). A second proposal repeats a
fingerprint and a third overspends; two reconciliations reopen a delivery with
three deliveries, and the third caller is one that prepared before either.
The second action graph of `recovery` repeats the action of the first; graphs of
several actions, and the empty one, which is escalated, are left to the theorem.
`native` runs the capsules or the skills, never both in one behaviour: they
share neither files nor variables, so that nothing is lost, and its states are
those of the two parts added up.
`Capsule` has no bounds of its own: a call happens once, so the number of
publishers and loaders bounds a run. Two publishers race and the third is the
one that begins after either returned; two revisions are an older and a newer
one. `SkillInstall` is bounded alike: a replacement dies, another one finds
what it left, and two first installations race for the empty target; three
versions are the old skill and two payloads. Where deadlock is not checked the
system may stop: every bound is reached, every call has returned, or a lease is
held for ever (the findings).

**Fairness.** Only `Continuation!FairSpec` has any: weak fairness of
`Deliver(c)`, the part of `continue_existing` from `begin_delivery` to its
end. A Python thread inside the `try` block keeps running, and `start_turn`
returns or raises; a caller that can be interrupted is excluded from
`DeliveryResolves`. Nothing obliges a host to plan, reconcile or deliver, so
the other specifications have safety only.

## 5. What the violations say

* `wedge`. `reconcile_step_effect` wants a current packet (core.py:1770) and
  every terminal path wants settled steps. Once the mission has a newer
  revision or the route is disposed, an unsettled step keeps its lease for
  ever; `WedgeIsPermanent` is proved.
* `orphan`. `execute` can end a begun attempt with nothing recorded: a settled
  result while a step is unsettled (core.py:2170), or a structured failure with
  a code that only the harness may give, which raises in the handler
  (core.py:2838). Both reconciliations then refuse the packet.
  `OrphanIsPermanent` is proved: the packet keeps its lease, and nothing that
  shares an item of its scope is claimed ever after.
* `misled`. A packet whose request had its effect is handed the envelope of
  another request. The adapter refuses the envelope but keeps the effect it names
  as observed; `reconcile_failure` compares with that one (core.py:2131), refuses
  the true effect, and that there was none cannot be proved. SPEC.md:247 promises
  every admitted attempt a reconciliation path that guesses no effect.
  `MisledIsPermanent` is proved: the packet keeps its lease.
* `stale_admission`. An admission is not checked again when it is used
  (core.py:1720): a step that became unsettled since does not stop a recovery
  step.
* `replay`. Absence proofs name the receipt, destination and request, not the
  delivery (core.py:2522), so one proof reopens a continuation twice, the
  second time after the destination committed. With proofs that are read after
  the delivery they reopen (`FreshReadback`), the same properties hold. What an
  old proof can cost is bounded by two theorems that do not need fresh ones:
  there is one turn at most for each delivery begun (`TurnsWithinDeliveries`),
  and none is sent after the acknowledgement (`AcknowledgementsAreFinal`).
* `capsule_race`. The uniqueness of a revision is checked on the listing
  (native_tura.py:845 to 863), not at the link, whose target name has the
  content's digest in it: publishers with different inputs never collide there.
  Both return, and from then on every load of the task is refused. The loader's
  own check (native_tura.py:955) is why `LoadSeesPublished` holds all the same.
  Only publishers that overlap can disagree (`SequentialPublishersAgree`).

## 6. Proofs

TLAPS checks these for every value of the constants, under the named
assumptions on the constants (`MissionAssumption`, `TaskAssumption`,
`RecoveryAssumption`, `ContinuationAssumption`, `CapsuleAssumption`,
`SkillAssumption`).

* **`TaskStoreProofs`.** `TypeCorrect`. `LeasesSerialised` and
  `StoreImplementsOwnership` from `LeaseInv`: a claim is active exactly until
  its receipt, and each claimed version is below the current one; without the
  second part a claim with old versions could overtake. `EffectsSettledOnce`
  and `SettledEffectsKeepOwner` from `EffectInv`: a settled effect, and the
  effect of a result not yet settled, belong to the packet; the second part is
  what `reconcile_effect` needs when it writes its receipt.
  `TruthAlwaysEvidenced`, `SupersessionsFinal` and `ReadbacksNeverGoBack` by
  `MissionSteps` and `MissionsMoveOn`: acknowledgements stay and revisions only
  grow. `ReceiptsCloseSteps`, `WedgesArePermanent`, and `RejectedPacketsNeverRan`,
  which no run repeats.
* **`HarnessProofs`.** `HarnessUsesStore`: each step of a thread or of the host
  is a store step or leaves the store alone. `PacketsRunOnce`,
  `AttemptsHaveOneOutcome` and `OwnedEffectsAlwaysAccounted` from `RunInv`: a
  packet in execution was begun, has no record yet, and is in the hands of one
  thread. `OrphansArePermanent` rests on `PacketSteps`, the eight ways in which
  a step changes what is recorded of packets: each of them that ends a packet
  asks for a report (`OrphanNotTaken`), a report is made only by the thread
  that holds the packet (`ReportsOwn`), and a claim avoids every active lease
  (`ClaimsAvoidLeases`).
* **`LifecycleProofs`.** `HarnessImplementsLifecycle`. A packet's phase is read
  off the records it has (`Phase`); for each of the ways of `PacketSteps` the
  packet concerned moves along an edge of `TaskLifecycle` and every other one
  keeps its phase (`OnePacketMoves`). The edges that need `RunInv` are the
  reports: the reported packet was executing, not resolved already.
* **`TuraProofs`.** `TuraIsAnExecutor`: each step is one of `Harness` or leaves
  it alone, so the theorems above hold with this executor. `ReceiptsAreTruthful`
  from `TuraInv`: a request is sent once, by the thread that holds the packet,
  and a recorded result has the effect of the packet's own request.
  `MisownedIsAlwaysProvisional` adds `OwnedEffectsAccounted`: an effect owned
  without having been had is named by a failure that has no receipt.
  `MisledPacketsStayLeased` takes the same `PacketSteps`: a failure, once
  recorded, stays (`FailuresKept`), what the runtime decided stays
  (`RuntimeDecidesOnce`), and a lease that ends over a failure ends with a
  receipt for the effect of the failure or for none, both untrue here
  (`FailedLeaseEnds`).
* **`RecoveryProofs`.** `RecoveryUsesStore`, `RecoveryTypeCorrect`,
  `FingerprintsAdmittedOnce` and `RecoveryStepsAuthorised` from `RecoveryInv`:
  the stored fingerprints are those of the admitted proposals, and an admission
  is never taken back. `BudgetAlwaysKept` from `ChargeInv`: the units granted to
  a packet, one for each admitted proposal and each unit of its budget, are as
  many as the running total that `admit_recovery` reads. The units are a set, so
  that an admission adds a disjoint one and its cardinality is the sum, without
  an induction over the admissions.
* **`ContinuationProofs`.** `OneCallerDelivers`, `TurnsWithinDeliveries` and
  `AcknowledgementsAreFinal` hold whatever proofs the host presents
  (`DeliveryInv`; `SendInv`: turns and requests under way are no more than the
  deliveries begun, fewer while a caller is about to send). `TurnsCommittedOnce` and
  `DeliveryImplementsExactlyOnce` are proved with `FreshReadback` (`OnceInv`:
  as long as the continuation can still be delivered, no request is under way
  and no turn is committed).
* **`CapsuleProofs`.** `CapsuleTypeCorrect`. `PublishedStaysReadable`,
  `TemporariesAccounted` and `CapsulesKeepTheirFile` from `DirectoryInv`: an
  inode that has a capsule name was written by a publisher past its link, so
  no later `mkstemp` gives it a second name. `FollowUpsRaiseTheRevision` and
  `LoadsAreCurrent` from `OrderInv`: who had returned before a call began is
  still there when the call lists, and what the call takes from the listing
  carries over to its link or its read. `SequentialPublishersAlwaysAgree` is a
  part of the same invariant: a publisher that finds its own input already there
  and one that links it both compared it with all that had returned.
* **`SkillProofs`.** `SkillTypeCorrect`; `SkillsNeverLost` and
  `InEffectWhenAtRest` from `OneReplacer` and `InstallInv`: while a replacement
  has the version in effect away, its backup, or that of a call that died, holds
  it; in every other state it is the target or such a call's backup.

All strengthenings were checked as invariants by TLC on the runs' instances.

**Only model-checked:** `DeliveryResolves`, which is liveness under fairness and
out of the prover's reach. Every other property of the passing runs is stated
by a theorem.

## 7. Plan

Every component with state of its own is modelled, with the theorems above.
What could still be added, in order of use:

1. Replacements that overlap, once the code says what it promises then.
2. Steps of one admission: no document says how many there may be
   (core.py:1720), so there is nothing to state yet.

## 8. Not modelled

* Native dispatch, context contracts and terminal callback parsing, the native
  command line: validation and rendering of one document at a time, without
  state or concurrency.
* Build and release scripts and the example: run once, outside the system.
* The field checks of the records: they only reject, and are the sets that the
  constants range over.
* The wire forms of the Tura adapter: an encoding that loses a field is out of
  this model's sight.
* Power failure (the `fsync` calls), capsules with legacy names,
  `inspect_native_tura_packets`, which only reads.
* Two replacements of a skill at once, and a second error inside a rollback.
