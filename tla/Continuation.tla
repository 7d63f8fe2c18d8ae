---------------------------- MODULE Continuation ----------------------------
(***************************************************************************)
(* The delivery of one terminal receipt to its destination: the            *)
(* continuation methods of InMemoryStore, and the callers of               *)
(* CollaborationHarness.continue_and_ack, continue_existing and            *)
(* reconcile_continuation that race for them.  Continuations of different  *)
(* receipts share no state.                                                *)
(*                                                                         *)
(* Each store method is one step (@_atomic); a caller may be preempted     *)
(* between two of them, and the transport is called between two of them.   *)
(* A continuation is compared by value, and all but its state is derived   *)
(* from the receipt, so a caller's copy is current exactly when the state  *)
(* is the one the caller expects.                                          *)
(*                                                                         *)
(* The destination is external.  A turn request may be lost, committed     *)
(* late, or committed and its answer lost, and is not deduplicated.  A     *)
(* proof of absence is authoritative: it is given when no turn is          *)
(* committed and no request is under way.                                  *)
(***************************************************************************)
EXTENDS Naturals, FiniteSets

CONSTANTS
  Callers,        \* threads that deliver the continuation
  Interruptible,  \* callers that an interrupt may end inside start_turn
  FreshReadback,  \* the host presents no absence proof older than the delivery
  MaxDeliveries   \* bound: deliveries begun in a run

ASSUME ContinuationAssumption ==
  /\ Interruptible \subseteq Callers
  /\ FreshReadback \in BOOLEAN
  /\ MaxDeliveries \in Nat

ContinuationState ==
  {"PREPARED", "DELIVERY_STARTED", "DELIVERY_UNSETTLED", "ACKNOWLEDGED"}

\* Where a caller is: between prepare_continuation and begin_delivery, or
\* from begin_delivery until continue_existing returns or raises.
Preparing == {"prepared", "validated", "resumed"}
Delivering == {"begun", "waiting", "converged", "failed"}

VARIABLES
  state,       \* state of the record in _continuations, "ABSENT" without one
  caller,      \* where each caller is
  deliveries,  \* deliveries begun so far
  acks,        \* records in _acknowledgements
  requests,    \* turn requests sent that the destination has not seen yet
  turns,       \* turns the destination has committed
  absences     \* absence proofs given, by the delivery each was read after

storeVars == <<state, deliveries, acks>>
destinationVars == <<requests, turns, absences>>
vars == <<storeVars, caller, destinationVars>>

TypeOK ==
  /\ state \in ContinuationState \cup {"ABSENT"}
  /\ caller \in [Callers -> Preparing \cup Delivering \cup {"idle", "dead"}]
  /\ deliveries \in Nat
  /\ acks \in {0, 1}
  /\ requests \in Nat
  /\ turns \in Nat
  /\ absences \subseteq 1..deliveries

Init ==
  /\ state = "ABSENT"
  /\ caller = [c \in Callers |-> "idle"]
  /\ deliveries = 0
  /\ acks = 0
  /\ requests = 0
  /\ turns = 0
  /\ absences = {}

Moves(c, from, to) ==
  /\ caller[c] = from
  /\ caller' = [caller EXCEPT ![c] = to]

-----------------------------------------------------------------------------
(* continue_and_ack and continue_existing, up to the delivery.             *)

\* prepare_continuation: a first record, or the one still prepared.
PrepareContinuation(c) ==
  /\ Moves(c, "idle", "prepared")
  /\ state \in {"ABSENT", "PREPARED"}
  /\ state' = "PREPARED"
  /\ UNCHANGED <<deliveries, acks, destinationVars>>

\* validate_prepared_continuation
ValidatePrepared(c) ==
  /\ Moves(c, "prepared", "validated")
  /\ state = "PREPARED"
  /\ UNCHANGED <<storeVars, destinationVars>>

\* transport.resume returned, and validate_resume.
ValidateResume(c) ==
  /\ Moves(c, "validated", "resumed")
  /\ state = "PREPARED"
  /\ UNCHANGED <<storeVars, destinationVars>>

\* A check fails because the continuation is not prepared any more, or
\* transport.resume raises.  Nothing is recorded.
Abandon(c) ==
  /\ caller[c] \in Preparing
  /\ state # "PREPARED" \/ caller[c] = "validated"
  /\ caller' = [caller EXCEPT ![c] = "idle"]
  /\ UNCHANGED <<storeVars, destinationVars>>

AnyUnacknowledged == state # "ACKNOWLEDGED"

MayBegin == state = "PREPARED"

\* begin_delivery
BeginDelivery(c) ==
  /\ Moves(c, "resumed", "begun")
  /\ MayBegin
  /\ deliveries < MaxDeliveries
  /\ state' = "DELIVERY_STARTED"
  /\ deliveries' = deliveries + 1
  /\ UNCHANGED <<acks, destinationVars>>

-----------------------------------------------------------------------------
(* The delivery: the try block of continue_existing.                       *)

\* transport.start_turn sends the request ...
StartTurn(c) ==
  /\ Moves(c, "begun", "waiting")
  /\ requests' = requests + 1
  /\ UNCHANGED <<storeVars, turns, absences>>

\* ... and returns the proof of a completed turn ...
TurnReturns(c) ==
  /\ Moves(c, "waiting", "converged")
  /\ turns > 0
  /\ UNCHANGED <<storeVars, destinationVars>>

\* ... or raises, whatever became of the request.  A proof that does not bind
\* the request, or of no completed turn, makes the acknowledgement raise.
TurnRaises(c) ==
  /\ Moves(c, "waiting", "failed")
  /\ UNCHANGED <<storeVars, destinationVars>>

AnyState(expected) ==
  /\ state' = "ACKNOWLEDGED"
  /\ acks' = acks + 1

\* _acknowledge_delivery
AcknowledgeDelivery(expected) ==
  /\ state = expected
  /\ state' = "ACKNOWLEDGED"
  /\ acks' = acks + 1

\* acknowledge_after_convergence
AcknowledgeAfterConvergence(c) ==
  /\ Moves(c, "converged", "idle")
  /\ AcknowledgeDelivery("DELIVERY_STARTED")
  /\ UNCHANGED <<deliveries, destinationVars>>

NotMarked(c) ==
  /\ Moves(c, "failed", "idle")
  /\ UNCHANGED <<storeVars, destinationVars>>

\* mark_delivery_unsettled, in the handler of continue_existing.
MarkDeliveryUnsettled(c) ==
  /\ Moves(c, "failed", "idle")
  /\ state = "DELIVERY_STARTED"
  /\ state' = "DELIVERY_UNSETTLED"
  /\ UNCHANGED <<deliveries, acks, destinationVars>>

\* The handler is for Exception: an interrupt or an exit raised inside
\* start_turn passes it, and leaves the delivery started.
Interrupt(c) ==
  /\ c \in Interruptible
  /\ Moves(c, "waiting", "dead")
  /\ UNCHANGED <<storeVars, destinationVars>>

\* mark_delivery_unsettled, called on the store by the host for a delivery
\* whose caller is gone: no method of CollaborationHarness does it.
RecoverInterrupted ==
  /\ state = "DELIVERY_STARTED"
  /\ \A c \in Callers : caller[c] \notin Delivering
  /\ state' = "DELIVERY_UNSETTLED"
  /\ UNCHANGED <<deliveries, acks, caller, destinationVars>>

-----------------------------------------------------------------------------
(* The destination, and the host's readback of it.                         *)

CommitTurn ==
  /\ requests > 0
  /\ requests' = requests - 1
  /\ turns' = turns + 1
  /\ UNCHANGED <<storeVars, caller, absences>>

LoseRequest ==
  /\ requests > 0
  /\ requests' = requests - 1
  /\ UNCHANGED <<storeVars, caller, turns, absences>>

\* The host asks about a delivery that is unsettled.
ReadAbsence ==
  /\ state = "DELIVERY_UNSETTLED"
  /\ turns = 0 /\ requests = 0
  /\ absences' = absences \cup {deliveries}
  /\ UNCHANGED <<storeVars, caller, requests, turns>>

NoProofNeeded == TRUE

\* The proof binds the receipt, the destination and the turn request, which
\* are those of every delivery of this continuation; that it is not older
\* than the delivery is up to the host.
AbsenceProven ==
  \E d \in absences : FreshReadback => d = deliveries

\* reconcile_continuation with NONE: the same request may be delivered again.
ReconcileAbsent ==
  /\ state = "DELIVERY_UNSETTLED"
  /\ AbsenceProven
  /\ state' = "PREPARED"
  /\ UNCHANGED <<deliveries, acks, caller, destinationVars>>

ConvergenceAssumed == TRUE

\* The destination has an exact completed turn for the request.
ConvergenceProven == turns > 0

\* reconcile_continuation with COMMITTED.
ReconcileCommitted ==
  /\ ConvergenceProven
  /\ AcknowledgeDelivery("DELIVERY_UNSETTLED")
  /\ UNCHANGED <<deliveries, caller, destinationVars>>

-----------------------------------------------------------------------------

Deliver(c) ==
  \/ StartTurn(c)
  \/ TurnReturns(c)
  \/ TurnRaises(c)
  \/ AcknowledgeAfterConvergence(c)
  \/ MarkDeliveryUnsettled(c)

Next ==
  \/ \E c \in Callers : PrepareContinuation(c)
  \/ \E c \in Callers : ValidatePrepared(c)
  \/ \E c \in Callers : ValidateResume(c)
  \/ \E c \in Callers : Abandon(c)
  \/ \E c \in Callers : BeginDelivery(c)
  \/ \E c \in Callers : Deliver(c)
  \/ \E c \in Callers : Interrupt(c)
  \/ RecoverInterrupted
  \/ CommitTurn
  \/ LoseRequest
  \/ ReadAbsence
  \/ ReconcileAbsent
  \/ ReconcileCommitted

Spec == Init /\ [][Next]_vars

\* A caller inside the try block of continue_existing keeps running, and
\* start_turn returns or raises.
Fairness == \A c \in Callers : WF_vars(Deliver(c))

FairSpec == Spec /\ Fairness

-----------------------------------------------------------------------------
(* Properties.                                                             *)

\* One caller at a time is inside the delivery, and the record says so: no
\* interleaving of begin_delivery, the handler and reconcile_continuation
\* (which makes PREPARED come back under callers that read it before) lets a
\* second one in.
DeliveryExclusive ==
  \A c, d \in Callers :
    caller[c] \in Delivering =>
      /\ state = "DELIVERY_STARTED"
      /\ caller[d] \in Delivering => c = d

\* SPEC.md 8, invariant 5, no blind retry: a delivery that may have committed
\* is not delivered again, so the destination commits at most one turn.
TurnCommittedOnce == turns <= 1

\* Exactly-once delivery and acknowledgement, as ExactlyOnce states it.
Promise == INSTANCE ExactlyOnce
ImplementsExactlyOnce == Promise!Spec

\* A delivery that is not interrupted ends with a state reconcile_continuation
\* accepts or with the acknowledgement; it never stays merely started.
DeliveryResolves ==
  \A c \in Callers \ Interruptible :
    caller[c] = "begun" ~> state \in {"DELIVERY_UNSETTLED", "ACKNOWLEDGED"}

\* What an old proof of absence, presented again, can cost at most: a delivery
\* sends one request, so there is no more than one turn for each.
EachDeliverySendsOnce == turns + requests <= deliveries

\* ... and what it cannot do.  A continuation is acknowledged only when its
\* turn is committed, and from then on it is not reopened and nothing is sent,
\* also by callers that prepared it earlier (validate_prepared_continuation,
\* begin_delivery, reconcile_continuation).
AcknowledgedHasTurn == state = "ACKNOWLEDGED" => turns > 0

AcknowledgedIsFinal ==
  [][state = "ACKNOWLEDGED" =>
       /\ state' = state /\ deliveries' = deliveries
       /\ turns' + requests' <= turns + requests]_vars

\* The strengthenings that make the above inductive.  Of the record, whatever
\* proofs the host presents:
DeliveryInv ==
  /\ DeliveryExclusive
  /\ state \notin {"ABSENT", "PREPARED"} => deliveries > 0
  /\ acks = (IF state = "ACKNOWLEDGED" THEN 1 ELSE 0)

\* Of the requests, whatever proofs the host presents:
SendInv ==
  /\ EachDeliverySendsOnce
  /\ AcknowledgedHasTurn
  /\ (\E c \in Callers : caller[c] = "begun") => turns + requests < deliveries
  /\ (\E c \in Callers : caller[c] = "converged") => turns > 0

\* Of the destination, with fresh proofs: a request under way, a turn and a
\* caller about to send one exclude each other while the continuation may
\* still be delivered.  No proof is read while a delivery is merely started,
\* so one read after it says that nothing of it is left.
OnceInv ==
  /\ turns + requests <= 1
  /\ state \in {"ABSENT", "PREPARED"} => turns = 0 /\ requests = 0
  /\ (\E c \in Callers : caller[c] = "begun") => turns = 0 /\ requests = 0
  /\ (\E c \in Callers : caller[c] = "converged") => turns > 0
  /\ state = "DELIVERY_STARTED" => deliveries \notin absences
  /\ state = "DELIVERY_UNSETTLED" /\ deliveries \in absences =>
       turns = 0 /\ requests = 0
  /\ state = "ACKNOWLEDGED" => turns = 1
=============================================================================
