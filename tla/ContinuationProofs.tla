------------------------- MODULE ContinuationProofs -------------------------
(***************************************************************************)
(* Theorems about Continuation, for any number of callers and deliveries.  *)
(***************************************************************************)
EXTENDS Continuation, TLAPS

LEMMA InitTypeOK == ASSUME Init PROVE TypeOK
  BY DEF Init, TypeOK, ContinuationState, Preparing, Delivering

LEMMA InitDelivery == ASSUME Init PROVE DeliveryInv
  BY DEF Init, DeliveryInv, DeliveryExclusive, Delivering

(* The record: who delivers, and how often it is acknowledged.             *)

LEMMA NextDelivery ==
  ASSUME TypeOK, DeliveryInv, [Next]_vars
  PROVE  TypeOK' /\ DeliveryInv'
<1> USE DEF TypeOK, DeliveryInv, DeliveryExclusive, ContinuationState, Preparing, Delivering,
            storeVars, destinationVars, Moves
<1>1. ASSUME NEW c \in Callers, PrepareContinuation(c)
      PROVE  TypeOK' /\ DeliveryInv'
  BY <1>1 DEF PrepareContinuation
<1>2. ASSUME NEW c \in Callers, ValidatePrepared(c)
      PROVE  TypeOK' /\ DeliveryInv'
  BY <1>2 DEF ValidatePrepared
<1>3. ASSUME NEW c \in Callers, ValidateResume(c)
      PROVE  TypeOK' /\ DeliveryInv'
  BY <1>3 DEF ValidateResume
<1>4. ASSUME NEW c \in Callers, Abandon(c)
      PROVE  TypeOK' /\ DeliveryInv'
  BY <1>4 DEF Abandon
<1>5. ASSUME NEW c \in Callers, BeginDelivery(c)
      PROVE  TypeOK' /\ DeliveryInv'
  BY <1>5 DEF BeginDelivery, MayBegin
<1>6. ASSUME NEW c \in Callers, StartTurn(c)
      PROVE  TypeOK' /\ DeliveryInv'
  BY <1>6 DEF StartTurn
<1>7. ASSUME NEW c \in Callers, TurnReturns(c)
      PROVE  TypeOK' /\ DeliveryInv'
  BY <1>7 DEF TurnReturns
<1>8. ASSUME NEW c \in Callers, TurnRaises(c)
      PROVE  TypeOK' /\ DeliveryInv'
  BY <1>8 DEF TurnRaises
<1>9. ASSUME NEW c \in Callers, AcknowledgeAfterConvergence(c)
      PROVE  TypeOK' /\ DeliveryInv'
  BY <1>9 DEF AcknowledgeAfterConvergence, AcknowledgeDelivery
<1>10. ASSUME NEW c \in Callers, MarkDeliveryUnsettled(c)
       PROVE  TypeOK' /\ DeliveryInv'
  BY <1>10 DEF MarkDeliveryUnsettled
<1>11. ASSUME NEW c \in Callers, Interrupt(c)
       PROVE  TypeOK' /\ DeliveryInv'
  BY <1>11 DEF Interrupt
<1>12. CASE RecoverInterrupted
  BY <1>12 DEF RecoverInterrupted
<1>13. CASE CommitTurn
  BY <1>13 DEF CommitTurn
<1>14. CASE LoseRequest
  BY <1>14 DEF LoseRequest
<1>15. CASE ReadAbsence
  BY <1>15 DEF ReadAbsence
<1>16. CASE ReconcileAbsent
  BY <1>16 DEF ReconcileAbsent
<1>17. CASE ReconcileCommitted
  BY <1>17 DEF ReconcileCommitted, AcknowledgeDelivery
<1>18. CASE UNCHANGED vars
  BY <1>18 DEF vars
<1>19. QED
  BY <1>1, <1>2, <1>3, <1>4, <1>5, <1>6, <1>7, <1>8, <1>9, <1>10, <1>11, <1>12,
     <1>13, <1>14, <1>15, <1>16, <1>17, <1>18 DEF Next, Deliver

\* The record keeps its type: in particular there is at most one
\* acknowledgement, whoever acknowledges (_acknowledge_delivery).
THEOREM TypeCorrect == Spec => []TypeOK
<1>1. TypeOK /\ DeliveryInv /\ [Next]_vars => TypeOK' /\ DeliveryInv'
  BY NextDelivery
<1>2. QED
  BY <1>1, InitTypeOK, InitDelivery, PTL DEF Spec

LEMMA DeliveryAlways == Spec => []DeliveryInv
<1>1. TypeOK /\ DeliveryInv /\ [Next]_vars => TypeOK' /\ DeliveryInv'
  BY NextDelivery
<1>2. QED
  BY <1>1, InitTypeOK, InitDelivery, PTL DEF Spec

\* At most one caller is inside the delivery, and the record says so, even if
\* the host presents the same proof of absence again and again.
THEOREM OneCallerDelivers == Spec => []DeliveryExclusive
<1>1. DeliveryInv => DeliveryExclusive
  BY DEF DeliveryInv
<1>2. QED
  BY <1>1, DeliveryAlways, PTL

-----------------------------------------------------------------------------
(* The requests, whatever proofs of absence the host presents.             *)

LEMMA InitSend == ASSUME Init PROVE SendInv
  BY DEF Init, SendInv, EachDeliverySendsOnce, AcknowledgedHasTurn

\* A step of a caller or of the host that sends and commits nothing.
LEMMA NothingSent ==
  ASSUME SendInv, UNCHANGED <<deliveries, requests, turns>>,
         state' = "ACKNOWLEDGED" => state = "ACKNOWLEDGED" \/ turns > 0,
         \A c \in Callers : caller'[c] = "begun" => caller[c] = "begun",
         \A c \in Callers : caller'[c] = "converged" => caller[c] = "converged" \/ turns > 0
  PROVE  SendInv'
  BY DEF SendInv, EachDeliverySendsOnce, AcknowledgedHasTurn

LEMMA NextSend ==
  ASSUME TypeOK, DeliveryInv, SendInv, [Next]_vars
  PROVE  SendInv'
<1> USE DEF TypeOK, storeVars, destinationVars, Moves
<1>1. ASSUME NEW c \in Callers,
             PrepareContinuation(c) \/ ValidatePrepared(c) \/ ValidateResume(c) \/ Abandon(c)
      PROVE  SendInv'
  BY <1>1, NothingSent
     DEF PrepareContinuation, ValidatePrepared, ValidateResume, Abandon, Preparing
<1>2. ASSUME NEW c \in Callers, BeginDelivery(c)
      PROVE  SendInv'
  BY <1>2 DEF BeginDelivery, SendInv, EachDeliverySendsOnce, AcknowledgedHasTurn
<1>3. ASSUME NEW c \in Callers, StartTurn(c)
      PROVE  SendInv'
  <2>1. \A d \in Callers : caller'[d] # "begun"
    BY <1>3 DEF StartTurn, DeliveryInv, DeliveryExclusive, Delivering
  <2>2. QED
    BY <1>3, <2>1 DEF StartTurn, SendInv, EachDeliverySendsOnce, AcknowledgedHasTurn
<1>4. ASSUME NEW c \in Callers, TurnReturns(c) \/ TurnRaises(c) \/ Interrupt(c)
      PROVE  SendInv'
  BY <1>4, NothingSent DEF TurnReturns, TurnRaises, Interrupt
<1>5. ASSUME NEW c \in Callers, AcknowledgeAfterConvergence(c)
      PROVE  SendInv'
  <2>1. turns > 0
    BY <1>5 DEF AcknowledgeAfterConvergence, SendInv
  <2>2. QED
    BY <1>5, <2>1, NothingSent DEF AcknowledgeAfterConvergence, AcknowledgeDelivery
<1>6. ASSUME NEW c \in Callers, MarkDeliveryUnsettled(c)
      PROVE  SendInv'
  BY <1>6, NothingSent DEF MarkDeliveryUnsettled
<1>7. CASE RecoverInterrupted \/ ReadAbsence \/ ReconcileAbsent
  BY <1>7, NothingSent DEF RecoverInterrupted, ReadAbsence, ReconcileAbsent
<1>8. CASE ReconcileCommitted
  BY <1>8, NothingSent DEF ReconcileCommitted, ConvergenceProven, AcknowledgeDelivery
<1>9. CASE CommitTurn \/ LoseRequest
  BY <1>9 DEF CommitTurn, LoseRequest, SendInv, EachDeliverySendsOnce, AcknowledgedHasTurn
<1>10. CASE UNCHANGED vars
  BY <1>10, NothingSent DEF vars
<1>11. QED
  BY <1>1, <1>2, <1>3, <1>4, <1>5, <1>6, <1>7, <1>8, <1>9, <1>10 DEF Next, Deliver

\* Old proofs of absence cost at most one turn for each delivery begun, and
\* never an acknowledgement without a turn.
THEOREM TurnsWithinDeliveries == Spec => [](EachDeliverySendsOnce /\ AcknowledgedHasTurn)
<1>1. SendInv => EachDeliverySendsOnce /\ AcknowledgedHasTurn
  BY DEF SendInv
<1>2. TypeOK /\ DeliveryInv /\ SendInv /\ [Next]_vars => SendInv'
  BY NextSend
<1>3. QED
  BY <1>1, <1>2, InitSend, TypeCorrect, DeliveryAlways, PTL DEF Spec

\* An acknowledgement is final, whatever copies of the continuation callers
\* still hold and whatever proofs the host has: only requests already under
\* way can arrive after it.
THEOREM AcknowledgementsAreFinal == Spec => AcknowledgedIsFinal
<1>1. ASSUME TypeOK, DeliveryInv, [Next]_vars, state = "ACKNOWLEDGED"
      PROVE  /\ state' = state /\ deliveries' = deliveries
             /\ turns' + requests' <= turns + requests
  <2> USE <1>1 DEF TypeOK, storeVars, destinationVars, Moves
  <2>1. \A c \in Callers : caller[c] \notin Delivering
    BY DEF DeliveryInv, DeliveryExclusive
  <2>2. \A c \in Callers : ~PrepareContinuation(c) /\ ~BeginDelivery(c)
    BY DEF PrepareContinuation, BeginDelivery, MayBegin
  <2>3. \A c \in Callers : ~Deliver(c)
    BY <2>1 DEF Deliver, StartTurn, TurnReturns, TurnRaises, AcknowledgeAfterConvergence,
                MarkDeliveryUnsettled, Delivering
  <2>4. CASE CommitTurn \/ LoseRequest
    BY <2>4 DEF CommitTurn, LoseRequest
  <2>5. QED
    BY <2>2, <2>3, <2>4
       DEF Next, vars, ValidatePrepared, ValidateResume, Abandon, Interrupt, RecoverInterrupted,
           ReadAbsence, ReconcileAbsent, ReconcileCommitted, AcknowledgeDelivery
<1>2. TypeOK /\ DeliveryInv /\ [Next]_vars =>
        [state = "ACKNOWLEDGED" =>
           /\ state' = state /\ deliveries' = deliveries
           /\ turns' + requests' <= turns + requests]_vars
  BY <1>1
<1>3. QED
  BY <1>2, TypeCorrect, DeliveryAlways, PTL DEF Spec, AcknowledgedIsFinal

-----------------------------------------------------------------------------
(* The destination, with fresh proofs of absence.                          *)

LEMMA InitOnce == ASSUME Init PROVE OnceInv
  BY DEF Init, OnceInv

LEMMA NextOnce ==
  ASSUME TypeOK, DeliveryInv, OnceInv, FreshReadback, [Next]_vars
  PROVE  OnceInv'
<1> USE DEF TypeOK, DeliveryInv, DeliveryExclusive, OnceInv, ContinuationState, Preparing,
            Delivering, storeVars, destinationVars, Moves
<1>1. ASSUME NEW c \in Callers, PrepareContinuation(c)
      PROVE  OnceInv'
  BY <1>1 DEF PrepareContinuation
<1>2. ASSUME NEW c \in Callers, ValidatePrepared(c)
      PROVE  OnceInv'
  BY <1>2 DEF ValidatePrepared
<1>3. ASSUME NEW c \in Callers, ValidateResume(c)
      PROVE  OnceInv'
  BY <1>3 DEF ValidateResume
<1>4. ASSUME NEW c \in Callers, Abandon(c)
      PROVE  OnceInv'
  BY <1>4 DEF Abandon
<1>5. ASSUME NEW c \in Callers, BeginDelivery(c)
      PROVE  OnceInv'
  BY <1>5 DEF BeginDelivery, MayBegin
<1>6. ASSUME NEW c \in Callers, StartTurn(c)
      PROVE  OnceInv'
  BY <1>6 DEF StartTurn
<1>7. ASSUME NEW c \in Callers, TurnReturns(c)
      PROVE  OnceInv'
  BY <1>7 DEF TurnReturns
<1>8. ASSUME NEW c \in Callers, TurnRaises(c)
      PROVE  OnceInv'
  BY <1>8 DEF TurnRaises
<1>9. ASSUME NEW c \in Callers, AcknowledgeAfterConvergence(c)
      PROVE  OnceInv'
  BY <1>9 DEF AcknowledgeAfterConvergence, AcknowledgeDelivery
<1>10. ASSUME NEW c \in Callers, MarkDeliveryUnsettled(c)
       PROVE  OnceInv'
  BY <1>10 DEF MarkDeliveryUnsettled
<1>11. ASSUME NEW c \in Callers, Interrupt(c)
       PROVE  OnceInv'
  BY <1>11 DEF Interrupt
<1>12. CASE RecoverInterrupted
  BY <1>12 DEF RecoverInterrupted
<1>13. CASE CommitTurn
  BY <1>13 DEF CommitTurn
<1>14. CASE LoseRequest
  BY <1>14 DEF LoseRequest
<1>15. CASE ReadAbsence
  BY <1>15 DEF ReadAbsence
<1>16. CASE ReconcileAbsent
  BY <1>16 DEF ReconcileAbsent, AbsenceProven
<1>17. CASE ReconcileCommitted
  BY <1>17 DEF ReconcileCommitted, ConvergenceProven, AcknowledgeDelivery
<1>18. CASE UNCHANGED vars
  BY <1>18 DEF vars
<1>19. QED
  BY <1>1, <1>2, <1>3, <1>4, <1>5, <1>6, <1>7, <1>8, <1>9, <1>10, <1>11, <1>12,
     <1>13, <1>14, <1>15, <1>16, <1>17, <1>18 DEF Next, Deliver

LEMMA OnceAlways == ASSUME FreshReadback PROVE Spec => []OnceInv
<1>1. TypeOK /\ DeliveryInv /\ OnceInv /\ [Next]_vars => OnceInv'
  BY NextOnce
<1>2. QED
  BY <1>1, InitOnce, TypeCorrect, DeliveryAlways, PTL DEF Spec

\* The destination commits at most one turn, however callers, lost requests,
\* interrupts and reconciliations interleave, as long as the host presents
\* only proofs of absence read after the delivery they reopen.
THEOREM TurnsCommittedOnce ==
  ASSUME FreshReadback PROVE Spec => []TurnCommittedOnce
<1>1. TypeOK /\ OnceInv => TurnCommittedOnce
  BY DEF OnceInv, TypeOK, TurnCommittedOnce
<1>2. QED
  BY <1>1, TypeCorrect, OnceAlways, PTL

LEMMA NextPromise ==
  ASSUME TypeOK, DeliveryInv, OnceInv, [Next]_vars
  PROVE  [Promise!Next]_<<turns, acks>>
<1> USE DEF storeVars, destinationVars
<1>1. CASE CommitTurn
  BY <1>1 DEF CommitTurn, TypeOK, DeliveryInv, OnceInv, Promise!Next, Promise!Commit
<1>2. CASE ReconcileCommitted
  BY <1>2 DEF ReconcileCommitted, ConvergenceProven, AcknowledgeDelivery, TypeOK, DeliveryInv, OnceInv,
              Promise!Next, Promise!Acknowledge
<1>3. ASSUME NEW c \in Callers, AcknowledgeAfterConvergence(c)
      PROVE  Promise!Next
  BY <1>3 DEF AcknowledgeAfterConvergence, AcknowledgeDelivery, Moves, TypeOK, DeliveryInv, OnceInv,
              Promise!Next, Promise!Acknowledge
<1>4. CASE UNCHANGED <<turns, acks>>
  BY <1>4
<1>5. QED
  BY <1>1, <1>2, <1>3, <1>4
     DEF Next, Deliver, vars, PrepareContinuation, ValidatePrepared, ValidateResume, Abandon,
         BeginDelivery, StartTurn, TurnReturns, TurnRaises, MarkDeliveryUnsettled, Interrupt,
         RecoverInterrupted, LoseRequest, ReadAbsence, ReconcileAbsent

\* Under the same assumption the delivery implements ExactlyOnce: one turn,
\* then one acknowledgement.
THEOREM DeliveryImplementsExactlyOnce ==
  ASSUME FreshReadback PROVE Spec => ImplementsExactlyOnce
<1>1. Init => Promise!Init
  BY DEF Init, Promise!Init
<1>2. TypeOK /\ DeliveryInv /\ OnceInv /\ [Next]_vars => [Promise!Next]_<<turns, acks>>
  BY NextPromise
<1>3. QED
  BY <1>1, <1>2, TypeCorrect, DeliveryAlways, OnceAlways, PTL DEF Spec, ImplementsExactlyOnce, Promise!Spec
=============================================================================
