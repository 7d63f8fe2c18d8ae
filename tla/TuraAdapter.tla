----------------------------- MODULE TuraAdapter -----------------------------
(***************************************************************************)
(* execute with the executor of adapters/tura.py: a packet is compiled to  *)
(* one request for an external Tura runtime, and the terminal envelope     *)
(* that the client returns is mapped to a result or to a failure.          *)
(*                                                                         *)
(* The runtime and the transport are external.  The runtime gives the      *)
(* effect of a request an id of its own, and has it or not, once and for   *)
(* all, whenever it likes: also when nobody waits for the answer any more. *)
(* Its envelopes say what it knows.  The transport may lose, delay, repeat *)
(* or garble an envelope, or hand it to the caller of another request.     *)
(*                                                                         *)
(* The host reconciles on proof (Proved below): the harness asks for a     *)
(* proof digest that it cannot check.                                      *)
(***************************************************************************)
EXTENDS Harness

VARIABLES
  waiting,   \* threads in client.dispatch
  sent,      \* packet -> how often its request was dispatched
  effectOf,  \* external: packet -> the id of the effect its request may have
  fate       \* external: packet -> "DONE" or "NEVER", once its effect is decided

turaVars == <<waiting, sent, effectOf, fate>>
allVars == <<harnessVars, turaVars>>

TuraTypeOK ==
  /\ HarnessTypeOK
  /\ waiting \subseteq {t \in Threads : at[t] = "executing"}
  /\ sent \in [DOMAIN sent -> Nat]
  /\ DOMAIN sent \subseteq started
  /\ effectOf \in [DOMAIN effectOf -> Effects]
  /\ DOMAIN effectOf \subseteq DOMAIN sent
  /\ fate \in [DOMAIN fate -> {"DONE", "NEVER"}]
  /\ DOMAIN fate \subseteq DOMAIN sent

TuraInit ==
  /\ HarnessInit
  /\ waiting = {}
  /\ sent = <<>>
  /\ effectOf = <<>>
  /\ fate = <<>>

Had(p) == p \in DOMAIN fate /\ p \in DOMAIN effectOf /\ fate[p] = "DONE"

\* The request of p has had no effect and will have none.
HasNone(p) == p \notin DOMAIN sent \/ (p \in DOMAIN fate /\ fate[p] = "NEVER")

-----------------------------------------------------------------------------
(* The external runtime.                                                   *)

Accept(p, e) ==
  /\ p \in DOMAIN sent \ (DOMAIN effectOf \cup DOMAIN fate)
  /\ \A q \in DOMAIN effectOf : effectOf[q] # e
  /\ effectOf' = Put(effectOf, p, e)
  /\ UNCHANGED <<harnessVars, waiting, sent, fate>>

Perform(p) ==
  /\ p \in DOMAIN effectOf \ DOMAIN fate
  /\ fate' = Put(fate, p, "DONE")
  /\ UNCHANGED <<harnessVars, waiting, sent, effectOf>>

GiveUp(p) ==
  /\ p \in DOMAIN sent \ DOMAIN fate
  /\ fate' = Put(fate, p, "NEVER")
  /\ UNCHANGED <<harnessVars, waiting, sent, effectOf>>

\* What an envelope of the request of q may say.
Names(q) == IF q \in DOMAIN effectOf THEN {NoEffect, effectOf[q]} ELSE {NoEffect}

MayReport(q, st) ==
  \/ st = "SETTLED" /\ Had(q)
  \/ st = "UNSETTLED" /\ q \in DOMAIN effectOf

-----------------------------------------------------------------------------
(* TuraAdapter.execute, called by a thread that has begun its packet.      *)

\* The request cannot be built for the packet and the lease, or the packet is
\* another executor's: a typed rejection, and nothing is sent.
DispatchRefused(t) ==
  /\ t \notin waiting
  /\ ExecutorFails(t, NoEffect)
  /\ UNCHANGED turaVars

TimesSent(p) == IF p \in DOMAIN sent THEN sent[p] ELSE 0

DispatchEarly(t) ==
  /\ at[t] \in {"called", "executing"}
  /\ t \notin waiting
  /\ waiting' = waiting \cup {t}
  /\ sent' = Put(sent, job[t], TimesSent(job[t]) + 1)
  /\ UNCHANGED <<harnessVars, effectOf, fate>>

Dispatch(t) ==
  /\ at[t] = "executing"
  /\ t \notin waiting
  /\ waiting' = waiting \cup {t}
  /\ sent' = Put(sent, job[t], TimesSent(job[t]) + 1)
  /\ UNCHANGED <<harnessVars, effectOf, fate>>

Answered(t) ==
  /\ t \in waiting
  /\ waiting' = waiting \ {t}
  /\ UNCHANGED <<sent, effectOf, fate>>

AnyIdentity(p, q) == TRUE

\* Request, packet, lease and executor are those that were asked: each is
\* determined by the packet.
SameIdentity(p, q) == p = q

\* An envelope of kind RESULT, of the request of q, becomes an
\* ExecutionResult: recorded, kept as a failure because its effect has an
\* owner, or lost because a step of the packet is unsettled.
ResultArrives(t, q, st) ==
  /\ Answered(t)
  /\ SameIdentity(job[t], q)
  /\ MayReport(q, st)
  /\ Ends(t, "executing")
  /\ \/ st = "SETTLED" /\ ReturnSettled(job[t], effectOf[q])
     \/ st = "UNSETTLED" /\ ReturnUnsettled(job[t], effectOf[q])
     \/ effectOf[q] \in DOMAIN owner /\ RejectResult(job[t], effectOf[q])
     \/ ~StepsReconciled(job[t]) /\ UNCHANGED vars

\* An envelope of kind FAILURE; its effect state goes no further.
FailureArrives(t, q, e) ==
  /\ Answered(t)
  /\ SameIdentity(job[t], q)
  /\ e \in Names(q)
  /\ ExecutorFails(t, e)

\* A mapping that is no envelope, whoever it was for: a typed rejection with
\* the effect id it has, and no look at its identity.
Undecodable(t, q, e) ==
  /\ Answered(t)
  /\ e \in Names(q)
  /\ ExecutorFails(t, e)

\* An envelope of another request: a typed rejection with the effect it names.
IdentityMismatch(t, q, e) ==
  /\ Answered(t)
  /\ ~SameIdentity(job[t], q)
  /\ e \in Names(q)
  /\ ExecutorFails(t, e)

\* client.dispatch raises, or returns no envelope at all.
TransportRaises(t) ==
  /\ Answered(t)
  /\ ExecutorFails(t, NoEffect)

\* The thread is interrupted, before or after the request is sent: neither
\* the adapter nor the harness handles that.
Interrupted(t) ==
  /\ FailureLost(t)
  /\ waiting' = waiting \ {t}
  /\ UNCHANGED <<sent, effectOf, fate>>

AdapterStep(t) ==
  \/ DispatchRefused(t)
  \/ Dispatch(t)
  \/ \E q \in DOMAIN sent, st \in {"SETTLED", "UNSETTLED"} : ResultArrives(t, q, st)
  \/ \E q \in DOMAIN sent, e \in Effects \cup {NoEffect} : FailureArrives(t, q, e)
  \/ \E q \in DOMAIN sent, e \in Effects \cup {NoEffect} : Undecodable(t, q, e)
  \/ \E q \in DOMAIN sent, e \in Effects \cup {NoEffect} : IdentityMismatch(t, q, e)
  \/ TransportRaises(t)
  \/ Interrupted(t)

\* execute, up to the call of the adapter.
BeforeAdapter(t) ==
  /\ \/ WrongExecutor(t)
     \/ Begin(t)
     \/ BeginStale(t)
     \/ BeginRaises(t)
     \/ Reject(t)
     \/ RejectRaises(t)
  /\ UNCHANGED turaVars

-----------------------------------------------------------------------------

\* What the host signs a receipt for is what the runtime can prove.
Proved(p, receipt) ==
  IF receipt.state = "SETTLED"
  THEN Had(p) /\ effectOf[p] = receipt.effect
  ELSE HasNone(p)

HonestHost ==
  /\ HostStep
  /\ \A p \in DOMAIN receipts' \ DOMAIN receipts : Proved(p, receipts'[p])
  /\ UNCHANGED <<threadVars, turaVars>>

RuntimeStep ==
  \/ \E p \in DOMAIN sent, e \in Effects : Accept(p, e)
  \/ \E p \in DOMAIN sent : Perform(p)
  \/ \E p \in DOMAIN sent : GiveUp(p)

TuraNext ==
  \/ HonestHost
  \/ RuntimeStep
  \/ \E t \in Threads, p \in planned : Execute(t, p) /\ UNCHANGED turaVars
  \/ \E t \in Threads : BeforeAdapter(t)
  \/ \E t \in Threads : AdapterStep(t)

TuraSpec == TuraInit /\ [][TuraNext]_allVars

-----------------------------------------------------------------------------
(* Properties.                                                             *)

\* Whatever the transport loses, repeats or misdirects, a packet is receipted
\* for the effect its own request had, and one receipted without an effect has
\* none then or later (TuraAdapter.dispatch; SPEC.md 8, invariants 4 and 7).
ReceiptsTruthful ==
  \A p \in DOMAIN receipts :
    IF receipts[p].state = "SETTLED"
    THEN Had(p) /\ effectOf[p] = receipts[p].effect
    ELSE HasNone(p)

\* A packet that was handed another's envelope may own the effect it names,
\* but only until its failure is reconciled: then the effect is free for the
\* packet that had it (TuraTypedRejection.observed_effect_id,
\* reconcile_failure).
MisownedIsProvisional ==
  \A e \in DOMAIN owner :
    LET p == owner[e]
    IN  \/ p \in DOMAIN effectOf /\ effectOf[p] = e
        \/ p \in DOMAIN failures \ DOMAIN receipts /\ failures[p] = e

\* The request of p had its effect, and p failed on an envelope that names
\* another one.
Misled(p) ==
  /\ Had(p)
  /\ p \in active /\ p \in DOMAIN failures
  /\ failures[p] \notin {effectOf[p], NoEffect}

\* No truthful reconciliation ends such a packet: its own effect is not the
\* observed one, and that there was none cannot be proved, so that its lease
\* is held for ever (reconcile_failure, core.py:2131), against what SPEC.md:247
\* promises.
MisledIsPermanent == [][\A p \in active : Misled(p) => Misled(p)']_allVars

\* SPEC.md 8, invariant 7, of the attempts that failed on record: each has a
\* reconciliation path to terminal state and lease release, and none that
\* guesses the effect.
EveryFailureHasAWayOut == \A p \in active : ~Misled(p)

-----------------------------------------------------------------------------
(* The strengthening that makes them inductive.                            *)

\* One request is sent for a packet, by the thread that began it, and the
\* results on record are those of its own request; a receipt without a
\* settled effect has no effect at all.
TuraInv ==
  /\ \A p \in DOMAIN sent : sent[p] = 1
  /\ \A t \in Threads : at[t] = "executing" => (t \in waiting <=> job[t] \in DOMAIN sent)
  /\ \A p \in DOMAIN attempts : p \in DOMAIN effectOf /\ attempts[p].effect = effectOf[p]
  /\ \A p \in DOMAIN receipts : receipts[p].state # "SETTLED" => receipts[p].effect = NoEffect
  /\ ReceiptsTruthful
=============================================================================
