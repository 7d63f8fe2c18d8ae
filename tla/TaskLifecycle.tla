---------------------------- MODULE TaskLifecycle ----------------------------
(***************************************************************************)
(* The life of a task packet as SPEC.md 6.1 draws it, without scopes,      *)
(* effects, steps or threads: a packet is claimed and executed once, what  *)
(* became of it is recorded once, and it keeps its lease from the claim to *)
(* its terminal status, and no longer.                                     *)
(***************************************************************************)
VARIABLES
  phase,         \* packet -> its phase
  leased,        \* packets that hold a lease
  acknowledged   \* packets whose receipt the parent has acknowledged

lifeVars == <<phase, leased, acknowledged>>

Terminal == {"SUCCEEDED", "FAILED", "BLOCKED"}

\* EXECUTION ends with a result, settled or not, or without one.  Only what
\* never began is blocked, and only what ended without a result has failed.
Ends ==
  {<<"CLAIMED", "BLOCKED">>, <<"EXECUTING", "SUCCEEDED">>,
   <<"UNSETTLED", "SUCCEEDED">>, <<"UNRESOLVED", "FAILED">>}

Goes ==
  {<<"CLAIMED", "EXECUTING">>, <<"EXECUTING", "UNSETTLED">>, <<"EXECUTING", "UNRESOLVED">>}

Init ==
  /\ phase = <<>>
  /\ leased = {}
  /\ acknowledged = {}

Plan(t) ==
  /\ t \notin DOMAIN phase
  /\ phase' = [u \in DOMAIN phase \cup {t} |-> IF u = t THEN "PLANNED" ELSE phase[u]]
  /\ UNCHANGED <<leased, acknowledged>>

Claim(t) ==
  /\ phase[t] = "PLANNED"
  /\ phase' = [phase EXCEPT ![t] = "CLAIMED"]
  /\ leased' = leased \cup {t}
  /\ UNCHANGED acknowledged

Advance(t, to) ==
  /\ <<phase[t], to>> \in Goes
  /\ phase' = [phase EXCEPT ![t] = to]
  /\ UNCHANGED <<leased, acknowledged>>

Terminate(t, to) ==
  /\ <<phase[t], to>> \in Ends
  /\ phase' = [phase EXCEPT ![t] = to]
  /\ leased' = leased \ {t}
  /\ UNCHANGED acknowledged

Acknowledge(t) ==
  /\ phase[t] \in Terminal
  /\ t \notin acknowledged
  /\ acknowledged' = acknowledged \cup {t}
  /\ UNCHANGED <<phase, leased>>

\* A packet is planned under whatever identity it then has.
Next ==
  \/ \E t \in DOMAIN phase' : Plan(t)
  \/ \E t \in DOMAIN phase : Claim(t)
  \/ \E t \in DOMAIN phase, to \in {"EXECUTING", "UNSETTLED", "UNRESOLVED"} : Advance(t, to)
  \/ \E t \in DOMAIN phase, to \in Terminal : Terminate(t, to)
  \/ \E t \in DOMAIN phase : Acknowledge(t)

Spec == Init /\ [][Next]_lifeVars
=============================================================================
