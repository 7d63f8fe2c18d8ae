---------------------------- MODULE SkillInstall ----------------------------
(***************************************************************************)
(* install_native_tura_skill: calls that install the packaged Skill under  *)
(* one Codex home, with or without --replace.  No lock is held: one step   *)
(* is one operation on the skills directory, whose members are the target  *)
(* and each call's staging and backup directories.                         *)
(*                                                                         *)
(* A version stands for the files of a Skill, so comparing them with the   *)
(* payloads compares versions.  Looking at the target is one step, and so  *)
(* is removing a directory.  A call raises at most one error that the      *)
(* directory does not explain: while it rolls back nothing else fails.     *)
(*                                                                         *)
(* Nothing in the code keeps two replacements apart.  The operator does:   *)
(* a replacing call runs alone (Alone below), others may race.             *)
(***************************************************************************)
CONSTANTS
  Installers,  \* calls of install_native_tura_skill
  Replacers,   \* those with replace=True
  Killable,    \* those whose process may be killed or interrupted
  Versions,    \* what a plain directory of skill files may hold
  Irregular,   \* a target that is a symlink or holds one, or is no directory
  Partial,     \* a directory whose files are still being written
  Absent       \* no such path

ASSUME SkillAssumption ==
  /\ Replacers \subseteq Installers
  /\ Killable \subseteq Installers
  /\ {Irregular, Partial, Absent} \cap Versions = {}
  /\ Irregular # Partial /\ Partial # Absent /\ Irregular # Absent

Rollback == {"failing", "evicting", "restoring", "cleaning"}

Running ==
  Rollback \cup {"checking", "packing", "writing", "staged", "placed", "moved",
                 "swapped", "accepted"}

\* "unclean" raises too, after the replacement was accepted.
Ended == {"done", "failed", "unclean", "dead"}

VARIABLES
  target,   \* the installed Skill
  staging,  \* the staging directory of each call
  backup,   \* the preimage directory of each call
  payload,  \* the payloads each call installs
  found,    \* what each call found at the target when it began
  pc,       \* where each call is
  adopted   \* history: the version last put in place or confirmed by a call

skillVars == <<target, staging, backup, payload, found, pc, adopted>>

Targets == Versions \cup {Irregular, Absent}

SkillTypeOK ==
  /\ target \in Targets
  /\ staging \in [Installers -> Versions \cup {Partial, Irregular, Absent}]
  /\ backup \in [Installers -> Targets]
  /\ payload \in [Installers -> Versions]
  /\ found \in [Installers -> Targets]
  /\ pc \in [Installers -> Running \cup Ended \cup {"idle"}]
  /\ adopted \in Targets

SkillInit ==
  /\ target \in Targets
  /\ staging = [q \in Installers |-> Absent]
  /\ backup = [q \in Installers |-> Absent]
  /\ payload \in [Installers -> Versions]
  /\ found = [q \in Installers |-> Absent]
  /\ pc = [q \in Installers |-> "idle"]
  /\ adopted = target

-----------------------------------------------------------------------------

Goes(q, from, to) == pc[q] = from /\ pc' = [pc EXCEPT ![q] = to]

DropStaging(q) == staging' = [staging EXCEPT ![q] = Absent]

\* _verify_native_tura_skill_target accepts the target.
Verified(q) == target = payload[q]

\* A call that replaces nothing: there was no target.
Fresh(q) == found[q] = Absent

Alone(q) ==
  \A p \in Installers \ {q} :
    pc[p] \in Running => p \notin Replacers /\ q \notin Replacers

BeginInstall(q) ==
  /\ Alone(q)
  /\ Goes(q, "idle", IF target = Absent THEN "packing" ELSE "checking")
  /\ found' = [found EXCEPT ![q] = target]
  /\ UNCHANGED <<target, staging, backup, payload, adopted>>

FindSame(q) ==
  /\ Verified(q)
  /\ Goes(q, "checking", "done")
  /\ adopted' = payload[q]
  /\ UNCHANGED <<target, staging, backup, payload, found>>

\* Another target is replaced only on request, and only a plain directory.
FindOther(q) ==
  /\ ~Verified(q)
  /\ Goes(q, "checking", IF q \in Replacers /\ target \in Versions THEN "packing" ELSE "failed")
  /\ UNCHANGED <<target, staging, backup, payload, found, adopted>>

\* _stage_native_tura_skill: a new directory, then its files.
Pack(q) ==
  /\ Goes(q, "packing", "writing")
  /\ staging' = [staging EXCEPT ![q] = Partial]
  /\ UNCHANGED <<target, backup, payload, found, adopted>>

NotPacked(q) ==
  /\ Goes(q, "writing", "staged")
  /\ UNCHANGED <<target, staging, backup, payload, found, adopted>>

Packed(q) ==
  /\ Goes(q, "writing", "staged")
  /\ staging' = [staging EXCEPT ![q] = payload[q]]
  /\ UNCHANGED <<target, backup, payload, found, adopted>>

-----------------------------------------------------------------------------
(* There was no target.                                                    *)

Place(q) ==
  /\ Fresh(q) /\ target = Absent
  /\ Goes(q, "staged", "placed")
  /\ target' = staging[q]
  /\ adopted' = staging[q]
  /\ DropStaging(q)
  /\ UNCHANGED <<backup, payload, found>>

\* A racing call was first: its target has to be what this call installs.
PlaceTaken(q) ==
  /\ Fresh(q) /\ target # Absent
  /\ Goes(q, "staged", IF Verified(q) THEN "placed" ELSE "failed")
  /\ DropStaging(q)
  /\ UNCHANGED <<target, backup, payload, found, adopted>>

Confirm(q) ==
  /\ Goes(q, "placed", IF Verified(q) THEN "done" ELSE "failed")
  /\ adopted' = IF Verified(q) THEN payload[q] ELSE adopted
  /\ UNCHANGED <<target, staging, backup, payload, found>>

-----------------------------------------------------------------------------
(* _replace_native_tura_skill_target.                                      *)

SetAside(q) ==
  /\ ~Fresh(q) /\ target # Absent
  /\ Goes(q, "staged", "moved")
  /\ backup' = [backup EXCEPT ![q] = target]
  /\ target' = Absent
  /\ UNCHANGED <<staging, payload, found, adopted>>

Swap(q) ==
  /\ target = Absent
  /\ Goes(q, "moved", "swapped")
  /\ target' = staging[q]
  /\ DropStaging(q)
  /\ UNCHANGED <<backup, payload, found, adopted>>

Accept(q) ==
  /\ Verified(q)
  /\ Goes(q, "swapped", "accepted")
  /\ adopted' = payload[q]
  /\ UNCHANGED <<target, staging, backup, payload, found>>

ForgetEarly(q) ==
  /\ \/ Goes(q, "swapped", "swapped")
     \/ Goes(q, "accepted", "done")
  /\ backup' = [backup EXCEPT ![q] = Absent]
  /\ UNCHANGED <<target, staging, payload, found, adopted>>

Forget(q) ==
  /\ Goes(q, "accepted", "done")
  /\ backup' = [backup EXCEPT ![q] = Absent]
  /\ UNCHANGED <<target, staging, payload, found, adopted>>

\* The handler, then the finally clause: if there is a target it goes back to
\* the staging directory, which is removed at the end.
Examine(q) ==
  /\ Goes(q, "failing", IF target = Absent THEN "restoring" ELSE "evicting")
  /\ UNCHANGED <<target, staging, backup, payload, found, adopted>>

Evict(q) ==
  /\ target # Absent /\ staging[q] = Absent
  /\ Goes(q, "evicting", "restoring")
  /\ staging' = [staging EXCEPT ![q] = target]
  /\ target' = Absent
  /\ UNCHANGED <<backup, payload, found, adopted>>

NotRestored(q) ==
  /\ Goes(q, "restoring", "cleaning")
  /\ UNCHANGED <<target, staging, backup, payload, found, adopted>>

Restore(q) ==
  /\ target = Absent
  /\ Goes(q, "restoring", "cleaning")
  /\ target' = backup[q]
  /\ backup' = [backup EXCEPT ![q] = Absent]
  /\ UNCHANGED <<staging, payload, found, adopted>>

Clean(q) ==
  /\ Goes(q, "cleaning", "failed")
  /\ DropStaging(q)
  /\ UNCHANGED <<target, backup, payload, found, adopted>>

-----------------------------------------------------------------------------
(* Errors, kills and interrupts.                                           *)

\* Nothing is to be undone: reading, staging, or the directory's fsync raises.
RaiseBefore(q) ==
  /\ \E from \in {"checking", "packing", "writing", "staged", "placed"} : Goes(q, from, "failed")
  /\ DropStaging(q)
  /\ UNCHANGED <<target, backup, payload, found, adopted>>

\* No name for the backup can be had: the staging directory is left behind.
RaiseBetween(q) ==
  /\ ~Fresh(q)
  /\ Goes(q, "staged", "failed")
  /\ UNCHANGED <<target, staging, backup, payload, found, adopted>>

\* The second rename, the fsync or the verification raises.
RaiseWithin(q) ==
  /\ \E from \in {"moved", "swapped"} : Goes(q, from, "failing")
  /\ UNCHANGED <<target, staging, backup, payload, found, adopted>>

\* The preimage cannot be removed.
RaiseAfter(q) ==
  /\ Goes(q, "accepted", "unclean")
  /\ UNCHANGED <<target, staging, backup, payload, found, adopted>>

\* The process is killed; or it is interrupted, which no handler catches but
\* after which the finally clause removes the staging directory.
KillCall(q) ==
  /\ q \in Killable
  /\ \E from \in Running : Goes(q, from, "dead")
  /\ DropStaging(q) \/ UNCHANGED staging
  /\ UNCHANGED <<target, backup, payload, found, adopted>>

-----------------------------------------------------------------------------
InstallStep(q) ==
  \/ BeginInstall(q) \/ FindSame(q) \/ FindOther(q) \/ Pack(q) \/ Packed(q)
  \/ Place(q) \/ PlaceTaken(q) \/ Confirm(q)
  \/ SetAside(q) \/ Swap(q) \/ Accept(q) \/ Forget(q)
  \/ Examine(q) \/ Evict(q) \/ Restore(q) \/ Clean(q)
  \/ RaiseBefore(q) \/ RaiseBetween(q) \/ RaiseWithin(q) \/ RaiseAfter(q) \/ KillCall(q)

SkillNext == \E q \in Installers : InstallStep(q)

SkillSpec == SkillInit /\ [][SkillNext]_skillVars

-----------------------------------------------------------------------------
(* Properties.                                                             *)

\* At every moment, so after any crash, the version in effect is on disk as a
\* whole: at the target, or in the backup of the call that is replacing it
\* or died while it was (docs/native-tura-role.md:43).
SkillNeverLost ==
  adopted # Absent => adopted \in {target} \cup {backup[q] : q \in Installers}

\* Once every call has returned or raised, the target is the version that was
\* last put in place and verified: failed replacements restored what they
\* found, and no call returned on another version (native_tura.py:777).
InEffectAtRest ==
  (\A q \in Installers : pc[q] \notin Running \cup {"dead"}) => target = adopted

(* The inductive invariant behind the properties.                          *)

\* The version in effect is not at the target.
Away == {"moved", "swapped", "failing", "evicting", "restoring"}

\* A call that died had put the version in effect aside.
HeldByDead == \E q \in Installers : pc[q] = "dead" /\ backup[q] = adopted

StagedWhole ==
  \A q \in Installers : pc[q] \in {"staged", "moved"} => staging[q] = payload[q]

\* A replacing call has no rival, and only a replacing call moves a target.
OneReplacer ==
  \A q \in Installers :
    /\ q \in Replacers /\ pc[q] \in Running =>
         \A p \in Installers \ {q} : pc[p] \notin Running
    /\ pc[q] \in {"packing", "writing", "staged"} => Fresh(q) \/ q \in Replacers
    /\ pc[q] \in Away \cup {"accepted", "cleaning"} => q \in Replacers

\* Where the version in effect is.
InstallInv ==
  /\ \A q \in Installers : pc[q] \in Away => backup[q] = adopted \/ HeldByDead
  /\ \A q \in Installers : pc[q] \in {"moved", "restoring"} => target = Absent
  /\ (\A q \in Installers : pc[q] \notin Away) => target = adopted \/ HeldByDead
=============================================================================
