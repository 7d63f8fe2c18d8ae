----------------------------- MODULE SkillProofs -----------------------------
(***************************************************************************)
(* Theorems about SkillInstall, for any number of calls and versions.      *)
(***************************************************************************)
EXTENDS SkillInstall, TLAPS

-----------------------------------------------------------------------------
(* Type correctness.                                                       *)

TypeInv == SkillTypeOK /\ StagedWhole

LEMMA InitType == ASSUME SkillInit PROVE TypeInv
  BY DEF SkillInit, TypeInv, SkillTypeOK, StagedWhole, Targets

\* What a call does to the directories it alone names.
LEMMA NextType == ASSUME TypeInv, [SkillNext]_skillVars PROVE TypeInv'
<1> USE DEF TypeInv, SkillTypeOK, StagedWhole, Targets, Running, Rollback, Ended
<1>1. CASE UNCHANGED skillVars
  BY <1>1 DEF skillVars
<1>2. ASSUME NEW q \in Installers, InstallStep(q)
      PROVE  TypeInv'
  <2>1. CASE BeginInstall(q) \/ FindSame(q) \/ FindOther(q) \/ Confirm(q)
    BY <2>1 DEF BeginInstall, FindSame, FindOther, Confirm, Goes
  <2>2. CASE Pack(q) \/ Packed(q)
    BY <2>2 DEF Pack, Packed, Goes
  <2>3. CASE Place(q) \/ PlaceTaken(q)
    BY <2>3 DEF Place, PlaceTaken, Goes, DropStaging
  <2>4. CASE SetAside(q) \/ Swap(q)
    BY <2>4 DEF SetAside, Swap, Goes, DropStaging
  <2>5. CASE Accept(q) \/ Forget(q) \/ Examine(q)
    BY <2>5 DEF Accept, Forget, Examine, Goes
  <2>6. CASE Evict(q) \/ Restore(q) \/ Clean(q)
    BY <2>6 DEF Evict, Restore, Clean, Goes, DropStaging
  <2>7. CASE RaiseBefore(q) \/ RaiseBetween(q) \/ RaiseWithin(q) \/ RaiseAfter(q)
    BY <2>7 DEF RaiseBefore, RaiseBetween, RaiseWithin, RaiseAfter, Goes, DropStaging
  <2>8. CASE KillCall(q)
    BY <2>8 DEF KillCall, Goes, DropStaging
  <2>9. QED
    BY <1>2, <2>1, <2>2, <2>3, <2>4, <2>5, <2>6, <2>7, <2>8 DEF InstallStep
<1>3. QED
  BY <1>1, <1>2 DEF SkillNext

\* The target is never a directory whose files are still being written, and
\* every variable keeps its type: only a staging directory that is complete
\* is renamed to the target.
THEOREM SkillTypeCorrect == SkillSpec => []SkillTypeOK
<1>1. TypeInv => SkillTypeOK
  BY DEF TypeInv
<1>2. QED
  BY <1>1, InitType, NextType, PTL DEF SkillSpec

-----------------------------------------------------------------------------
(* Where the version in effect is.                                         *)

\* Only one call moves in a step.
LEMMA OneCallMoves ==
  ASSUME TypeInv, NEW q \in Installers, NEW from, NEW to, Goes(q, from, to)
  PROVE  /\ pc[q] = from /\ pc'[q] = to
         /\ \A p \in Installers \ {q} : pc'[p] = pc[p]
  BY DEF TypeInv, SkillTypeOK, Goes

LEMMA InitInstall == ASSUME SkillInit PROVE OneReplacer /\ InstallInv
  BY DEF SkillInit, OneReplacer, InstallInv, Running, Rollback, Away

\* A call begins only where it has no rival, and then goes on running.
LEMMA NextOneReplacer ==
  ASSUME TypeInv, OneReplacer, NEW q \in Installers, InstallStep(q)
  PROVE  OneReplacer'
<1> USE DEF OneReplacer, Fresh, Running, Rollback, Away
<1>1. CASE BeginInstall(q)
  <2>1. /\ pc[q] = "idle" /\ pc'[q] \in {"packing", "checking"}
        /\ \A p \in Installers \ {q} : pc'[p] = pc[p] /\ found'[p] = found[p]
        /\ pc'[q] = "packing" => found'[q] = Absent
    BY <1>1 DEF BeginInstall, Goes, TypeInv, SkillTypeOK
  <2>2. \A p \in Installers \ {q} : pc[p] \in Running => p \notin Replacers /\ q \notin Replacers
    BY <1>1 DEF BeginInstall, Alone
  <2>3. QED
    BY <2>1, <2>2
<1>2. ASSUME NEW from \in Running, NEW to \in Running \cup Ended, Goes(q, from, to), found' = found,
             to \in {"packing", "writing", "staged"} => Fresh(q) \/ q \in Replacers,
             to \in Away \cup {"accepted", "cleaning"} => q \in Replacers
      PROVE  OneReplacer'
  <2>1. /\ pc[q] = from /\ pc'[q] = to
        /\ \A p \in Installers \ {q} : pc'[p] = pc[p]
    BY <1>2, OneCallMoves
  <2>2. QED
    BY <1>2, <2>1
<1>3. CASE FindSame(q) \/ FindOther(q) \/ Pack(q) \/ Packed(q)
  BY <1>2, <1>3 DEF FindSame, FindOther, Pack, Packed, Goes, Ended
<1>4. CASE Place(q) \/ PlaceTaken(q) \/ Confirm(q)
  BY <1>2, <1>4 DEF Place, PlaceTaken, Confirm, Goes, Ended
<1>5. CASE SetAside(q) \/ Swap(q) \/ Accept(q) \/ Forget(q)
  BY <1>2, <1>5 DEF SetAside, Swap, Accept, Forget, Goes, Ended
<1>6. CASE Examine(q) \/ Evict(q) \/ Restore(q) \/ Clean(q)
  BY <1>2, <1>6 DEF Examine, Evict, Restore, Clean, Goes, Ended
<1>7. CASE RaiseBefore(q) \/ RaiseBetween(q) \/ RaiseWithin(q) \/ RaiseAfter(q)
  BY <1>2, <1>7 DEF RaiseBefore, RaiseBetween, RaiseWithin, RaiseAfter, Goes, Ended
<1>8. CASE KillCall(q)
  BY <1>2, <1>8 DEF KillCall, Goes, Ended
<1>9. QED
  BY <1>1, <1>3, <1>4, <1>5, <1>6, <1>7, <1>8 DEF InstallStep

\* A step that moves no directory, of a call that is not replacing.
LEMMA StillInstall ==
  ASSUME TypeInv, InstallInv, NEW q \in Installers, NEW from, NEW to, Goes(q, from, to),
         from \notin Away \cup {"dead"}, to \notin Away,
         UNCHANGED <<target, backup, adopted>>
  PROVE  InstallInv'
<1>1. /\ pc[q] = from /\ pc'[q] = to
      /\ \A p \in Installers \ {q} : pc'[p] = pc[p]
  BY OneCallMoves
<1>2. HeldByDead => HeldByDead'
  BY <1>1 DEF HeldByDead
<1>3. QED
  BY <1>1, <1>2 DEF InstallInv, Away

\* A step that ends with the version in effect at the target, of a call that
\* has no replacing rival.
LEMMA AdoptInstall ==
  ASSUME TypeInv, OneReplacer, InstallInv, NEW q \in Installers, NEW from \in Running, NEW to,
         Goes(q, from, to), to \notin Away, adopted' = target'
  PROVE  InstallInv'
<1>1. /\ pc[q] = from /\ pc'[q] = to
      /\ \A p \in Installers \ {q} : pc'[p] = pc[p]
  BY OneCallMoves
<1>2. \A p \in Installers : pc'[p] \notin Away
  BY <1>1 DEF OneReplacer, Away, Running, Rollback
<1>3. QED
  BY <1>2 DEF InstallInv, Away

\* A step of a replacing call between the two renames and the end of the
\* rollback: its own backup, or a dead call's, holds the version in effect.
LEMMA AwayInstall ==
  ASSUME TypeInv, OneReplacer, InstallInv, NEW q \in Replacers,
         NEW from \in Running, NEW to \in Away, Goes(q, from, to),
         \/ backup'[q] = adopted \/ HeldByDead,
         \A p \in Installers \ {q} : backup'[p] = backup[p],
         to \in {"moved", "restoring"} => target' = Absent,
         adopted' = adopted
  PROVE  InstallInv'
<1>1. q \in Installers
  BY SkillAssumption
<1>2. /\ pc[q] = from /\ pc'[q] = to
      /\ \A p \in Installers \ {q} : pc'[p] = pc[p]
  BY <1>1, OneCallMoves
<1>3. \A p \in Installers \ {q} : pc'[p] \notin Away
  BY <1>1, <1>2 DEF OneReplacer, Away, Running, Rollback
<1>4. HeldByDead => HeldByDead'
  BY <1>1, <1>2 DEF HeldByDead, Running, Rollback
<1>5. QED
  BY <1>1, <1>2, <1>3, <1>4 DEF InstallInv, Away

\* A rolled-back replacement: what was found is at the target again.
LEMMA RestoreInstall ==
  ASSUME TypeInv, OneReplacer, InstallInv, NEW q \in Installers, Restore(q)
  PROVE  InstallInv'
<1>1. /\ pc[q] = "restoring" /\ pc'[q] = "cleaning"
      /\ \A p \in Installers \ {q} : pc'[p] = pc[p]
  BY OneCallMoves DEF Restore
<1>2. backup[q] = adopted \/ HeldByDead
  BY <1>1 DEF InstallInv, Away
<1>3. target' = backup[q] /\ adopted' = adopted
  BY DEF Restore
<1>4. HeldByDead => HeldByDead'
  BY <1>1 DEF HeldByDead, Restore, TypeInv, SkillTypeOK
<1>5. \A p \in Installers : pc'[p] \notin Away
  BY <1>1 DEF OneReplacer, Away, Running, Rollback
<1>6. QED
  BY <1>2, <1>3, <1>4, <1>5 DEF InstallInv, Away

\* A call that dies leaves what it had put aside.
LEMMA KillInstall ==
  ASSUME TypeInv, OneReplacer, InstallInv, NEW q \in Installers, KillCall(q)
  PROVE  InstallInv'
<1>1. PICK from \in Running : Goes(q, from, "dead")
  BY DEF KillCall
<1>2. /\ pc[q] = from /\ pc'[q] = "dead"
      /\ \A p \in Installers \ {q} : pc'[p] = pc[p]
      /\ UNCHANGED <<target, backup, adopted>>
  BY <1>1, OneCallMoves DEF KillCall
<1>3. HeldByDead => HeldByDead'
  BY <1>2 DEF HeldByDead
<1>4. from \in Away => HeldByDead'
  BY <1>2, <1>3 DEF InstallInv, HeldByDead
<1>5. QED
  BY <1>2, <1>3, <1>4 DEF InstallInv, Away

LEMMA NextInstall ==
  ASSUME TypeInv, OneReplacer, InstallInv, [SkillNext]_skillVars
  PROVE  InstallInv'
<1>1. CASE UNCHANGED skillVars
  BY <1>1 DEF skillVars, InstallInv, HeldByDead
<1>2. ASSUME NEW q \in Installers, InstallStep(q)
      PROVE  InstallInv'
  <2>1. CASE BeginInstall(q) \/ FindOther(q) \/ Pack(q) \/ Packed(q) \/ PlaceTaken(q)
    BY <2>1, StillInstall DEF BeginInstall, FindOther, Pack, Packed, PlaceTaken, Goes, Away
  <2>2. CASE FindSame(q)
    BY <2>2, AdoptInstall DEF FindSame, Verified, Running, Away
  <2>3. CASE Place(q)
    BY <2>3, AdoptInstall DEF Place, Running, Away
  <2>4. CASE Confirm(q)
    <3>1. CASE Verified(q)
      BY <2>4, <3>1, AdoptInstall DEF Confirm, Verified, Running, Away
    <3>2. CASE ~Verified(q)
      BY <2>4, <3>2, StillInstall DEF Confirm, Away
    <3>3. QED
      BY <3>1, <3>2
  <2>5. CASE SetAside(q)
    <3>1. pc[q] = "staged" /\ q \in Replacers
      BY <2>5 DEF SetAside, Goes, OneReplacer
    <3>2. \A p \in Installers : pc[p] \notin Away
      BY <3>1 DEF OneReplacer, Away, Running, Rollback
    <3>3. backup'[q] = adopted \/ HeldByDead
      BY <2>5, <3>2 DEF SetAside, InstallInv, TypeInv, SkillTypeOK
    <3>4. QED
      BY <2>5, <3>1, <3>3, AwayInstall
         DEF SetAside, Running, Away, TypeInv, SkillTypeOK
  <2>6. CASE Swap(q) \/ Examine(q) \/ Evict(q) \/ RaiseWithin(q)
    <3>1. pc[q] \in Away /\ q \in Replacers
      BY <2>6 DEF Swap, Examine, Evict, RaiseWithin, Goes, OneReplacer, Away
    <3>2. (backup[q] = adopted \/ HeldByDead) /\ UNCHANGED <<backup, adopted>>
      BY <2>6, <3>1 DEF Swap, Examine, Evict, RaiseWithin, InstallInv
    <3>3. \E from \in Running, to \in Away :
            Goes(q, from, to) /\ (to \in {"moved", "restoring"} => target' = Absent)
      BY <2>6 DEF Swap, Examine, Evict, RaiseWithin, Goes, Away, Running, Rollback
    <3>4. QED
      BY <3>1, <3>2, <3>3, AwayInstall
  <2>7. CASE Accept(q)
    BY <2>7, AdoptInstall DEF Accept, Verified, Running, Away
  <2>8. CASE Forget(q)
    <3>1. /\ pc[q] = "accepted" /\ pc'[q] = "done"
          /\ \A p \in Installers \ {q} : pc'[p] = pc[p] /\ backup'[p] = backup[p]
          /\ UNCHANGED <<target, adopted>>
      BY <2>8, OneCallMoves DEF Forget, TypeInv, SkillTypeOK
    <3>2. HeldByDead => HeldByDead'
      BY <3>1 DEF HeldByDead
    <3>3. \A p \in Installers : pc[p] \notin Away
      BY <3>1 DEF OneReplacer, Away, Running, Rollback
    <3>4. QED
      BY <3>1, <3>2, <3>3 DEF InstallInv, Away
  <2>9. CASE Restore(q)
    BY <2>9, RestoreInstall
  <2>10. CASE Clean(q) \/ RaiseBefore(q) \/ RaiseBetween(q) \/ RaiseAfter(q)
    BY <2>10, StillInstall DEF Clean, RaiseBefore, RaiseBetween, RaiseAfter, Away
  <2>11. CASE KillCall(q)
    BY <2>11, KillInstall
  <2>12. QED
    BY <1>2, <2>1, <2>2, <2>3, <2>4, <2>5, <2>6, <2>7, <2>8, <2>9, <2>10, <2>11 DEF InstallStep
<1>3. QED
  BY <1>1, <1>2 DEF SkillNext

LEMMA InstallAlways == SkillSpec => [](TypeInv /\ OneReplacer /\ InstallInv)
<1>1. TypeInv /\ OneReplacer /\ InstallInv /\ [SkillNext]_skillVars => (TypeInv /\ OneReplacer /\ InstallInv)'
  <2>1. OneReplacer /\ UNCHANGED skillVars => OneReplacer'
    BY DEF OneReplacer, Fresh, skillVars
  <2>2. QED
    BY <2>1, NextType, NextOneReplacer, NextInstall DEF SkillNext
<1>2. QED
  BY <1>1, InitType, InitInstall, PTL DEF SkillSpec

\* Whenever a call is killed, or all of them go on, the version in effect is a
\* whole directory: a replacement removes it only after the new one was
\* verified at the target.
THEOREM SkillsNeverLost == SkillSpec => []SkillNeverLost
<1>1. InstallInv => SkillNeverLost
  BY DEF InstallInv, SkillNeverLost, HeldByDead
<1>2. QED
  BY <1>1, InstallAlways, PTL

\* When all calls have ended and none died, the target is the version that a
\* call last put in place and verified; a failed replacement left no trace
\* there.
THEOREM InEffectWhenAtRest == SkillSpec => []InEffectAtRest
<1>1. InstallInv => InEffectAtRest
  BY DEF InstallInv, InEffectAtRest, HeldByDead, Away, Running, Rollback
<1>2. QED
  BY <1>1, InstallAlways, PTL
=============================================================================
