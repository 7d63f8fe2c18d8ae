------------------------------ MODULE MCNative ------------------------------
(***************************************************************************)
(* One instance of the two parts that live on the file system: publishers  *)
(* and loaders in the directory of a task, installing calls in that of the *)
(* skills.  They share neither files nor variables, so the steps of one    *)
(* can all be put before those of the other, and a property of one says    *)
(* nothing of the other: a behaviour is of one part, and the other, all of *)
(* whose calls are still to come, is in one of its initial states.         *)
(***************************************************************************)
EXTENDS Capsule, SkillInstall

VARIABLE part   \* the part that the behaviour is of

CapsulesToCome == input = [q \in Publishers |-> CHOOSE c \in Capsules : TRUE]

SkillsToCome ==
  target = Absent /\ payload = [q \in Installers |-> CHOOSE v \in Versions : TRUE]

NativeInit ==
  /\ Init
  /\ SkillInit
  /\ \/ part = "capsules" /\ SkillsToCome
     \/ part = "skills" /\ CapsulesToCome

NativeNext ==
  \/ part = "capsules" /\ Next /\ UNCHANGED <<skillVars, part>>
  \/ part = "skills" /\ SkillNext /\ UNCHANGED <<vars, part>>

NativeSpec == NativeInit /\ [][NativeNext]_<<vars, skillVars, part>>
=============================================================================
