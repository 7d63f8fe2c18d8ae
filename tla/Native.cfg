\* Three publishers, one of which may be killed, and a loader; a replacement
\* that may be killed, another one, and two installations that race.
SPECIFICATION NativeSpec
CONSTANTS
  Publishers = {q1, q2, q3}
  Mortal = {q1}
  Loaders = {l1}
  Revisions = {1, 2}
  Contents = {a, b}
  NoFile = NoFile
  Installers = {i1, i2, i3, i4}
  Replacers = {i1, i2}
  Killable = {i1}
  Versions = {v1, v2, v3}
  Irregular = Irregular
  Partial = Partial
  Absent = Absent
CHECK_DEADLOCK FALSE
INVARIANTS CapsuleTypeOK PublishedReadable PublishedInOrder LoadSeesPublished SequentialPublishersAgree NoStrayTemporaries SkillTypeOK SkillNeverLost InEffectAtRest
PROPERTIES CapsulesImmutable
