\* Two publishers race with different inputs.
SPECIFICATION Spec
CONSTANTS
  Publishers = {q1, q2}
  Mortal = {}
  Loaders = {l1}
  Revisions = {1, 2}
  Contents = {a, b}
  NoFile = NoFile
CHECK_DEADLOCK FALSE
INVARIANTS OneInputPerRevision
