\* One packet with a budget for three small recoveries, or a small and a large one.
SPECIFICATION RecoverySpec
CONSTANTS
  p1 = p1  p2 = p2  r1 = r1  r2 = r2  a = a  b = b
  NoEffect = NoEffect
  NoStep = NoStep
  Missions = {m1}
  Predicates = {p1}
  PredicateOrder <- OneOrder
  Routes = {r1}
  RouteOrder <- OneRoute
  RoutePredicate <- OnePredicate
  DeclaredTruths <- JustFalse
  ReadbackTruths <- NoReadback
  MaxRevision = 1
  MaxSequence = 0
  Items = {a, b}
  RouteScope <- Apart
  Effects = {}
  StepEffects = {s1}
  MaxPlanned = 1
  MaxSteps = 2
  RecoveryActions = {fix}
  ActionGraphs <- Repetitions
  StateDigests = {before}
  BlockerFaults = {}
  ProposalFaults = {scope}
  RecoveryBudget = 3
  Budgets = {1, 2}
  MaxBlockers = 2
  MaxProposals = 3
CHECK_DEADLOCK FALSE
INVARIANTS RecoveryTypeOK BudgetKept OneAdmissionPerFingerprint  NoReceiptOverUnsettledStep
PROPERTIES WedgeIsPermanent
