\* A step is left unsettled when its mission moves on.
SPECIFICATION Spec
CONSTANTS
  p1 = p1  p2 = p2  r1 = r1  r2 = r2  a = a  b = b
  NoEffect = NoEffect
  Missions = {m1}
  Predicates = {p1, p2}
  PredicateOrder <- TwoOrder
  Routes = {r1, r2}
  RouteOrder <- TwoRoutes
  RoutePredicate <- SplitPredicate
  DeclaredTruths <- JustFalse
  ReadbackTruths <- FlipTruths
  MaxRevision = 2
  MaxSequence = 1
  Items = {a, b}
  RouteScope <- Apart
  Effects = {e1}
  StepEffects = {s1}
  MaxPlanned = 2
  MaxSteps = 2
CHECK_DEADLOCK FALSE
INVARIANTS EveryAttemptHasAWayOut
