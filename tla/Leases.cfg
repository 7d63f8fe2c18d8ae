\* Two packets of a mission, over two of its revisions, compete for two items.
SPECIFICATION Spec
CONSTANTS
  p1 = p1  p2 = p2  r1 = r1  r2 = r2  a = a  b = b
  NoEffect = NoEffect
  Missions = {m1}
  Predicates = {p1}
  PredicateOrder <- OneOrder
  Routes = {r1, r2}
  RouteOrder <- TwoRoutes
  RoutePredicate <- OnePredicate
  DeclaredTruths <- JustFalse
  ReadbackTruths <- FlipTruths
  MaxRevision = 2
  MaxSequence = 1
  Items = {a, b}
  RouteScope <- Overlapping
  Effects = {e1}
  StepEffects = {s1}
  MaxPlanned = 2
  MaxSteps = 1
CHECK_DEADLOCK FALSE
INVARIANTS TypeOK ClaimsSerialised TruthEvidenced SupersededForGood
PROPERTIES ImplementsOwnership ReadbacksForward
