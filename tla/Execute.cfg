\* Two threads execute the packets of one mission.
SPECIFICATION HarnessSpec
CONSTANTS
  p1 = p1  p2 = p2  r1 = r1  r2 = r2  a = a  b = b
  NoEffect = NoEffect
  Missions = {m1}
  Predicates = {p1}
  PredicateOrder <- OneOrder
  Routes = {r1, r2}
  RouteOrder <- TwoRoutes
  RoutePredicate <- OnePredicate
  DeclaredTruths <- JustFalse
  ReadbackTruths <- FalseOrUnknown
  MaxRevision = 1
  MaxSequence = 0
  Items = {a, b}
  RouteScope <- Apart
  Effects = {e1, e2}
  StepEffects = {s1}
  MaxPlanned = 2
  MaxSteps = 1
  Threads = {t1, t2}
SYMMETRY ThreadSymmetry
CHECK_DEADLOCK FALSE
INVARIANTS HarnessTypeOK ExecutedOnce OneOutcome OwnedEffectsAccounted EffectSettledOnce
PROPERTIES SettledEffectKeepsOwner OrphanIsPermanent ImplementsLifecycle
