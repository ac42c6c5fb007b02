SPECIFICATION Spec
CONSTANTS
  u1 = u1  u2 = u2  s1 = s1  bad = bad  probe = probe  m1 = m1  health = health
  ann = ann  bob = bob  nobody = nobody
  Calls = {u1, u2, s1, bad, probe}
  MethodOf <- MCMethodOf
  UserOf <- MCUserOf
  UnaryCalls = {u1, u2, bad, probe}
  Authenticated = {u1, u2, s1}
  HealthMethods = {health}
  MethodLimits <- MCLimits
  DefaultLimit = 2
  Burst = 1
  MaxTicks = 1
  NoLimiter = NoLimiter
INVARIANTS LimitHolds RejectedOnlyAtLimit UnaryAnswersAreHonest
PROPERTIES ImplementsBuckets EveryCallIsAnswered
CHECK_DEADLOCK FALSE
