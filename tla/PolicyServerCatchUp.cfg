SPECIFICATION Spec
CONSTANTS
  a1 = a1
  a2 = a2
  p = p
  q = q
  r1 = r1
  r2 = r2
  Agents = {a1}
  Policies = {p}
  Rollouts = {r1, r2}
  Selects <- TwoPolicies
  Priority <- HigherQ
  Bucket <- Buckets
  Percents = {0, 50, 100}
  MaxPushes = 3
  Documented = TRUE
INVARIANT VersionHonest
PROPERTY CaughtUp
