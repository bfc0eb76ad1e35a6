SPECIFICATION Spec
CONSTANTS
  a1 = a1
  a2 = a2
  p = p
  q = q
  r1 = r1
  r2 = r2
  Agents = {a2}
  Policies = {p, q}
  Rollouts = {r1}
  Selects <- TwoPolicies
  Priority <- HigherQ
  Bucket <- Buckets
  Percents = {50, 80, 100}
  MaxPushes = 3
  Documented = FALSE
PROPERTY NeverGoesBack
