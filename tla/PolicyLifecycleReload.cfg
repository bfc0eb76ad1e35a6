SPECIFICATION Spec
CONSTANTS
  Events = {e1}
  PoolSize = 1
  QueueCap = 1
  MaxReload = 1
INVARIANT ReloadSurvives
