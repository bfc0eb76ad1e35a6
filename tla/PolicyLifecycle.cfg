SPECIFICATION FairSpec
CONSTANTS
  Events = {e1, e2}
  PoolSize = 2
  QueueCap = 2
  MaxReload = 2
INVARIANTS FailedReloadReleases InstancesAccounted NoUseAfterClose
PROPERTY StopCompletes
