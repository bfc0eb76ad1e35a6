SPECIFICATION BooksSpec
CONSTANTS
  Fleet = {a1, a2}
  Threshold = 2
  MaxFlight = 2
  Deltas = {0, 50}
  Windows = {0, 1}
  Mins = {0, 2}
  MaxSamples = 2
  MaxTime = 2
INVARIANTS StatusMeansSilence
PROPERTIES RollbackOnEvidence RollbackHolds SilenceNoticed
