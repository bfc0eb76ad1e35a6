SPECIFICATION Spec
CONSTANTS
  BufferSize = 2
  BatchSize = 3
  MaxEvents = 5
INVARIANTS NoSendAfterClose EventsAccounted InOrder CloseDrains
PROPERTY CloseEnds
