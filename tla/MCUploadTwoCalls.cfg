\* Two calls in a row, fresh or resumed, with the orphans of the first.
CONSTANTS
  NCalls = 2
  Parallelism = 2
  MaxRetries = 0
  CompleteRetries = 0
  PollMax = 1
  WithSignal = {}
  Sizes = {3, 4}
  Threshold = 1
  ChunkBytes = 2
SPECIFICATION Spec
CHECK_DEADLOCK FALSE
INVARIANTS
  EveryPutFits
  PersistBeforePut
  ErrorMeansAbandoned
  NoSilentLeak
PROPERTY
  ImplementsContract
