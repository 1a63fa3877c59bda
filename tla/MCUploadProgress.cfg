\* The two-call instance, asked whether bytesSent ends at totalBytes.
CONSTANTS
  NCalls = 2
  Parallelism = 2
  MaxRetries = 0
  CompleteRetries = 0
  PollMax = 1
  WithSignal = {}
  Sizes = {3, 4}
  Threshold = 1
  ChunkBytes = 2
SPECIFICATION Spec
CHECK_DEADLOCK FALSE
INVARIANTS
  ProgressIsFraction
