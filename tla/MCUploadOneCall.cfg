\* One call, three chunks over two lanes, every loop at a limit of its own.
CONSTANTS
  NCalls = 1
  Parallelism = 2
  MaxRetries = 1
  CompleteRetries = 1
  PollMax = 2
  WithSignal = {1}
  Sizes = {1, 5}
  Threshold = 1
  ChunkBytes = 2
SPECIFICATION FairSpec
CHECK_DEADLOCK FALSE
INVARIANTS
  TypeOK
  CompleteOnlyWhenAcked
  NoLaneBehind
  ClaimedOnce
PROPERTIES
  EveryCallSettles
  OrphansStop
