\* The deadline against a snapshot already in hand.
CONSTANTS
  Targets = {"confirmed"}
  Deadline = TRUE
  WithSignal = FALSE
  SignalAware = TRUE
  MaxSeq = 3
  MaxFaults = 0
  MaxPings = 0
  MaxOversized = 0
  LadderTop = 2
SPECIFICATION Spec
CHECK_DEADLOCK FALSE
PROPERTY TimeoutMeansNotReached
