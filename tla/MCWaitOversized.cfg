\* One frame over the parser's caps: poe.ts's "no status change is missed".
CONSTANTS
  Targets = {"confirmed"}
  Deadline = FALSE
  WithSignal = FALSE
  SignalAware = TRUE
  MaxSeq = 4
  MaxFaults = 0
  MaxPings = 0
  MaxOversized = 1
  LadderTop = 2
SPECIFICATION Spec
CHECK_DEADLOCK FALSE
INVARIANT NoChangeMissed
