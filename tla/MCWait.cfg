\* Two failed connections and one frame over the caps over four statuses, with
\* a deadline and an abort.
CONSTANTS
  Targets = {"submitted", "confirmed"}
  Deadline = TRUE
  WithSignal = TRUE
  SignalAware = TRUE
  MaxSeq = 4
  MaxFaults = 2
  MaxPings = 1
  MaxOversized = 1
  LadderTop = 2
SPECIFICATION FairSpec
CHECK_DEADLOCK FALSE
INVARIANTS
  TypeOK
  NoChangeMissedWithinCaps
  FirstDecisiveWins
PROPERTIES
  ResumePointAdvances
  TerminalSettles
  SettledWaitEndsLoop
