CONSTANTS
  Durations = {1, 4}
  Epochs = {1}
  Steps <- MCBack
  Lags = {0}
  MaxStarts = 3
  Horizon = 7
  MaxDepth = 2
  TVR_SIZE = 2
  TVN_SIZE = 2
SPECIFICATION FairSpec
INVARIANTS TypeOK LinkedOnce OnSchedule
PROPERTIES ImplementsService TickMissesNone FifoOnceAhead UpdateEnds OverdueTimersEnd
