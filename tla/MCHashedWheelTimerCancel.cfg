CONSTANTS
  Durations = {0, 18}
  Epochs = {1}
  Steps <- MCForward
  Lags = {0}
  MaxStarts = 2
  Horizon = 11
  MaxDepth = 1
  WHEEL_SIZE = 4
  TICK_DURATION = 4
  TIME_UNIT = 2
  INT_MAX = 31
SPECIFICATION Spec
INVARIANTS CancelAnswers
