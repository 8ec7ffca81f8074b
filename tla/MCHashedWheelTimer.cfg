CONSTANTS
  Durations = {0, 9, 18, 33}
  Epochs = {6}
  Steps <- MCBack
  Lags = {0}
  MaxStarts = 3
  Horizon = 16
  MaxDepth = 2
  WHEEL_SIZE = 4
  TICK_DURATION = 4
  TIME_UNIT = 2
  INT_MAX = 31
SPECIFICATION Spec
INVARIANTS TypeOK HeldOnce
PROPERTIES ImplementsUntimed WheelTimeReached UpdateEnds
