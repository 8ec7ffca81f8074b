CONSTANTS
  Durations = {0, 1, 3}
  Epochs = {1}
  Steps <- MCForward
  Lags = {0}
  MaxStarts = 3
  Horizon = 4
  MaxDepth = 1
SPECIFICATION Spec
PROPERTIES NewTimersWait
