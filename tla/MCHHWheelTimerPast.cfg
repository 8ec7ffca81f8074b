CONSTANTS
  Durations = {0, 1}
  Epochs = {1}
  Steps <- MCForward
  Lags = {0}
  MaxStarts = 2
  Horizon = 5
  MaxDepth = 2
  TVR_SIZE = 2
  TVN_SIZE = 2
SPECIFICATION Spec
INVARIANTS PastRunsNext
