CONSTANTS
  Durations = {0, 1}
  Epochs = {1}
  Steps <- MCForward
  Lags = {0}
  MaxStarts = 4
  Horizon = 2
  MaxDepth = 2
SPECIFICATION FairSpec
INVARIANTS TypeOK IndexAgrees
PROPERTIES ImplementsService DueTimersGo UpdateEnds
