CONSTANTS
  Durations = {0, 3}
  Epochs = {1}
  Steps <- MCForward
  Lags = {0}
  MaxStarts = 5
  Horizon = 3
  MaxDepth = 2
SPECIFICATION FairSpec
INVARIANTS TypeOK NodesAgree HeapOrder LeakBound
PROPERTIES ImplementsService EarliestFirst UpdateComplete DueNodesLeave UpdateEnds
