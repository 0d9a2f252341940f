CONSTANTS
  t1 = t1
  t2 = t2
  t3 = t3
  Idle = Idle
  Callers <- TwoCallers
  NodeArgs <- MCNodeArgs
  EdgeArgs <- MCEdgeArgs
  IdSpace = 16
  MaxRows = 2
SPECIFICATION SerialSpec
INVARIANT RowsIntact
PROPERTY ImplementsRowLog
\* the graph is consumed by freeze and stops
CHECK_DEADLOCK FALSE
