CONSTANTS
  t1 = t1
  t2 = t2
  t3 = t3
  Idle = Idle
  Callers <- TwoCallers
  NodeArgs <- MCNodeArgs
  EdgeArgs <- MCEdgeArgs
  IdSpace = 16
  MaxRows = 2
SPECIFICATION Spec
SYMMETRY CallersSymmetric
INVARIANTS
  TypeOK
  NothingLostOrInvented
  CountersCoverColumns
  IdsUnique
\* the graph is consumed by freeze and stops
CHECK_DEADLOCK FALSE
