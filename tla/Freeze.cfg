CONSTANTS
  Uninit = Uninit
  h1 = h1
  h2 = h2
  h3 = h3
  h4 = h4
  f1 = f1
  f2 = f2
  NoGroup = NoGroup
  IdSpace = 3
  Pending = Pending
  Panicked = Panicked
  Names <- MCNames
  Files <- MCFiles
  Resolve <- MCResolve
  BitmapSize <- MCBitmapSize
  Inputs <- MCInputs
SPECIFICATION Spec
INVARIANTS
  TypeOK
  ForwardRowsExact
  EdgeCountExact
  SlotsWrittenOnce
  ReverseRowsExact
  NoDanglingTarget
  LabelWalkExact
  HighestNodeWins
  FilesPartitionNodes
  BareNamesExact
  KeysAscend
PROPERTIES
  ImplementsGraphStore
  EveryLoopEnds
\* freeze returns or panics and stops
CHECK_DEADLOCK FALSE
