CONSTANTS
  t1 = t1
  t2 = t2
  a = a
  b = b
  c = c
  d = d
  NoOne = NoOne
  NoString = NoString
  Threads <- TwoThreads
  Strings <- MCStrings
  Size <- MCSize
  ShardOf <- MCShardOf
  ShardCount = 2
  OffsetSpace = 16
  HeaderBytes = 4
SPECIFICATION FairSpec
INVARIANTS
  TypeOK
  HandlesIdentifyStrings
  RemappedHandlesResolve
  FrozenRecordsDisjoint
  PanicsOnlyWhenFull
  AbortsOnlyWhenExhausted
PROPERTIES
  ImplementsStringTable
  LocksReleased
\* the interner is consumed by compact and stops
CHECK_DEADLOCK FALSE
