SPECIFICATION Spec
CONSTANTS
  Threads = {t1, t2}
  Entries <- MCEntries
  MaxEntries = 2
  NotSet = NotSet
INVARIANTS TypeOK FoundExact PoolsIsolated SpecsRight
\* the client stops calling
CHECK_DEADLOCK FALSE
