CONSTANTS
  s1 = s1
  s2 = s2
  r1 = r1
  p1 = p1
  p2 = p2
  tmpname = tmpname
  g1 = g1
  g2 = g2
  i1 = i1
  i2 = i2
  i3 = i3
  i4 = i4
  NoFile = NoFile
  Hole = Hole
  Savers <- TwoSavers
  Readers <- OneReader
  Paths <- TwoPaths
  Temps <- OneTmp
  TmpOf <- MCTmpOf
  Graphs <- TwoGraphs
  Blocks <- UnevenBlocks
  Inodes <- FourInodes
  MaxSaves = 2
  MaxCrashes = 1
  RotBytes = {}
  MaxRot = 0
SPECIFICATION SerialSpec
SYMMETRY SaversAndPaths
INVARIANTS
  TypeOK
  ReadersSeeWholeFiles
PROPERTY ImplementsAtomicFile
\* the saves allowed run out
CHECK_DEADLOCK FALSE
