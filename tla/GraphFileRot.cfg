CONSTANTS
  s1 = s1
  s2 = s2
  r1 = r1
  p1 = p1
  p2 = p2
  tmpname = tmpname
  g1 = g1
  g2 = g2
  i1 = i1
  i2 = i2
  i3 = i3
  i4 = i4
  NoFile = NoFile
  Hole = Hole
  Savers <- OneSaver
  Readers <- OneReader
  Paths <- OnePath
  Temps <- OneTmp
  TmpOf <- MCTmpOf
  Graphs <- TwoGraphs
  Blocks <- UnevenBlocks
  Inodes <- ThreeInodes
  MaxSaves = 1
  MaxCrashes = 1
  RotBytes = {0, 5, 6, 7, 8, 16, 24}
  MaxRot = 2
SPECIFICATION SerialSpec
INVARIANTS
  WrongGraphNeverLoaded
  ErrorsNameDamage
\* the saves allowed run out
CHECK_DEADLOCK FALSE
