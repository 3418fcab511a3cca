\* A manifest and its data block; the hourly loop, alone or with POST /gc.
SPECIFICATION LoopSpec
CONSTANTS
  m = m
  n = n
  a = a
  p = p
  g = g
  g2 = g2
  Pinnable = {m, a}
  CID <- Small
  Kind <- SmallKind
  Links <- SmallLinks
  Clients = {p}
  Collectors = {g, g2}
  Loops = {g}
INVARIANTS TypeOK MarkInv
PROPERTIES KeepsContract PinnedDagSurvives UnpinSticks GarbageReclaimed GcTerminates
