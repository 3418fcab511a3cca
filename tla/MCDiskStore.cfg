\* One client with a crash or a cancellation, or two writers; one collection.
SPECIFICATION BoundedFairSpec
CONSTANTS
  m = m
  a = a
  p1 = p1
  p2 = p2
  CID <- File
  Kind <- FileKind
  Links <- FileLinks
  Clients = {p1, p2}
  Collectors = {g}
  Loops = {g}
  HasFetcher = TRUE
  MaxFaults = 1
  Pinnable = {m}
INVARIANTS TypeOK TornWhileWritten
PROPERTIES PinnedDagSurvives GarbageReclaimed
