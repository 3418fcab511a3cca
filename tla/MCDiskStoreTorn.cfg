\* Two writers of one block and a crash: violated.
SPECIFICATION DiskSpec
CONSTANTS
  m = m
  a = a
  p1 = p1
  p2 = p2
  CID <- Data
  Kind <- DataKind
  Links <- DataLinks
  Clients = {p1, p2}
  Collectors = {}
  Loops = {}
  HasFetcher = TRUE
  MaxFaults = 1
  Pinnable = {}
CONSTRAINT PinBound
INVARIANT CrashAffectsTmpOnly
