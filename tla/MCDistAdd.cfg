\* A file of one chunk is added to two peers, one answer is lost.
SPECIFICATION MCSpec
CONSTANTS
  a = a
  m = m
  me = me
  p = p
  q = q
  CID = {a, m}
  Kind <- MCKind
  Links <- MCLinks
  Me = me
  Peers = {p, q}
  Accepting = {p}
  Replicas = 1
  Files <- MCFiles
  MaxAdds = 1
  MaxLost = 1
  Collecting = {me, p}
  Caching = {me, p}
  MaxReads = 1
  Mortal = {p}
CHECK_DEADLOCK FALSE
INVARIANTS TypeOK PlacedIsHeld AddedIsPlaced
PROPERTY AddEnds
