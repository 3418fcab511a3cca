\* A manifest and its data block, with every writer of their records.
SPECIFICATION BoundedSpec
CONSTANTS
  m = m
  a = a
  p = p
  rp = rp
  g = g
  CID <- Small
  Kind <- SmallKind
  Links <- SmallLinks
  Clients = {p, rp}
  Collectors = {g}
  Loops = {g}
  Reprovider = rp
PROPERTIES OnlyLateAnnouncesDangle PinnedBlocksAreReprovided
