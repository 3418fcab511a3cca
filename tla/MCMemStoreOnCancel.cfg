\* What Store.Pin promises, on one file: violated.
SPECIFICATION MemSpec
CONSTANTS
  m = m
  n = n
  a = a
  CID <- File
  Kind <- FileKind
  Links <- FileLinks
  Clients = {p}
  Collectors = {g}
  Loops = {g}
  Pinnable = {m, n}
CONSTRAINT PinBound
PROPERTY PinProtectsOnCancel
