\* Files of zero to seven bytes, two blocks at a time, one block lost.
SPECIFICATION FairSpec
CONSTANTS
  Files <- MCFiles
  ChunkSize = 2
  Fanout = 2
  InlineSpan = 1
  Parallel = 2
  MaxLost = 1
INVARIANTS TypeOK QuietWhenReturned SendsHaveRoom ReadersAgree
PROPERTIES ImplementsFileContract FetchEnds
