\* Three peers, one under two addresses, one over a relay; two at a time.
SPECIFICATION MCSpec
CONSTANTS
  reval = reval
  IdBits = 3
  KBucketK = 2
  Self <- me
  Contacts <- MCContacts
  Workers <- MCContacts
  Me <- MCMe
  FailureThreshold = 3
  Tables0 <- MCTables0
  Visitors <- MCVisitors
  Mortal <- MCMortal
  Alpha = 2
  Goals <- MCGoals
  Topologies <- MCTopologies
  Relayed <- MCRelayed
  Reval = reval
  Free <- MCFree
  MaxLost <- MCMaxLost
CHECK_DEADLOCK FALSE
INVARIANTS TypeOK TableWellFormed ResultMissesOnlyAsked NewsIsFollowed NotFoundIsExhaustive
PROPERTIES ImplementsPeers OneLostCallForgiven LookupEnds StoppedPeersLeaveNodes
