\* Three nested calls between two nodes, one of which attaches again.
SPECIFICATION FairSpec
CONSTANTS
  A = A
  B = B
  a1 = a1
  a2 = a2
  b1 = b1
  r1 = r1
  r2 = r2
  r3 = r3
  None = None
  Nodes = {A, B}
  Conns = {a1, a2, b1}
  Requests = {r1, r2, r3}
  Owner <- TheOwner
  Target <- TheTarget
  Sub <- TheSub
CHECK_DEADLOCK FALSE
INVARIANTS TypeOK AttachedIsServed WaitersAreOwed
PROPERTY RequestsServed
