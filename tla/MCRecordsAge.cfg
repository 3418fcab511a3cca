\* One provider and a node that looks the key up.
SPECIFICATION AgeSpec
CONSTANTS
  p = p
  q = q
  Nodes = {p, q}
  Providers = {p}
  Seekers = {q}
  RecordTTL = 3
  RepublishInterval = 2
  Replicas = 2
  NoNode = NoNode
INVARIANT ReplicasExpire
