\* Two providers, one of them looks the key up.
SPECIFICATION FairSpec
CONSTANTS
  p = p
  q = q
  Nodes = {p, q}
  Providers = {p, q}
  Seekers = {q}
  RecordTTL = 3
  RepublishInterval = 2
  Replicas = 1
  NoNode = NoNode
INVARIANTS TypeOK OriginsAreOwn PublishedStaysFresh
PROPERTY CopiesDisappear
