SPECIFICATION Spec
CONSTANTS
  p1 = p1
  p2 = p2
  None = None
  Peer <- MCPeer
  Shared <- MCShared
  Sets = 1
  Ways = 1
  Beats = 2
  Lines = 2
  Epochs = 2
  MaxVersion = 1
INVARIANTS
  TypeOK
  Coherent
  StaleIsAnnounced
PROPERTIES
  RequestEnds
