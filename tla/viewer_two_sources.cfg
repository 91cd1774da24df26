SPECIFICATION Spec
CONSTANTS
  a = a
  b = b
  c = c
  d = d
  p = p
  q = q
  Ids = {a, b}
  Copies = 2
  NoNode = NoNode
  NullEdge = NullEdge
  NoThread = NoThread
  Sources = {p, q}
  Links <- Pair
  Tags = {"node", "modify_node", "remove_node", "edge", "remove_edge"}
  Careful = FALSE
  Reconnect = FALSE
  Counting = FALSE
  MaxEdges = 1
  MaxCount = 2
INVARIANTS
  RegistryAgrees
  ListsAgree
  VisibleIsComplete
  ScanInRange
PROPERTY ShownEdgesStay
CHECK_DEADLOCK FALSE
SYMMETRY SourceSymmetry
