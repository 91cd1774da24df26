SPECIFICATION Spec
CONSTANTS
  a = a
  b = b
  c = c
  d = d
  p = p
  q = q
  Ids = {a, b, c, d}
  Copies = 2
  NoNode = NoNode
  NullEdge = NullEdge
  NoThread = NoThread
  Sources = {p}
  Links <- Chain
  Tags = {"node", "remove_node", "modify_node", "edge", "modify_edge", "remove_edge"}
  Careful = TRUE
  Reconnect = TRUE
  Counting = TRUE
  MaxEdges = 4
  MaxCount = 3
INVARIANTS
  TypeOK
  ListsAgree
  EndsInGraph
  ScanInRange
  TiesAreAPath
  CountersAgree
PROPERTY ClearAllClears
CHECK_DEADLOCK FALSE
