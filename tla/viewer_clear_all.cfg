SPECIFICATION Spec
CONSTANTS
  a = a
  b = b
  c = c
  d = d
  p = p
  q = q
  Ids = {a, b}
  Copies = 2
  NoNode = NoNode
  NullEdge = NullEdge
  NoThread = NoThread
  Sources = {p}
  Links <- Pair
  Tags = {"node", "edge", "modify_edge"}
  Careful = FALSE
  Reconnect = TRUE
  Counting = FALSE
  MaxEdges = 2
  MaxCount = 2
PROPERTY ClearAllClears
CHECK_DEADLOCK FALSE
