SPECIFICATION Spec
CONSTANTS
  Ids = {r1, r2, r3}
  Blockers = {b}
  Dependents = {d1, d2}
  Readers = {}
  Writers = {}
  n1 = n1
  n2 = n2
  remote = n2
  Nodes = {n1}
  NodeOf <- Placement
  Gran = 2
  MaxClock = 4
  MaxDepth = 2
  MinDelay = 2
  SharedHandles = FALSE
  FreeTriggers = TRUE
  LazyReaders = FALSE
  InitStatus = {"Undefined"}
  NoId = NoId
  NoHandle = NoHandle
  NoNode = NoNode
INVARIANT NoAbort
