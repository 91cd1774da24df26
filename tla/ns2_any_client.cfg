SPECIFICATION Spec
CONSTANTS
  Ids = {r1, r2}
  Blockers = {b}
  Dependents = {d}
  Readers = {u}
  Writers = {w}
  n1 = n1
  n2 = n2
  remote = n2
  Nodes = {n1}
  NodeOf <- Placement
  Gran = 2
  MaxClock = 3
  MaxDepth = 2
  MinDelay = 0
  SharedHandles = TRUE
  FreeTriggers = TRUE
  LazyReaders = TRUE
  InitStatus = {"Undefined", "Blocked"}
  NoId = NoId
  NoHandle = NoHandle
  NoNode = NoNode
SYMMETRY Interchangeable
INVARIANTS
  TimerSettles
  ArmedHasHandler
