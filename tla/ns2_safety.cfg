SPECIFICATION Spec
CONSTANTS
  Ids = {r1, r2, r3}
  Blockers = {b, c}
  Dependents = {d1, d2}
  Readers = {u}
  Writers = {w}
  n1 = n1
  n2 = n2
  remote = c
  Nodes = {n1, n2}
  NodeOf <- Placement
  Gran = 2
  MaxClock = 3
  MaxDepth = 3
  MinDelay = 2
  SharedHandles = FALSE
  FreeTriggers = FALSE
  LazyReaders = FALSE
  InitStatus = {"Undefined"}
  NoId = NoId
  NoHandle = NoHandle
  NoNode = NoNode
SYMMETRY Interchangeable
INVARIANTS
  TypeOK
  NoAbort
  ReadyWhenCalled
  NoTriggerLeftBehind
  NodeContext
PROPERTY ApiSpec
