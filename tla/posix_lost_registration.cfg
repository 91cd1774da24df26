SPECIFICATION Spec
CONSTANTS
  Ids = {r1, r2}
  Blockers = {b}
  FdHandles = {f}
  Dependents = {d}
  MaxTime = 2
  Slack = 1
  MinDelay <- BackDated
  SharedHandles = FALSE
  FreeTriggers = FALSE
  InitStatus = {"Undefined"}
INVARIANT ErasesTheCalledEntry
