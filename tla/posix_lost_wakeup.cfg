SPECIFICATION Spec
CONSTANTS
  Ids = {r1, r2, r3}
  Blockers = {b}
  FdHandles = {f}
  Dependents = {d}
  MaxTime = 1
  Slack = 0
  MinDelay = 1
  SharedHandles = FALSE
  FreeTriggers = TRUE
  InitStatus = {"Undefined"}
INVARIANT TriggerNotForgotten
