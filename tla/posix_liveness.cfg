\* Three timers, on handles that may also be ready or triggered, on a clock
\* that goes on.
SPECIFICATION LongRunSpec
CONSTANTS
  Ids = {r1, r2, r3}
  Blockers = {}
  FdHandles = {f}
  Dependents = {d1, d2}
  MaxTime = 2
  Slack = 0
  MinDelay = 1
  SharedHandles = FALSE
  FreeTriggers = FALSE
  InitStatus = {"Undefined"}
PROPERTIES
  TimersAreServed
  RoundsEnd
