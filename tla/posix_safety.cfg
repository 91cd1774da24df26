\* One handle of each kind, each with at most one waiter, handlers that ask
\* for any time from their own event's time on.
SPECIFICATION Spec
CONSTANTS
  Ids = {r1, r2, r3}
  Blockers = {b}
  FdHandles = {f}
  Dependents = {d1, d2}
  MaxTime = 2
  Slack = 1
  MinDelay = 0
  SharedHandles = FALSE
  FreeTriggers = FALSE
  InitStatus = {"Undefined"}
SYMMETRY Interchangeable
INVARIANTS
  TypeOK
  ErasesTheCalledEntry
  ReadyWhenCalled
  WakesAllWaiters
  WokenOnlyByATrigger
PROPERTIES
  ApiSpec
  RoundsShrink
