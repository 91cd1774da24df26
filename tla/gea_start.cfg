\* The process goes on in the event loop when the input is closed.
SPECIFICATION FairSpec
CONSTANTS
  MaxLength = 5
  Inputs <- Texts
  bsize = 3
INVARIANTS
  TypeOK
  NothingLost
  NoneLeftBehind
  StartedInOrder
PROPERTIES
  ReaderEnds
  AllStarted
CHECK_DEADLOCK FALSE
