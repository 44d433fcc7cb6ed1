CONSTANTS
  Kinds = {Listener}
  Listener = Listener
  Callers = {c1, c2}
  Values = {"a", "b"}
  MaxRequests = 2
  MaxFailures = 1
SPECIFICATION MCSpec
INVARIANTS
  TypeOK
  RunsOnce
  ShutdownIsFinal
  SnapshotsHold
  ReadyMeansListed
PROPERTIES
  StoreChangesOnlyByRequest
  WaitReturns
  ShutdownReturns
CHECK_DEADLOCK FALSE
