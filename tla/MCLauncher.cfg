SPECIFICATION Spec
CONSTANTS
  ja = ja
  jb = jb
  jc = jc
  Job <- MCJob
  N = 3
  Demands <- MCDemands
  MaxBatch = 2
  MaxEvents = 2
  Schedulers <- MCSchedulers
CHECK_DEADLOCK FALSE
INVARIANT LauncherTypeOK
INVARIANT Exclusive
INVARIANT AvailableMeansUsable
INVARIANT SleepAgrees
INVARIANT NothingLeftUndone
PROPERTY JobsEnd
