SPECIFICATION Spec
CONSTANTS
  ja = ja
  jb = jb
  jc = jc
  jd = jd
  je = je
  Job <- FourJobs
  N = 4
  Demands <- MCDemands
  Walltimes <- MCWalltimes
  MaxBatch = 2
  Infinity = 99
CHECK_DEADLOCK FALSE
INVARIANT FreeSpacesExact
INVARIANT NoneLeftBehind
PROPERTY JobsEnd
