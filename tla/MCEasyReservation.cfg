SPECIFICATION Spec
CONSTANTS
  ja = ja
  jb = jb
  jc = jc
  jd = jd
  je = je
  Job <- FiveJobs
  N = 3
  Demands <- HoleDemands
  Walltimes <- HoleWalltimes
  MaxBatch = 2
  Infinity = 99
CHECK_DEADLOCK FALSE
INVARIANT ReservationKept
