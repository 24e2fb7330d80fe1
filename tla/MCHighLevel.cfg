SPECIFICATION Spec
CONSTANTS
  ja = ja
  jb = jb
  jc = jc
  jd = jd
  Job = {ja, jb, jc, jd}
  N = 3
  Unit = 2
  Demands <- MCDemands
  Walltimes <- MCWalltimes
  Dependencies <- MCDependencies
  Policies = {"fcfs", "filler", "easy"}
  MaxBatch = 2
CHECK_DEADLOCK FALSE
INVARIANT MachinesExact
INVARIANT PriorityKept
PROPERTY JobsEnd
