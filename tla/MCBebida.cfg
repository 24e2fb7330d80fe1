SPECIFICATION Spec
CONSTANTS
  NbJobs = 2
  N = 3
  Loans <- MCLoans
  Demands <- MCDemands
  Composed <- MCComposed
  MaxRemovals = 3
  MaxBatch = 2
CHECK_DEADLOCK FALSE
INVARIANT MachinesSound
INVARIANT ClosedOnlyAtTheEnd
PROPERTY RemovalsAnswered
PROPERTY JobsEnd
