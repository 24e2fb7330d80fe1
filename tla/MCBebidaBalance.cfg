SPECIFICATION Spec
CONSTANTS
  NbJobs = 2
  N = 3
  Loans <- MCLoans
  Demands <- SimpleDemands
  Composed <- SimpleComposed
  MaxRemovals = 0
  MaxBatch = 2
CHECK_DEADLOCK FALSE
PROPERTY ReScheduled
