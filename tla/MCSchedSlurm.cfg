SPECIFICATION FairSpec
CONSTANTS
  j1 = j1
  j2 = j2
  j3 = j3
  u = u
  Static <- MCStatic
  Dynamic <- MCNone
  AckModes <- MCAcks
  Outcomes <- MCOutcomes
  MaxTime = 0
  MaxCalls = 0
  KillSize = 1
  InitCalls = FALSE
  N = 5
  Workloads <- MCWorkloads
  User <- MCUser
  SchedDelay = 1
  MaxAge = 3
  WeightAge = 1
  WeightJobSize = 1
  WeightFairshare = 10
  WeightPartition = 1
  FavorSmall = FALSE
INVARIANT SlurmTypeOK
INVARIANT MachinesPartitioned
INVARIANT NoOversubscription
INVARIANT WorkConserving
INVARIANT BlockedOnlyByMisfit
PROPERTY PriorityRespected
PROPERTY ImplementsCluster
PROPERTY SimulationEnds
