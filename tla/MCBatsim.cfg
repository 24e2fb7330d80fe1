SPECIFICATION BatsimFairSpec
CONSTANTS
  s1 = s1
  d1 = d1
  Static <- MCStatic
  Dynamic <- MCDynamic
  AckModes = {TRUE, FALSE}
  Outcomes <- MCOutcomes
  MaxTime = 1
  MaxCalls = 1
  KillSize = 1
  InitCalls = FALSE
INVARIANT TypeOK
INVARIANT Accounting
INVARIANT MirrorAgrees
INVARIANT KilledCallbackOnlyForKilled
INVARIANT NeverAborted
INVARIANT CleanExit
PROPERTY CompletedIsFinal
PROPERTY EveryMessageAnswered
