SPECIFICATION BatsimFairSpec
CONSTANTS
  s1 = s1
  d1 = d1
  Static <- MCStatic
  Dynamic <- MCDynamic
  AckModes = {TRUE, FALSE}
  Outcomes <- MCOutcomes
  MaxTime = 0
  MaxCalls = 0
  KillSize = 2
  InitCalls = FALSE
INVARIANT NoKeyError
