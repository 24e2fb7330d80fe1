SPECIFICATION Spec
CONSTANTS
  s1 = s1
  t1 = t1
  t2 = t2
  left = left
  right = right
  small1 = small1
  small2 = small2
  large = large
  tag = tag
  Static <- MCStatic
  Dynamic <- MCDynamic
  AckModes <- MCAcks
  Outcomes <- MCOutcomes
  MaxTime = 1
  MaxCalls = 0
  KillSize = 1
  InitCalls = FALSE
  StorageId <- MCStorageId
  Dataset <- MCDataset
  Tag <- MCTag
  Size <- MCSize
  Capacity <- MCCapacity
  Loaded <- MCLoaded
  StagingJob <- MCStagingJob
  MaxTags = 0
INVARIANT ArrivalFits
