CONSTANTS
  N = 4
  Forests <- TwinForests
  Period = 2
  CropAt = 20
  Prune = TRUE
  Monitored = "app"
  Clips <- MCClips
  FirstRow = 20
  Height = 40
SPECIFICATION Spec
INVARIANT TotalCountsOnce
CHECK_DEADLOCK FALSE
