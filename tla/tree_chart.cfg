CONSTANTS
  N = 4
  Forests <- MCForests
  Period = 2
  CropAt = 20
  Prune = TRUE
  Monitored = "app"
  Clips <- MCClips
  FirstRow = 20
  Height = 40
SPECIFICATION Spec
INVARIANTS
  TreeTypeOK
  InTreeOnce
  CountedOnce
  EverySampleOnce
  BarsCoverSamples
  NoTwinsLeft
  NoRunsLeft
  ShortLivedGone
  RowsFollowTree
  RedrawComplete
  BandsStack
PROPERTY
  LoopsEnd
CHECK_DEADLOCK FALSE
