CONSTANTS
  Spread = 2
  Archives <- MCArchives
  CropAfter <- MCCropAfter
  Annotations <- NoLists
SPECIFICATION FairSpec
INVARIANTS
  TypeOK
  TimeAccounted
  SamplesBelong
  NearestAncestor
  CroppedAtFirstIdle
  KernelForward
PROPERTY
  ClimbEnds
CHECK_DEADLOCK FALSE
