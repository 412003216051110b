CONSTANTS
  Spread = 2
  Archives <- OneArchive
  CropAfter <- NoNames
  Annotations <- OneList
SPECIFICATION Spec
INVARIANT
  SingleAnnotation
CHECK_DEADLOCK FALSE
