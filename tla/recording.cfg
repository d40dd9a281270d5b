CONSTANTS
  Texts <- MCTexts
  Strip <- MCStrip
  Lower <- MCLower
  Long <- MCLong
  NoText = NoText
  MaxAnchors = 4
  MaxFiled = 1
SPECIFICATION Spec
INVARIANTS
  TypeOK
  StageInv
  LegsOnTheirSegments
  TransfersAreChanges
  ReviewOnArrival
  PinningNeverDiscards
  ReviewIsFileable
PROPERTIES
  CaptureOnlyGrows
  ImplementsContribution
