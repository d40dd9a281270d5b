CONSTANTS
  Texts <- MCTexts
  Strip <- MCStrip
  Lower <- MCLower
  Long <- MCLong
  NoText = NoText
  MaxAnchors = 3
  MaxFiled = 1
SPECIFICATION Spec
INVARIANT FiledReachesDestination
