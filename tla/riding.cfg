CONSTANTS
  Anchors = {a, b, c, d, e, f}
  Nowhere = Nowhere
  Modes = {bus, keke}
  MaxSegments = 3
SYMMETRY MCSymmetry
SPECIFICATION Spec
INVARIANTS
  StepsAreRides
  ServedWhenAhead
  ChangesAreReal
PROPERTIES
  NoWayBack
