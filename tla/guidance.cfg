CONSTANTS
  lugbe = lugbe
  berger = berger
  banex = banex
  berger2 = berger2
  plazaA = plazaA
  plazaB = plazaB
  plazaC = plazaC
  bergerX = bergerX
  ibadan = ibadan
  Banex = Banex
  Plaza = Plaza
  Berger = Berger
  plaza = plaza
  street = street
  nigeria = nigeria
  Trips <- MCTrips
  End <- MCEnd
  Spots <- MCSpots
  Words <- MCWords
  Called <- MCCalled
  Expand <- MCExpand
  Results <- MCResults
  Zone <- MCZone
  Display <- MCDisplay
  Noise = {nigeria}
  MaxParts = 2
  MaxOptions = 2
  Place <- MCPlace
  Radius = 3
  Nothing = Nothing
  MaxMessages = 3
  MaxUnsound = 1
SPECIFICATION Spec
PROPERTIES
  CorridorServes
  LeadsWhereTold
  ServedWhenPossible
  PicksAreHonoured
CHECK_DEADLOCK FALSE
