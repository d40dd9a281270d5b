CONSTANTS
  Tasks = {t1, t2}
  Texts = {hello}
  NoText = NoText
  HourLimit = 1
  DayLimit = 2
  Hour = 2
  Day = 3
  Cooldown = 1
  MaxMessages = 4
  Faulty = {"hour", "day", "cooldown"}
SPECIFICATION Spec
INVARIANTS
  TypeOK
  HourlyCap
  RetapsDropped
PROPERTIES
  BlockedIsTemporary
CHECK_DEADLOCK FALSE
