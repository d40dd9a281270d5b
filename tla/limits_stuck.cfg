CONSTANTS
  Tasks = {t1, t2}
  Texts = {hello}
  NoText = NoText
  HourLimit = 1
  DayLimit = 2
  Hour = 2
  Day = 4
  Cooldown = 1
  MaxMessages = 3
  Faulty = {"hour", "hour_expire", "day", "day_expire"}
SPECIFICATION Spec
PROPERTY BlockedIsTemporary
CHECK_DEADLOCK FALSE
