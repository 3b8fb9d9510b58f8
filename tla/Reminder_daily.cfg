SPECIFICATION Spec
CONSTANTS
  None = None
  DayTicks = 5
  Target = 2
  MinuteTicks = 2
  Cooldown = 5
  Early = 1
  MaxDay = 2
  MaxLife = 1
INVARIANTS
  DailyReminder
CHECK_DEADLOCK FALSE
