CONSTANTS
  RuleChoices <- OneOfEach
  PriorSum <- Sums
  PriorCount <- Counts
  Prices = {1, 2, 3}
  DayLen = 4
  Cooldown = 0
  DailyLimit = 2
  SameIds = TRUE
  None = None
  MaxClock = 4
  MaxQuotes = 4
  MaxEdits = 1
  MaxFaults = 1
SPECIFICATION Spec
CHECK_DEADLOCK FALSE
INVARIANTS NotificationsBounded OncePerCrossing
