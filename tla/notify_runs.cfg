SPECIFICATION FairSpec
CONSTANTS
  Reminders = {1, 2}
  Linked = {2}
  MaxTime = 2
  MaxClock = 1
  MaxEvents = 3
  MaxCrashes = 1
  Capacity = 1
  Permissions = {"granted", "denied"}
CHECK_DEADLOCK FALSE
INVARIANTS
  AlarmsAgree
  SetMeansHeld
PROPERTIES
  SetMeansVerified
  RequestsMoveOn
