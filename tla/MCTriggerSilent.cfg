CONSTANTS
  t1 = t1
  p1 = p1
  Triggers = {t1}
  Pods = {p1}
  Crons <- MCCrons
  MinutesPerHour = 4
  HoursPerDay = 2
  MaxTime = 10
  MaxFailures = 1
CHECK_DEADLOCK FALSE
SPECIFICATION TriggersSpec
PROPERTY DueTriggerIsServed
