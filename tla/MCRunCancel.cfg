CONSTANTS
  r1 = r1
  r2 = r2
  r3 = r3
  s1 = s1
  s2 = s2
  p1 = p1
  p2 = p2
  k1 = k1
  NoRun = NoRun
  NoPod = NoPod
  Runs <- Runs1
  Sessions = {s1, s2}
  SessionOf <- SessionOf1
  Pods <- Pods2
  Cancels = {k1}
  MaxTasks = 2
  MaxFaults = 1
  TerminalAttempts = 2
  TimePasses = TRUE
CHECK_DEADLOCK FALSE
SPECIFICATION Spec
INVARIANTS
  CancelIsNotTimeout
  CancellersExact
PROPERTIES
  NoResurrection
