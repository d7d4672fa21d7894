CONSTANTS
  r1 = r1
  r2 = r2
  r3 = r3
  s1 = s1
  s2 = s2
  p1 = p1
  p2 = p2
  k1 = k1
  NoRun = NoRun
  NoPod = NoPod
  Runs <- Runs3
  Sessions = {s1, s2}
  SessionOf <- SessionOf3
  Pods <- Pods1
  Cancels = {}
  MaxTasks = 3
  MaxFaults = 0
  TerminalAttempts = 3
  TimePasses = FALSE
CHECK_DEADLOCK FALSE
SPECIFICATION RunToEndSpec
INVARIANTS
  NoConcurrentRunners
  ActiveHasWorker
PROPERTY AcceptedRunFinishes
