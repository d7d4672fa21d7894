CONSTANTS
  r1 = r1
  r2 = r2
  r3 = r3
  s1 = s1
  s2 = s2
  p1 = p1
  p2 = p2
  k1 = k1
  NoRun = NoRun
  NoPod = NoPod
  Runs <- Runs2
  Sessions = {s1, s2}
  SessionOf <- SessionOf2
  Pods <- Pods1
  Cancels = {}
  MaxTasks = 1
  MaxFaults = 2
  TerminalAttempts = 2
  TimePasses = TRUE
CHECK_DEADLOCK FALSE
SPECIFICATION FairSpec
INVARIANTS
  OneLivePerSession
  OutcomeDurable
  AnnouncedIsStored
PROPERTIES
  StuckSessionRecovers
