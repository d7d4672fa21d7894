CONSTANTS
  r1 = r1
  r2 = r2
  p1 = p1
  p2 = p2
  InputRuns = {r1, r2}
  InputPods = {p1, p2}
  PodOf <- MCPodOf
  NoHandler = none
  MaxCalls = 2
  MaxAnswers = 2
  OAuthRequests = {o1, o2, o3}
  MaxTokens = 3
  MaxEdits = 1
  MaxOAuthFaults = 1
  Creators = {c1, c2}
  Deleters = {d1}
  Backfills = {b1}
  NoSecret = none
  MaxTenantFaults = 2
CHECK_DEADLOCK FALSE
SYMMETRY Symmetry
SPECIFICATION Spec
INVARIANTS
  WaitingReachable
  AnswersAgree
  StoredRefreshIsGood
  ServedIsCurrent
  ActiveIsProvisioned
  CleanCreateCompletes
