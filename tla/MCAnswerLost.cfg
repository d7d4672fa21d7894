CONSTANTS
  r1 = r1
  r2 = r2
  p1 = p1
  p2 = p2
  InputRuns = {r1, r2}
  InputPods = {p1, p2}
  PodOf <- MCPodOf
  NoHandler = none
  MaxCalls = 1
  MaxAnswers = 1
CHECK_DEADLOCK FALSE
SPECIFICATION InputSpec
INVARIANT AcknowledgedIsDelivered
