CONSTANTS
  f1 = f1
  f2 = f2
  k1 = k1
  k2 = k2
  r1 = r1
  r2 = r2
  r3 = r3
  tenant1 = tenant1
  tenant2 = tenant2
  server1 = server1
  Tools = {"http", "agent", "skill", "ask_user", "manage", "memory_store", "memory_store_bulk", "recall", "pickDate", "old"}
  Kind <- MCKind
  Allowed = {"http", "agent", "skill", "ask_user", "manage", "memory_store", "memory_store_bulk", "recall", "pickDate"}
  Rules <- MCRules
  Destructive = {"manage"}
  Interactive = TRUE
  Args = {f1, f2}
  MaxToolRetries = 2
  DenialThreshold = 2
  Batches <- MCBatches
  MaxTurns = 3
  N = 3
  Turns <- MCTurns
  Keys = {k1, k2}
  NoKey = none
  ConcurrentReadTools = 2
  ToolCacheCapacity = 1
  s1 = s1
  s2 = s2
  s3 = s3
  Subs = {s1, s2, s3}
  SubagentSlots = 2
  Budget = 2
  InitialCost = 1
  Unit = 2
  MaxTurnCost = 1
  TurnCosts = {1}
  NestedShare = 1
  NestedSlack = 0
  NestedCosts = {0, 2}
  MaxChildTurns = 2
  MaxIncidents = 1
  MaxAttempts = 4
  Fallbacks <- MCFallbacks
  FallbackOn = {"rate_limit", "timeout"}
  Foreground = TRUE
  McpRuns = {r1, r2, r3}
  TenantOf <- MCTenantOf
  Servers = {server1}
  MaxFailures = 2
  CacheTTL = 1
  MaxClock = 1
  MaxMcpCalls = 2
CHECK_DEADLOCK FALSE
SYMMETRY AnySubs
SPECIFICATION Spec
INVARIANTS
  OnlyPermittedExecute
  EffectsBounded
  TurnSafe
  BatchesSafe
  OverspendBounded
  SubtasksSettle
  ModelCallSafe
  TrippedForCause
PROPERTY BatchesEnd
