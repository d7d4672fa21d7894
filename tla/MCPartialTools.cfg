CONSTANTS
  r1 = r1
  tenant1 = tenant1
  server1 = server1
  server2 = server2
  McpRuns = {r1}
  TenantOf <- MCTenantOf
  Servers = {server1, server2}
  MaxFailures = 2
  CacheTTL = 1
  MaxClock = 1
  MaxMcpCalls = 1
CHECK_DEADLOCK FALSE
SPECIFICATION McpSpec
INVARIANT PartialToolsOffered
