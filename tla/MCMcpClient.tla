---------------------------- MODULE MCMcpClient -----------------------------
(* One run, and two servers of which one cannot be listed.                 *)
EXTENDS McpClient, TLC

CONSTANTS r1, tenant1, server1, server2

MCTenantOf == r1 :> tenant1
=============================================================================
