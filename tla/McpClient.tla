----------------------------- MODULE McpClient ------------------------------
(***************************************************************************)
(* The client of the MCP runtime (agentic/mcpbridge.go), one for all runs  *)
(* of a process: the HTTP client, inside the cache of tool listings, both  *)
(* inside the breaker that takes a server away from a tenant after         *)
(* MaxFailures failures in a row (server.go, newMCPClient).                *)
(*                                                                         *)
(* A listing is the set of servers whose tools it holds.  The cache and    *)
(* the breaker have a mutex each and hold none during a request.  Reset,   *)
(* ResetForTenant and Invalidate have no caller.                           *)
(***************************************************************************)
EXTENDS Integers, FiniteSets

CONSTANTS McpRuns,       \* runs that use the client
          TenantOf,      \* the tenant of each run
          Servers,       \* names of MCP servers
          MaxFailures,   \* failures in a row that trip a server
          CacheTTL,      \* how long a listing is served from the cache
          MaxClock,      \* bound: time stops here
          MaxMcpCalls    \* bound: calls of a run

ASSUME McpAssumption ==
  /\ MaxFailures \in Nat \ {0}
  /\ IsFiniteSet(McpRuns) /\ Servers \cap {"idle", "listing"} = {}

VARIABLES mcpAt,     \* per run: "idle", "listing" or the server being called
          offered,   \* per run: the servers its last listing gave it
          fetched,   \* history: the servers the runtime's last answer held
          mcpCalls,  \* history: calls made by each run
          cache,     \* per tenant: the listing, and when it expires
          failures,  \* per tenant and server
          disabled,  \* the tripped tenants and servers
          streak,    \* history: failures since the last success
          longest,   \* history: the longest streak
          late,      \* history: failures after the trip
          mcpClock

mcpVars == <<mcpAt, offered, fetched, mcpCalls, cache, failures, disabled,
             streak, longest, late, mcpClock>>

Tenants == {TenantOf[r] : r \in McpRuns}
CircuitKeys == Tenants \X Servers

(* newMCPCircuitKey.                                                       *)
mcpCircuitKey(r, s) == <<TenantOf[r], s>>

-----------------------------------------------------------------------------
McpInit ==
  /\ mcpAt = [r \in McpRuns |-> "idle"]
  /\ offered = [r \in McpRuns |-> {}]
  /\ fetched = [r \in McpRuns |-> {}]
  /\ mcpCalls = [r \in McpRuns |-> 0]
  /\ cache = [t \in Tenants |-> [servers |-> {}, expires |-> 0]]
  /\ failures = [k \in CircuitKeys |-> 0]
  /\ disabled = {}
  /\ streak = [k \in CircuitKeys |-> 0]
  /\ longest = [k \in CircuitKeys |-> 0]
  /\ late = [k \in CircuitKeys |-> 0]
  /\ mcpClock = 0

breakerVars == <<failures, disabled, streak, longest, late>>

(* CircuitBreakerMCPClient.ListTools: an error of the inner client is      *)
(* passed on with no tools, else those of tripped servers are left out.    *)
(* MCPToolBridge.ListTools gives the run what comes out.                   *)
BreakerList(r, servers, err) ==
  offered' = [offered EXCEPT ![r] =
    IF err THEN {} ELSE {s \in servers : mcpCircuitKey(r, s) \notin disabled}]

(* CachedMCPClient.ListTools, when the listing of the tenant is fresh.     *)
ListCached(r) ==
  /\ mcpAt[r] = "idle"
  /\ mcpClock < cache[TenantOf[r]].expires
  /\ BreakerList(r, cache[TenantOf[r]].servers, FALSE)
  /\ fetched' = [fetched EXCEPT ![r] = {}]
  /\ UNCHANGED <<mcpAt, mcpCalls, cache, breakerVars, mcpClock>>

ListMiss(r) ==
  /\ mcpAt[r] = "idle"
  /\ mcpClock >= cache[TenantOf[r]].expires
  /\ mcpAt' = [mcpAt EXCEPT ![r] = "listing"]
  /\ UNCHANGED <<offered, fetched, mcpCalls, cache, breakerVars, mcpClock>>

(* The runtime answers with the tools of the servers it could list, and a  *)
(* warning, which HTTPMCPClient.ListTools returns as an error, for the     *)
(* others; no server at all is also what a failed request gives.  Only an  *)
(* answer without an error is cached.                                      *)
Listed(r, servers) ==
  /\ mcpAt[r] = "listing"
  /\ LET err == servers # Servers
     IN  /\ BreakerList(r, servers, err)
         /\ cache' = IF err THEN cache
                     ELSE [cache EXCEPT ![TenantOf[r]] =
                             [servers |-> servers, expires |-> mcpClock + CacheTTL]]
  /\ fetched' = [fetched EXCEPT ![r] = servers]
  /\ mcpAt' = [mcpAt EXCEPT ![r] = "idle"]
  /\ UNCHANGED <<mcpCalls, breakerVars, mcpClock>>

(* CallTool up to the request: a tripped server is refused.                *)
StartCall(r, s) ==
  /\ mcpAt[r] = "idle" /\ s \in offered[r] /\ mcpCalls[r] < MaxMcpCalls
  /\ mcpCircuitKey(r, s) \notin disabled
  /\ mcpAt' = [mcpAt EXCEPT ![r] = s]
  /\ mcpCalls' = [mcpCalls EXCEPT ![r] = @ + 1]
  /\ UNCHANGED <<offered, fetched, cache, breakerVars, mcpClock>>

(* The failure counter after an answer, and the servers tripped then.      *)
(* success deletes the counter; a tripped server stays tripped.            *)
CountAllFailures(k, ok) ==   \* mutant: a success does not reset the counter
  /\ failures' = [failures EXCEPT ![k] = IF ok THEN @ ELSE @ + 1]
  /\ disabled' = IF ~ok /\ failures[k] + 1 >= MaxFailures
                 THEN disabled \cup {k} ELSE disabled
CountAnswer(k, ok) ==
  /\ failures' = [failures EXCEPT ![k] = IF ok THEN 0 ELSE @ + 1]
  /\ disabled' = IF ~ok /\ failures[k] + 1 >= MaxFailures
                 THEN disabled \cup {k} ELSE disabled

(* CallTool after the request; the histories follow the answers.           *)
EndCall(r, ok) ==
  /\ mcpAt[r] \in Servers
  /\ LET k == mcpCircuitKey(r, mcpAt[r])
     IN  /\ CountAnswer(k, ok)
         /\ streak' = [streak EXCEPT ![k] = IF ok THEN 0 ELSE @ + 1]
         /\ longest' = [longest EXCEPT ![k] =
                          IF ~ok /\ streak[k] + 1 > @ THEN streak[k] + 1 ELSE @]
         /\ late' = [late EXCEPT ![k] = IF ~ok /\ k \in disabled THEN @ + 1 ELSE @]
  /\ mcpAt' = [mcpAt EXCEPT ![r] = "idle"]
  /\ UNCHANGED <<offered, fetched, mcpCalls, cache, mcpClock>>

McpTick ==
  /\ mcpClock < MaxClock
  /\ mcpClock' = mcpClock + 1
  /\ UNCHANGED <<mcpAt, offered, fetched, mcpCalls, cache, breakerVars>>

McpNext ==
  \/ \E r \in McpRuns :
       \/ ListCached(r) \/ ListMiss(r)
       \/ \E servers \in SUBSET Servers : Listed(r, servers)
       \/ \E s \in Servers : StartCall(r, s)
       \/ \E ok \in BOOLEAN : EndCall(r, ok)
  \/ McpTick

McpSpec == McpInit /\ [][McpNext]_mcpVars

-----------------------------------------------------------------------------
RunsOf(t) == {r \in McpRuns : TenantOf[r] = t}

(* A server is taken from a tenant exactly when MaxFailures calls of that  *)
(* tenant's runs failed with no success between them, whatever the order   *)
(* in which concurrent calls end, and after that only the calls that had   *)
(* already passed the check fail on it (mcpbridge.go, CallTool).           *)
TrippedForCause ==
  \A t \in Tenants, s \in Servers :
    /\ <<t, s>> \in disabled <=> longest[<<t, s>>] >= MaxFailures
    /\ late[<<t, s>>] + Cardinality({r \in RunsOf(t) : mcpAt[r] = s})
         <= Cardinality(RunsOf(t)) - (IF <<t, s>> \in disabled THEN 1 ELSE 0)

(* When some servers could be listed and others not, the tools of the      *)
(* first are given to the run: "We must not discard them" (mcpbridge.go,   *)
(* MCPToolBridge.ListTools).                                               *)
PartialToolsOffered ==
  \A r \in McpRuns :
    mcpAt[r] = "idle" =>
      {s \in fetched[r] : mcpCircuitKey(r, s) \notin disabled} \subseteq offered[r]
=============================================================================
