----------------------------- MODULE MCRunParts -----------------------------
(***************************************************************************)
(* The parts a run uses, each explored by itself: the variable focus is    *)
(* chosen at the start, and only the part it names takes steps.  They      *)
(* share no state; AgentLoop has the places where they are called.         *)
(***************************************************************************)
EXTENDS ToolTurn, ToolBatches, Subtasks, ModelCall, McpClient, TLC

VARIABLE focus

Parts == {"turn", "batches", "subtasks", "call", "mcp"}

-----------------------------------------------------------------------------
(* ToolTurn: turns that mix the paths: a denial and a success of one tool, *)
(* single and bulk stores, questions asked again, local and remote tools.  *)
CONSTANTS f1, f2

MCKind == ("http" :> "regular") @@ ("agent" :> "agent") @@ ("skill" :> "mode")
       @@ ("ask_user" :> "ask_user") @@ ("manage" :> "manage")
       @@ ("memory_store" :> "memory_store") @@ ("memory_store_bulk" :> "memory_store_bulk")
       @@ ("recall" :> "local") @@ ("pickDate" :> "frontend") @@ ("old" :> "regular")
MCRules == [t \in Tools |-> IF t = "http" THEN {"allow", "deny", "confirm"} ELSE {"allow"}]
ToCall(tl, rule, reads, args) ==
  [tool |-> tl, rule |-> rule, reads |-> reads, args |-> args]
Plain(tl) == ToCall(tl, "allow", FALSE, {})
About(tl, args) == ToCall(tl, "allow", FALSE, args)
MCBatches ==
  {<<ToCall("http", "deny", FALSE, {}), Plain("http")>>,
   <<ToCall("http", "confirm", FALSE, {}), About("ask_user", {f1})>>,
   <<About("ask_user", {f1, f2})>>,
   <<About("memory_store", {f1}), About("memory_store_bulk", {f1, f2})>>,
   <<About("memory_store_bulk", {f1, f2})>>,
   <<Plain("agent"), Plain("pickDate")>>,
   <<Plain("skill"), Plain("recall"), Plain("old")>>,
   <<Plain("manage"), ToCall("manage", "allow", TRUE, {})>>}

-----------------------------------------------------------------------------
(* ToolBatches: any mixture of safe and other calls; the first one may     *)
(* block on interrupts; two inputs compete for the cache.                  *)
CONSTANTS k1, k2

MCTurns ==
  {[i \in Calls |-> [safe |-> s[i], blocks |-> b /\ i = 1, key |-> <<k1, k2, k>>[i]]] :
     s \in [Calls -> BOOLEAN], b \in BOOLEAN, k \in {k1, NoKey}}

(* Subtasks: its sub-agents are alike.  (The only liveness property is     *)
(* about the batches, in behaviours in which no sub-agent ever differs     *)
(* from another: there the symmetry identifies nothing.)                   *)
CONSTANTS s1, s2, s3

AnySubs == Permutations(Subs)

(* ModelCall: a fallback without and one with a number of attempts.        *)
MCFallbacks == <<0, 2>>

(* McpClient: two runs of a tenant and one of another.                     *)
CONSTANTS r1, r2, r3, tenant1, tenant2, server1

MCTenantOf == (r1 :> tenant1) @@ (r2 :> tenant1) @@ (r3 :> tenant2)

-----------------------------------------------------------------------------
vars == <<focus, turnVars, batchVars, subVars, callVars, mcpVars>>

Init ==
  /\ focus \in Parts
  /\ TurnInit /\ BatchesInit /\ SubtasksInit /\ CallInit /\ McpInit
  /\ focus = "batches" \/ calls = CHOOSE c \in Turns : TRUE

Next ==
  /\ UNCHANGED focus
  /\ \/ /\ focus = "turn" /\ TurnNext
        /\ UNCHANGED <<batchVars, subVars, callVars, mcpVars>>
     \/ /\ focus = "batches" /\ BatchesNext
        /\ UNCHANGED <<turnVars, subVars, callVars, mcpVars>>
     \/ /\ focus = "subtasks" /\ SubtasksNext
        /\ UNCHANGED <<turnVars, batchVars, callVars, mcpVars>>
     \/ /\ focus = "call" /\ CallNext
        /\ UNCHANGED <<turnVars, batchVars, subVars, mcpVars>>
     \/ /\ focus = "mcp" /\ McpNext
        /\ UNCHANGED <<turnVars, batchVars, subVars, callVars>>

(* Only the batches have a liveness property.                              *)
Spec == Init /\ [][Next]_vars /\ (focus = "batches" => BatchesFairness)

(* ExecuteAll returns (toolexec.go): no call of a turn waits for ever.     *)
BatchesEnd == focus = "batches" => AllCallsEnd
=============================================================================
