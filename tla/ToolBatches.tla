---------------------------- MODULE ToolBatches -----------------------------
(***************************************************************************)
(* StreamingToolExecutor.ExecuteAll (agentic/toolexec.go): the regular     *)
(* tool calls of one turn, partitioned into batches.  Consecutive          *)
(* concurrency-safe calls run in parallel goroutines behind a semaphore,   *)
(* any other call runs alone.  A failing call aborts its siblings; a       *)
(* cancel ends the calls that do not block on interrupts.                  *)
(***************************************************************************)
EXTENDS Naturals, Sequences, FiniteSets

CONSTANTS N,                    \* calls of the turn
          Turns,                \* the turns considered: a [safe, blocks, key] per call
          Keys,                 \* cacheable inputs
          NoKey,                \* the key of a call that is not cacheable
          ConcurrentReadTools,  \* the semaphore's size
          ToolCacheCapacity

ASSUME ToolBatchesAssumptions ==
  /\ N \in Nat /\ NoKey \notin Keys
  /\ ConcurrentReadTools \in Nat \ {0} /\ ToolCacheCapacity \in Nat \ {0}

Calls == 1 .. N
Call == [safe : BOOLEAN,           \* read-only, by name or by the DB flag
         blocks : BOOLEAN,         \* interrupt behaviour "block"
         key : Keys \cup {NoKey}]  \* its cache key

ASSUME TurnsAssumption == Turns \subseteq [Calls -> Call]

VARIABLES
  calls,      \* what the turn consists of; never changes
  cur,        \* first call of the current batch
  tool,       \* per call: where its goroutine (or the loop) is with it
  result,     \* per call
  aborted,    \* abortCancel of the current parallel batch was called
  emitted,    \* per call: tool_result events sent
  parent,     \* the run's context: "live", "cancelled", "expired"
  \* ToolResultCache.
  entries, order

cacheVars == <<entries, order>>
batchVars == <<calls, cur, tool, result, aborted, emitted, parent, cacheVars>>

ToolStates == {"queued", "acquire", "recheck", "lookup", "executing", "done"}
Results == {"none", "ok", "error", "failed", "interrupted", "invalid", "cached", "aborted"}

BatchesInit ==
  /\ calls \in Turns
  /\ cur = 1
  /\ tool = [i \in Calls |-> "queued"]
  /\ result = [i \in Calls |-> "none"]
  /\ aborted = FALSE
  /\ emitted = [i \in Calls |-> 0]
  /\ parent = "live"
  /\ entries = {} /\ order = <<>>

-----------------------------------------------------------------------------
(* PartitionToolCalls: a batch is a maximal run of safe calls, or a single *)
(* other call.                                                             *)
SafeRun(i, j) == \A k \in i .. j : calls[k].safe
PartitionToolCalls(i) ==
  IF calls[i].safe THEN {j \in i .. N : SafeRun(i, j)} ELSE {i}
Batch == PartitionToolCalls(cur)
Parallel == Cardinality(Batch) > 1
Running == cur <= N

(* ToolResultCache: order lists the keys, the newest last.                 *)
Place(k) == CHOOSE i \in DOMAIN order : order[i] = k
MoveToEnd(k) ==
  Append(SubSeq(order, 1, Place(k) - 1) \o SubSeq(order, Place(k) + 1, Len(order)), k)
CachePut(k) ==
  IF k \in entries THEN order' = MoveToEnd(k) /\ UNCHANGED entries
  ELSE IF Cardinality(entries) >= ToolCacheCapacity
       THEN /\ entries' = (entries \ {Head(order)}) \cup {k}
            /\ order' = Append(Tail(order), k)
       ELSE entries' = entries \cup {k} /\ order' = Append(order, k)

(* abortCtx is a child of the run's context.                               *)
AbortCtxEnded == aborted \/ parent # "live"
Ended(i) == tool[i] = "done"
Finish(i, r) == /\ tool' = [tool EXCEPT ![i] = "done"]
                /\ result' = [result EXCEPT ![i] = r]
Emit(i) == emitted' = [emitted EXCEPT ![i] = @ + 1]

(* A goroutine of a parallel batch: it checks for an abort, waits for the  *)
(* semaphore, checks again, validates, looks into the cache and executes.  *)
HeldForEver == {i \in Batch : tool[i] \notin {"queued", "acquire"}}   \* mutant: no release
Held == {i \in Batch : tool[i] \in {"recheck", "lookup", "executing"}}
StartGoroutine(i) ==
  /\ Running /\ Parallel /\ i \in Batch /\ tool[i] = "queued"
  /\ IF AbortCtxEnded THEN Finish(i, "aborted")
     ELSE tool' = [tool EXCEPT ![i] = "acquire"] /\ UNCHANGED result
  /\ UNCHANGED <<calls, cur, aborted, emitted, parent, cacheVars>>
Acquire(i) ==
  /\ Running /\ i \in Batch /\ tool[i] = "acquire"
  /\ Cardinality(Held) < ConcurrentReadTools
  /\ tool' = [tool EXCEPT ![i] = "recheck"]
  /\ UNCHANGED <<calls, cur, result, aborted, emitted, parent, cacheVars>>
Recheck(i, valid) ==
  /\ Running /\ i \in Batch /\ tool[i] = "recheck"
  /\ IF AbortCtxEnded THEN Finish(i, "aborted") /\ UNCHANGED emitted
     ELSE IF ~valid THEN Finish(i, "invalid") /\ Emit(i)
     ELSE tool' = [tool EXCEPT ![i] = "lookup"] /\ UNCHANGED <<result, emitted>>
  /\ UNCHANGED <<calls, cur, aborted, parent, cacheVars>>
CacheGet(i) ==
  /\ Running /\ i \in Batch /\ tool[i] = "lookup"
  /\ IF calls[i].key \in entries
     THEN /\ Finish(i, "cached") /\ Emit(i)
          /\ order' = MoveToEnd(calls[i].key)
     ELSE /\ tool' = [tool EXCEPT ![i] = "executing"]
          /\ UNCHANGED <<result, emitted, order>>
  /\ UNCHANGED <<calls, cur, aborted, parent, entries>>

(* The serial path takes one call at a time and does not use the cache.    *)
StartSerial(valid) ==
  /\ Running /\ ~Parallel /\ tool[cur] = "queued"
  /\ IF parent # "live" THEN Finish(cur, "aborted") /\ UNCHANGED emitted
     ELSE IF ~valid THEN Finish(cur, "invalid") /\ Emit(cur)
     ELSE tool' = [tool EXCEPT ![cur] = "executing"] /\ UNCHANGED <<result, emitted>>
  /\ UNCHANGED <<calls, cur, aborted, parent, cacheVars>>

(* toolExecutionContext: a call that blocks on interrupts only inherits    *)
(* the deadline of the run, and is not a child of abortCtx.                *)
ExecutionCtxEnded(i) ==
  IF calls[i].blocks THEN parent = "expired"
  ELSE parent # "live" \/ (Parallel /\ aborted)

(* The execution returns: with an output, with an error of the tool, or    *)
(* with an error of the call (its own timeout included), which aborts the  *)
(* siblings.                                                               *)
Execute(i, r) ==
  /\ Running /\ i \in Batch /\ tool[i] = "executing"
  /\ r \in {"ok", "error", "failed"} \/ (r = "interrupted" /\ ExecutionCtxEnded(i))
  /\ Finish(i, r) /\ Emit(i)
  /\ aborted' = (aborted \/ (Parallel /\ r \in {"failed", "interrupted"}))
  /\ IF Parallel /\ r = "ok" /\ calls[i].key \in Keys THEN CachePut(calls[i].key) ELSE UNCHANGED cacheVars
  /\ UNCHANGED <<calls, cur, parent>>

(* wg.Wait returns, or the serial call has ended: the next batch.          *)
NextBatchEarly ==   \* mutant: wg.Wait is missing
  /\ Running /\ \E i \in Batch : Ended(i)
  /\ cur' = cur + Cardinality(Batch)
  /\ aborted' = FALSE
  /\ UNCHANGED <<calls, tool, result, emitted, parent, cacheVars>>
NextBatch ==
  /\ Running /\ \A i \in Batch : Ended(i)
  /\ cur' = cur + Cardinality(Batch)
  /\ aborted' = FALSE
  /\ UNCHANGED <<calls, tool, result, emitted, parent, cacheVars>>

(* The runner sends the tool_result of every call the executor has not.    *)
EmitRest ==
  /\ cur = N + 1
  /\ emitted' = [i \in Calls |-> IF result[i] = "aborted" THEN emitted[i] + 1 ELSE emitted[i]]
  /\ cur' = N + 2
  /\ UNCHANGED <<calls, tool, result, aborted, parent, cacheVars>>

ParentEnds(how) ==
  /\ Running /\ parent = "live"
  /\ parent' = how
  /\ UNCHANGED <<calls, cur, tool, result, aborted, emitted, cacheVars>>

BatchStep(i) ==
  \/ StartGoroutine(i) \/ Acquire(i) \/ CacheGet(i)
  \/ \E valid \in BOOLEAN : Recheck(i, valid)
  \/ i = cur /\ \E valid \in BOOLEAN : StartSerial(valid)
  \/ \E r \in Results : Execute(i, r)
BatchesNext ==
  \/ \E i \in Calls : BatchStep(i)
  \/ NextBatch \/ EmitRest
  \/ \E how \in {"cancelled", "expired"} : ParentEnds(how)

BatchesSpec == BatchesInit /\ [][BatchesNext]_batchVars

(* Every goroutine runs, and every execution returns (ToolTimeout).        *)
BatchesFairness == (\A i \in Calls : WF_batchVars(BatchStep(i)))
                   /\ WF_batchVars(NextBatch) /\ WF_batchVars(EmitRest)

-----------------------------------------------------------------------------
BatchesTypeOK ==
  /\ calls \in [Calls -> Call]
  /\ cur \in 1 .. N + 2
  /\ tool \in [Calls -> ToolStates] /\ result \in [Calls -> Results]
  /\ \A i \in Calls : Ended(i) <=> result[i] # "none"
  /\ aborted \in BOOLEAN /\ parent \in {"live", "cancelled", "expired"}
  /\ entries \subseteq Keys

(* A call that is not concurrency-safe never overlaps another one: when    *)
(* either of two calls is not safe, the later one has not begun before the *)
(* earlier one has ended, whatever failed or was aborted in between.       *)
WritesAreOrdered ==
  \A i, j \in Calls : i < j /\ ~(calls[i].safe /\ calls[j].safe) /\ tool[j] # "queued" => Ended(i)

(* No more calls execute at once than the semaphore admits, across abort,  *)
(* validation and cache returns.                                           *)
SemaphoreBound == Running => Cardinality({i \in Calls : tool[i] = "executing"})
                                <= IF Parallel THEN ConcurrentReadTools ELSE 1

(* A call that blocks on interrupts and has started runs to its end: a     *)
(* cancel or a failing sibling never cuts it off.                          *)
BlockingCallsFinish ==
  \A i \in Calls : calls[i].blocks /\ result[i] = "interrupted" => parent = "expired"

(* Nothing is aborted without a reason: a cancel, a deadline, or a call of *)
(* the same batch that failed.                                             *)
AbortsHaveCause ==
  \A i \in Calls : result[i] = "aborted" =>
    \/ parent # "live"
    \/ \E j \in Calls : /\ result[j] \in {"failed", "interrupted"}
                        /\ SafeRun(IF i < j THEN i ELSE j, IF i < j THEN j ELSE i)

(* The LRU list and the map of the cache hold the same keys, once each,    *)
(* within the capacity, however lookups and stores interleave.             *)
CacheConsistent ==
  /\ {order[n] : n \in DOMAIN order} = entries
  /\ Len(order) = Cardinality(entries)
  /\ Len(order) <= ToolCacheCapacity

(* At the end of the turn the client has got one tool_result per call.     *)
OneToolResult == cur = N + 2 => \A i \in Calls : emitted[i] = 1

(* What a turn keeps while goroutines fail, abort, hit the cache and       *)
(* release the semaphore in any order.                                     *)
BatchesSafe ==
  /\ BatchesTypeOK /\ WritesAreOrdered /\ SemaphoreBound /\ BlockingCallsFinish
  /\ AbortsHaveCause /\ CacheConsistent /\ OneToolResult

(* ExecuteAll returns: no call waits for ever, in whichever order the      *)
(* goroutines fail, abort and release the semaphore.                       *)
AllCallsEnd == <>(cur = N + 2)
=============================================================================
