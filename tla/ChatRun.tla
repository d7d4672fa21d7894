------------------------------ MODULE ChatRun -------------------------------
(***************************************************************************)
(* The life of chat runs (internal/domain/chat/async_executor.go): the     *)
(* HTTP handlers that enqueue and cancel runs, the chat_run table, the     *)
(* RabbitMQ queue, and the workers that execute runs, on several pods that *)
(* may be shut down, crash and restart.                                    *)
(*                                                                         *)
(* Every database call, every broker call and every sync.Map operation is  *)
(* a step of its own, except the Range of Shutdown.  A call that reports   *)
(* an error may have taken effect.  Time is abstracted to what the code    *)
(* compares: the context of a task may end, and a run may become old       *)
(* enough for EnqueueRun to expire it.                                     *)
(***************************************************************************)
EXTENDS Naturals, Sequences, FiniteSets

CONSTANTS Runs,              \* run ids; each belongs to one enqueue request
          Sessions,          \* chat sessions
          SessionOf,         \* Runs -> Sessions
          Pods,              \* processes, each with API handlers and a worker
          Cancels,           \* cancel requests
          NoRun, NoPod,
          MaxTasks,          \* bound: deliveries, one worker goroutine each
          MaxFaults,         \* bound: failed calls, lost connections, crashes
          TerminalAttempts,  \* asyncTerminalPersistenceAttempts (3)
          TimePasses         \* FALSE: nothing times out or becomes stale

ASSUME ChatRunAssumptions ==
  /\ SessionOf \in [Runs -> Sessions]
  /\ NoRun \notin Runs
  /\ NoPod \notin Pods
  /\ MaxTasks \in Nat
  /\ MaxFaults \in Nat
  /\ TerminalAttempts \in Nat \ {0}
  /\ TimePasses \in BOOLEAN

VARIABLES
  \* The chat_run table.
  status,      \* the status column; "none" until the row is inserted
  starter,     \* started_at is set: the task that set it, else NoTask
  queueAged,   \* created_at is more than 2 * runTimeout ago
  runAged,     \* started_at is more than runTimeout ago
  \* EnqueueRun, one request per run.
  enq,         \* where the request is
  enqPod,      \* the pod that serves it
  victim,      \* the stale run it is about to expire
  \* RabbitMQ.
  queue,       \* messages in the queue, per run
  delivering,  \* per pod: the delivery its consumer has not acknowledged
  \* The workers.
  spawned,     \* goroutines started so far; they are numbered 1 .. spawned
  task,        \* per goroutine: [run, pod, pc, ctx, tries, out]
  cancellers,  \* AsyncExecutor.cancellers, per pod: run -> task
  cancelled,   \* AsyncExecutor.cancelled, per pod
  phase,       \* per pod: "up", "stopping" (consumer still selecting), "stopped"
  \* cancelRun, one per cancel request.
  cpc, crun, cpod,
  \* History.
  fired,       \* statuses the completion hooks were called with, per run
  faults       \* faults so far

dbVars == <<status, starter, queueAged, runAged>>
enqVars == <<enq, enqPod, victim>>
brokerVars == <<queue, delivering>>
workerVars == <<spawned, task, cancellers, cancelled, phase>>
cancelVars == <<cpc, crun, cpod>>
vars == <<dbVars, enqVars, brokerVars, workerVars, cancelVars, fired, faults>>

NoTask == 0
Tasks == 1 .. MaxTasks
Terminal == {"completed", "failed", "cancelled"}
RunStatus == {"none", "queued", "active"} \cup Terminal

Live(r) == status[r] \in {"queued", "active"}

(* The steps of processTask.                                               *)
TaskSteps == {"register", "checkLocal", "checkStored", "activate", "startup",
              "startupFailed", "run", "persistCancelled", "persistFailed",
              "persistCompleted", "hooks", "exit", "forget"}

(* The context of a task is "done" once its cancel function was called and *)
(* "expired" if only its deadline has passed.  The code does not tell them *)
(* apart: both are a context with an error.  These are the steps at which  *)
(* the deadline still matters.                                             *)
TimedSteps == {"checkLocal", "checkStored", "activate", "startup",
               "startupFailed", "run"}

TaskRec == [run : Runs \cup {NoRun}, pod : Pods \cup {NoPod},
            pc : TaskSteps \cup {"free", "gone"}, ctx : {"live", "done", "expired"},
            tries : Nat, out : Terminal \cup {"none"}]

InFlight(t) == task[t].pc \in TaskSteps

(* One more fault is within the bound.                                     *)
Fault == faults < MaxFaults /\ faults' = faults + 1
NoFault == UNCHANGED faults

-----------------------------------------------------------------------------
(* The chat_run table.                                                     *)

(* A slip for the mutation checks: the index is missing.                   *)
NoIndex(r) == TRUE

(* uq_chat_run_one_active_per_session: a row may become queued or active   *)
(* only if no other row of its session is.                                 *)
IndexAllows(r) ==
  \A o \in Runs \ {r} : SessionOf[o] = SessionOf[r] => ~Live(o)

(* UpdateRunStatus, MarkRunCompleted and MarkRunFailed set the status      *)
(* whatever it was.                                                        *)
SetStatus(r, s) == status' = [status EXCEPT ![r] = s]

(* A write that reports an error: the statement may still have been        *)
(* committed before the connection broke.                                  *)
FailedWrite(r, s) == Fault /\ (UNCHANGED status \/ SetStatus(r, s))

(* Time passes for a run that waits in the queue, or is being executed.    *)
(* started_at is never earlier than the start of the task that set it, so  *)
(* a run cannot be older than runTimeout while that task's context lives.  *)
AgeInQueue(r) ==
  /\ TimePasses /\ status[r] = "queued" /\ ~queueAged[r]
  /\ queueAged' = [queueAged EXCEPT ![r] = TRUE]
  /\ UNCHANGED <<status, starter, runAged, enqVars, brokerVars, workerVars,
                 cancelVars, fired, faults>>

AgeWhileActive(r) ==
  /\ TimePasses /\ status[r] = "active" /\ ~runAged[r]
  /\ starter[r] # NoTask
  /\ task[starter[r]].pc \in TimedSteps => task[starter[r]].ctx # "live"
  /\ runAged' = [runAged EXCEPT ![r] = TRUE]
  /\ UNCHANGED <<status, starter, queueAged, enqVars, brokerVars, workerVars,
                 cancelVars, fired, faults>>

-----------------------------------------------------------------------------
(* EnqueueRun.                                                             *)

(* A slip for the mutation checks: only active runs are expired.           *)
StaleActiveOnly(o) == starter[o] # NoTask /\ runAged[o]

Stale(o) ==
  \/ status[o] = "queued" /\ queueAged[o]
  \/ starter[o] # NoTask /\ runAged[o]

(* GetActiveRunBySession.  A live run that is not stale rejects the        *)
(* request with ErrRunAlreadyActive, which changes nothing: the user may   *)
(* try again.                                                              *)
EnqueueCheck(r, p) ==
  /\ enq[r] = "idle" /\ phase[p] = "up"
  /\ LET live == {o \in Runs : SessionOf[o] = SessionOf[r] /\ Live(o)}
     IN  \/ /\ live = {}
            /\ enq' = [enq EXCEPT ![r] = "insert"]
            /\ UNCHANGED victim
         \/ \E o \in live :
              /\ Stale(o)
              /\ enq' = [enq EXCEPT ![r] = "expire"]
              /\ victim' = [victim EXCEPT ![r] = o]
  /\ enqPod' = [enqPod EXCEPT ![r] = p]
  /\ UNCHANGED <<dbVars, brokerVars, workerVars, cancelVars, fired, faults>>

(* MarkRunFailed of the stale run, whose error is ignored.                 *)
EnqueueExpire(r) ==
  /\ enq[r] = "expire"
  /\ \/ SetStatus(victim[r], "failed") /\ NoFault
     \/ FailedWrite(victim[r], "failed")
  /\ enq' = [enq EXCEPT ![r] = "insert"]
  /\ victim' = [victim EXCEPT ![r] = NoRun]
  /\ UNCHANGED <<starter, queueAged, runAged, enqPod, brokerVars, workerVars,
                 cancelVars, fired>>

(* CreateRun; a unique violation is ErrRunAlreadyActive.  An insert whose  *)
(* answer is lost leaves a queued row that no request knows of.            *)
EnqueueInsert(r) ==
  /\ enq[r] = "insert"
  /\ \/ /\ IndexAllows(r)
        /\ SetStatus(r, "queued")
        /\ enq' = [enq EXCEPT ![r] = "publish"]
        /\ NoFault
     \/ /\ ~IndexAllows(r)
        /\ enq' = [enq EXCEPT ![r] = "idle"]
        /\ UNCHANGED status /\ NoFault
     \/ /\ enq' = [enq EXCEPT ![r] = "idle"]
        /\ UNCHANGED status /\ Fault
     \/ /\ IndexAllows(r)
        /\ SetStatus(r, "queued")
        /\ enq' = [enq EXCEPT ![r] = "unavailable"]
        /\ Fault
  /\ UNCHANGED <<starter, queueAged, runAged, enqPod, victim, brokerVars,
                 workerVars, cancelVars, fired>>

(* Dial, channel, declaration and publish.  A publish that reports an      *)
(* error may still have reached the broker.                                *)
EnqueuePublish(r) ==
  /\ enq[r] = "publish"
  /\ \/ /\ queue' = [queue EXCEPT ![r] = @ + 1]
        /\ enq' = [enq EXCEPT ![r] = "accepted"]
        /\ NoFault
     \/ /\ \/ UNCHANGED queue
           \/ queue' = [queue EXCEPT ![r] = @ + 1]
        /\ enq' = [enq EXCEPT ![r] = "undelivered"]
        /\ Fault
  /\ UNCHANGED <<dbVars, enqPod, victim, delivering, workerVars, cancelVars, fired>>

(* failEnqueuedRun: MarkRunFailed, whose error is only logged, then 503.   *)
FailEnqueuedRun(r) ==
  /\ enq[r] = "undelivered"
  /\ \/ SetStatus(r, "failed") /\ NoFault
     \/ FailedWrite(r, "failed")
  /\ enq' = [enq EXCEPT ![r] = "unavailable"]
  /\ UNCHANGED <<starter, queueAged, runAged, enqPod, victim, brokerVars,
                 workerVars, cancelVars, fired>>

-----------------------------------------------------------------------------
(* The consumer of a pod (consumeWorker): startTask, then Ack.             *)

Deliver(p, r) ==
  /\ phase[p] # "stopped" /\ delivering[p] = NoRun
  /\ queue[r] > 0
  /\ spawned < MaxTasks
  /\ queue' = [queue EXCEPT ![r] = @ - 1]
  /\ delivering' = [delivering EXCEPT ![p] = r]
  /\ spawned' = spawned + 1
  /\ task' = [task EXCEPT ![spawned + 1] =
                [run |-> r, pod |-> p, pc |-> "register", ctx |-> "live",
                 tries |-> 0, out |-> "none"]]
  /\ UNCHANGED <<dbVars, enqVars, cancellers, cancelled, phase, cancelVars,
                 fired, faults>>

(* The Ack arrives, or the connection is lost first and the broker puts    *)
(* the message back; StartWorker reconnects.                               *)
Acknowledge(p) ==
  /\ delivering[p] # NoRun
  /\ \/ UNCHANGED queue /\ NoFault
     \/ queue' = [queue EXCEPT ![delivering[p]] = @ + 1] /\ Fault
  /\ delivering' = [delivering EXCEPT ![p] = NoRun]
  /\ UNCHANGED <<dbVars, enqVars, workerVars, cancelVars, fired>>

(* Messages are published without DeliveryMode: a restart of the broker    *)
(* drops those it holds, the unacknowledged ones included.                 *)
BrokerRestart ==
  /\ \E r \in Runs : queue[r] > 0
  /\ Fault
  /\ queue' = [r \in Runs |-> 0]
  /\ delivering' = [p \in Pods |-> NoRun]
  /\ UNCHANGED <<dbVars, enqVars, workerVars, cancelVars, fired>>

-----------------------------------------------------------------------------
(* The worker goroutine (processTask).                                     *)

At(t, pc) == task[t].pc = pc

Goto(t, pc) == task' = [task EXCEPT ![t].pc = pc]

(* Goes to pc with the status that the hooks will be called with.          *)
Report(t, pc, out) == task' = [task EXCEPT ![t].pc = pc, ![t].out = out]

(* The goroutine creates its context and stores the cancel function.       *)
Register(t) ==
  /\ At(t, "register")
  /\ Goto(t, "checkLocal")
  /\ cancellers' = [cancellers EXCEPT ![task[t].pod][task[t].run] = t]
  /\ UNCHANGED <<dbVars, enqVars, brokerVars, spawned, cancelled, phase,
                 cancelVars, fired, faults>>

(* A slip for the mutation checks: the intent is not looked at.            *)
CheckLocalSkipped(t) ==
  /\ At(t, "checkLocal")
  /\ Goto(t, "checkStored")
  /\ UNCHANGED <<dbVars, enqVars, brokerVars, spawned, cancellers, cancelled,
                 phase, cancelVars, fired, faults>>

(* wasCancelled before the run starts.                                     *)
CheckLocal(t) ==
  /\ At(t, "checkLocal")
  /\ \/ /\ task[t].run \in cancelled[task[t].pod]
        /\ Report(t, "persistCancelled", "cancelled")
     \/ /\ task[t].run \notin cancelled[task[t].pod]
        /\ Goto(t, "checkStored")
  /\ UNCHANGED <<dbVars, enqVars, brokerVars, spawned, cancellers, cancelled,
                 phase, cancelVars, fired, faults>>

(* GetRunByID; a failed read counts as not cancelled.                      *)
CheckStored(t) ==
  /\ At(t, "checkStored")
  /\ \/ /\ status[task[t].run] = "cancelled"
        /\ Report(t, "hooks", "cancelled")
        /\ NoFault
     \/ /\ status[task[t].run] # "cancelled"
        /\ Goto(t, "activate")
        /\ NoFault
     \/ Goto(t, "activate") /\ Fault
  /\ UNCHANGED <<dbVars, enqVars, brokerVars, spawned, cancellers, cancelled,
                 phase, cancelVars, fired>>

(* UpdateRunStatus(active): the error is ignored, whether the context has  *)
(* ended, the unique index refuses the row or the call failed.             *)
Activate(t) ==
  /\ At(t, "activate")
  /\ Goto(t, "startup")
  /\ LET r == task[t].run
     IN  \/ /\ task[t].ctx = "live" /\ IndexAllows(r)
            /\ SetStatus(r, "active")
            /\ starter' = [starter EXCEPT ![r] = IF @ = NoTask THEN t ELSE @]
            /\ NoFault
         \/ /\ task[t].ctx # "live" \/ ~IndexAllows(r)
            /\ UNCHANGED <<status, starter>> /\ NoFault
         \/ UNCHANGED <<status, starter>> /\ Fault
         \/ /\ IndexAllows(r)
            /\ SetStatus(r, "active")
            /\ starter' = [starter EXCEPT ![r] = IF @ = NoTask THEN t ELSE @]
            /\ Fault
  /\ UNCHANGED <<queueAged, runAged, enqVars, brokerVars, spawned, cancellers,
                 cancelled, phase, cancelVars, fired>>

(* Everything between the activation and the runner's first event: loading *)
(* the session, routing and binding an agent, building the model.  All of  *)
(* it uses the task's context, and all of it may fail.                     *)
Startup(t) ==
  /\ At(t, "startup")
  /\ \/ task[t].ctx = "live" /\ Goto(t, "run")
     \/ Goto(t, "startupFailed")
  /\ UNCHANGED <<dbVars, enqVars, brokerVars, spawned, cancellers, cancelled,
                 phase, cancelVars, fired, faults>>

(* A slip for the mutation checks: the failure is not written.             *)
StartupFailedSilently(t) ==
  /\ At(t, "startupFailed")
  /\ Goto(t, "exit")
  /\ UNCHANGED <<dbVars, enqVars, brokerVars, spawned, cancellers, cancelled,
                 phase, cancelVars, fired, faults>>

(* MarkRunFailed(ctx), which fails if the context has ended; then return.  *)
StartupFailed(t) ==
  /\ At(t, "startupFailed")
  /\ Goto(t, "exit")
  /\ \/ task[t].ctx = "live" /\ SetStatus(task[t].run, "failed") /\ NoFault
     \/ task[t].ctx # "live" /\ UNCHANGED status /\ NoFault
     \/ FailedWrite(task[t].run, "failed")
  /\ UNCHANGED <<starter, queueAged, runAged, enqVars, brokerVars, spawned,
                 cancellers, cancelled, phase, cancelVars, fired>>

(* The runner closes its channel and the context decides what that means:  *)
(* ended by a cancel, ended by the timeout, a fatal LLM error, success.    *)
RunnerEnds(t) ==
  /\ At(t, "run")
  /\ \/ /\ task[t].ctx # "live"
        /\ task[t].run \in cancelled[task[t].pod]
        /\ Report(t, "persistCancelled", "cancelled")
     \/ /\ task[t].ctx # "live"
        /\ task[t].run \notin cancelled[task[t].pod]
        /\ Report(t, "persistFailed", "failed")
     \/ task[t].ctx = "live" /\ Report(t, "persistFailed", "failed")
     \/ task[t].ctx = "live" /\ Report(t, "persistCompleted", "completed")
  /\ UNCHANGED <<dbVars, enqVars, brokerVars, spawned, cancellers, cancelled,
                 phase, cancelVars, fired, faults>>

(* UpdateRunStatus(cancelled) and MarkRunFailed outlive the context; their *)
(* errors are ignored.                                                     *)
PersistOutcome(t) ==
  /\ At(t, "persistCancelled") \/ At(t, "persistFailed")
  /\ Goto(t, "hooks")
  /\ \/ SetStatus(task[t].run, task[t].out) /\ NoFault
     \/ FailedWrite(task[t].run, task[t].out)
  /\ UNCHANGED <<starter, queueAged, runAged, enqVars, brokerVars, spawned,
                 cancellers, cancelled, phase, cancelVars, fired>>

(* Slips for the mutation checks: a failed write is not tried again; a     *)
(* completion that could not be written is announced all the same.         *)
PersistCompletedOnce(t) ==
  /\ At(t, "persistCompleted")
  /\ \/ Goto(t, "hooks") /\ SetStatus(task[t].run, "completed") /\ NoFault
     \/ Goto(t, "exit") /\ FailedWrite(task[t].run, "completed")
  /\ UNCHANGED <<starter, queueAged, runAged, enqVars, brokerVars, spawned,
                 cancellers, cancelled, phase, cancelVars, fired>>

PersistCompletedIgnored(t) ==
  /\ At(t, "persistCompleted")
  /\ Goto(t, "hooks")
  /\ \/ SetStatus(task[t].run, "completed") /\ NoFault
     \/ FailedWrite(task[t].run, "completed")
  /\ UNCHANGED <<starter, queueAged, runAged, enqVars, brokerVars, spawned,
                 cancellers, cancelled, phase, cancelVars, fired>>

(* retryAsyncTerminalPersistence around MarkRunCompleted: a failed write   *)
(* is tried again, TerminalAttempts times in all; without success the task *)
(* returns before its hooks.                                               *)
PersistCompleted(t) ==
  /\ At(t, "persistCompleted")
  /\ \/ Goto(t, "hooks") /\ SetStatus(task[t].run, "completed") /\ NoFault
     \/ /\ task' = [task EXCEPT ![t].tries = @ + 1,
                                ![t].pc = IF task[t].tries + 1 = TerminalAttempts
                                          THEN "exit" ELSE @]
        /\ FailedWrite(task[t].run, "completed")
  /\ UNCHANGED <<starter, queueAged, runAged, enqVars, brokerVars, spawned,
                 cancellers, cancelled, phase, cancelVars, fired>>

(* fireCompletionHooks.                                                    *)
FireCompletionHooks(t) ==
  /\ At(t, "hooks")
  /\ Goto(t, "exit")
  /\ fired' = [fired EXCEPT ![task[t].run] = Append(@, task[t].out)]
  /\ UNCHANGED <<dbVars, enqVars, brokerVars, spawned, cancellers, cancelled,
                 phase, cancelVars, faults>>

(* A slip for the mutation checks: the entry stays.                        *)
UnregisterNothing(t) ==
  /\ At(t, "exit")
  /\ Goto(t, "forget")
  /\ UNCHANGED <<dbVars, enqVars, brokerVars, spawned, cancellers, cancelled,
                 phase, cancelVars, fired, faults>>

(* The deferred functions: both map entries of the run are deleted, one    *)
(* after the other, and the context is released.                           *)
Unregister(t) ==
  /\ At(t, "exit")
  /\ Goto(t, "forget")
  /\ cancellers' = [cancellers EXCEPT ![task[t].pod][task[t].run] = NoTask]
  /\ UNCHANGED <<dbVars, enqVars, brokerVars, spawned, cancelled, phase,
                 cancelVars, fired, faults>>

Return(t) ==
  /\ At(t, "forget")
  /\ task' = [task EXCEPT ![t].pc = "gone", ![t].ctx = "done"]
  /\ cancelled' = [cancelled EXCEPT ![task[t].pod] = @ \ {task[t].run}]
  /\ UNCHANGED <<dbVars, enqVars, brokerVars, spawned, cancellers, phase,
                 cancelVars, fired, faults>>

(* runTimeout elapses.  Later than the runner's end nothing looks at it.   *)
Timeout(t) ==
  /\ TimePasses /\ task[t].ctx = "live"
  /\ task[t].pc \in TimedSteps
  /\ task' = [task EXCEPT ![t].ctx = "expired"]
  /\ UNCHANGED <<dbVars, enqVars, brokerVars, spawned, cancellers, cancelled,
                 phase, cancelVars, fired, faults>>

-----------------------------------------------------------------------------
(* cancelRun.                                                              *)

(* A slip for the mutation checks: the intent is not stored.               *)
CancelStoreNothing(k, r, p) ==
  /\ cpc[k] = "idle" /\ phase[p] = "up" /\ status[r] # "none"
  /\ cpc' = [cpc EXCEPT ![k] = "load"]
  /\ crun' = [crun EXCEPT ![k] = r]
  /\ cpod' = [cpod EXCEPT ![k] = p]
  /\ UNCHANGED <<dbVars, enqVars, brokerVars, workerVars, fired, faults>>

(* GetRunByID finds the row; Cancel stores the intent...                   *)
CancelStore(k, r, p) ==
  /\ cpc[k] = "idle" /\ phase[p] = "up" /\ status[r] # "none"
  /\ cpc' = [cpc EXCEPT ![k] = "load"]
  /\ crun' = [crun EXCEPT ![k] = r]
  /\ cpod' = [cpod EXCEPT ![k] = p]
  /\ cancelled' = [cancelled EXCEPT ![p] = @ \cup {r}]
  /\ UNCHANGED <<dbVars, enqVars, brokerVars, spawned, task, cancellers, phase,
                 fired, faults>>

(* ... then loads the cancel function and, if there is one, calls it.      *)
CancelLoad(k) ==
  /\ cpc[k] = "load"
  /\ LET t == cancellers[cpod[k]][crun[k]]
     IN  IF t # NoTask
         THEN /\ task' = [task EXCEPT ![t].ctx = "done"]
              /\ cpc' = [cpc EXCEPT ![k] = "dispatched"]
         ELSE /\ cpc' = [cpc EXCEPT ![k] = "persist"]
              /\ UNCHANGED task
  /\ UNCHANGED <<dbVars, enqVars, brokerVars, spawned, cancellers, cancelled,
                 phase, crun, cpod, fired, faults>>

(* Not in flight on this pod: the cancellation is written to the table.    *)
CancelPersist(k) ==
  /\ cpc[k] = "persist"
  /\ \/ /\ SetStatus(crun[k], "cancelled") /\ NoFault
        /\ cpc' = [cpc EXCEPT ![k] = "persisted"]
     \/ /\ FailedWrite(crun[k], "cancelled")
        /\ cpc' = [cpc EXCEPT ![k] = "notFound"]
  /\ UNCHANGED <<starter, queueAged, runAged, enqVars, brokerVars, workerVars,
                 crun, cpod, fired>>

-----------------------------------------------------------------------------
(* Pods.                                                                   *)

(* Server.Shutdown: the worker's context is cancelled, then every          *)
(* registered task is marked cancelled and its context ended.              *)
Shutdown(p) ==
  /\ phase[p] = "up" /\ Fault
  /\ phase' = [phase EXCEPT ![p] = "stopping"]
  /\ LET registered == {r \in Runs : cancellers[p][r] # NoTask}
     IN  /\ cancelled' = [cancelled EXCEPT ![p] = @ \cup registered]
         /\ task' = [t \in Tasks |->
                       IF \E r \in registered : cancellers[p][r] = t
                       THEN [task[t] EXCEPT !.ctx = "done"] ELSE task[t]]
  /\ UNCHANGED <<dbVars, enqVars, brokerVars, spawned, cancellers, cancelVars, fired>>

(* The consumer notices ctx.Done and returns.                              *)
StopConsuming(p) ==
  /\ phase[p] = "stopping" /\ delivering[p] = NoRun
  /\ phase' = [phase EXCEPT ![p] = "stopped"]
  /\ UNCHANGED <<dbVars, enqVars, brokerVars, spawned, task, cancellers,
                 cancelled, cancelVars, fired, faults>>

(* The process ends, by a crash or at the end of a shutdown, and starts    *)
(* again: goroutines, requests and maps are gone, the unacknowledged       *)
(* message returns to the queue.                                           *)
ProcessEnds(p) ==
  /\ task' = [t \in Tasks |-> IF task[t].pod = p /\ InFlight(t)
                              THEN [task[t] EXCEPT !.pc = "gone", !.ctx = "done"]
                              ELSE task[t]]
  /\ cancellers' = [cancellers EXCEPT ![p] = [r \in Runs |-> NoTask]]
  /\ cancelled' = [cancelled EXCEPT ![p] = {}]
  /\ queue' = [r \in Runs |-> IF r = delivering[p] THEN queue[r] + 1 ELSE queue[r]]
  /\ delivering' = [delivering EXCEPT ![p] = NoRun]
  /\ enq' = [r \in Runs |->
               IF enqPod[r] = p /\ enq[r] \in {"expire", "insert", "publish", "undelivered"}
               THEN "lost" ELSE enq[r]]
  /\ victim' = [r \in Runs |-> IF enqPod[r] = p THEN NoRun ELSE victim[r]]
  /\ cpc' = [k \in Cancels |->
               IF cpod[k] = p /\ cpc[k] \in {"load", "persist"} THEN "lost" ELSE cpc[k]]
  /\ phase' = [phase EXCEPT ![p] = "up"]
  /\ UNCHANGED <<dbVars, enqPod, spawned, crun, cpod, fired>>

Crash(p) == phase[p] = "up" /\ Fault /\ ProcessEnds(p)

(* Shutdown waits for the tasks, but not longer than its own context.      *)
Exit(p) == phase[p] # "up" /\ NoFault /\ ProcessEnds(p)

-----------------------------------------------------------------------------
Init ==
  /\ status = [r \in Runs |-> "none"]
  /\ starter = [r \in Runs |-> NoTask]
  /\ queueAged = [r \in Runs |-> FALSE]
  /\ runAged = [r \in Runs |-> FALSE]
  /\ enq = [r \in Runs |-> "idle"]
  /\ enqPod = [r \in Runs |-> NoPod]
  /\ victim = [r \in Runs |-> NoRun]
  /\ queue = [r \in Runs |-> 0]
  /\ delivering = [p \in Pods |-> NoRun]
  /\ spawned = 0
  /\ task = [t \in Tasks |-> [run |-> NoRun, pod |-> NoPod, pc |-> "free",
                              ctx |-> "live", tries |-> 0, out |-> "none"]]
  /\ cancellers = [p \in Pods |-> [r \in Runs |-> NoTask]]
  /\ cancelled = [p \in Pods |-> {}]
  /\ phase = [p \in Pods |-> "up"]
  /\ cpc = [k \in Cancels |-> "idle"]
  /\ crun = [k \in Cancels |-> NoRun]
  /\ cpod = [k \in Cancels |-> NoPod]
  /\ fired = [r \in Runs |-> << >>]
  /\ faults = 0

Enqueue(r) ==
  \/ \E p \in Pods : EnqueueCheck(r, p)
  \/ EnqueueExpire(r)
  \/ EnqueueInsert(r)
  \/ EnqueuePublish(r)
  \/ FailEnqueuedRun(r)

Consume(p) ==
  \/ \E r \in Runs : Deliver(p, r)
  \/ Acknowledge(p)

ProcessTask(t) ==
  \/ Register(t) \/ CheckLocal(t) \/ CheckStored(t) \/ Activate(t)
  \/ Startup(t) \/ StartupFailed(t) \/ RunnerEnds(t) \/ PersistOutcome(t)
  \/ PersistCompleted(t) \/ FireCompletionHooks(t) \/ Unregister(t)
  \/ Return(t)

CancelRun(k) ==
  \/ \E r \in Runs, p \in Pods : CancelStore(k, r, p)
  \/ CancelLoad(k)
  \/ CancelPersist(k)

Pod(p) == Shutdown(p) \/ StopConsuming(p) \/ Crash(p) \/ Exit(p)

Next ==
  \/ \E r \in Runs : Enqueue(r) \/ AgeInQueue(r) \/ AgeWhileActive(r)
  \/ \E p \in Pods : Consume(p) \/ Pod(p)
  \/ \E t \in Tasks : ProcessTask(t) \/ Timeout(t)
  \/ \E k \in Cancels : CancelRun(k)
  \/ BrokerRestart

Spec == Init /\ [][Next]_vars

(* Goroutines are scheduled, clocks advance, the broker delivers what it   *)
(* holds and a user whose request was refused tries again.  Faults, pods   *)
(* and cancel requests owe nothing, and neither does a runner: only its    *)
(* context is sure to end.                                                 *)
Fairness ==
  /\ \A r \in Runs : /\ WF_vars(Enqueue(r))
                     /\ WF_vars(AgeInQueue(r) \/ AgeWhileActive(r))
  /\ \A p \in Pods : WF_vars(Consume(p)) /\ WF_vars(StopConsuming(p) \/ Exit(p))
  /\ \A t \in Tasks : /\ WF_vars(ProcessTask(t) /\ ~At(t, "run"))
                      /\ WF_vars(Timeout(t))

(* A runner that no context interrupts comes to its end.                   *)
RunnerFairness == \A t \in Tasks : WF_vars(RunnerEnds(t))

FairSpec == Spec /\ Fairness

RunToEndSpec == Spec /\ Fairness /\ RunnerFairness

-----------------------------------------------------------------------------
DbTypeOK ==
  /\ status \in [Runs -> RunStatus]
  /\ starter \in [Runs -> Tasks \cup {NoTask}]
  /\ queueAged \in [Runs -> BOOLEAN]
  /\ runAged \in [Runs -> BOOLEAN]

EnqTypeOK ==
  /\ enq \in [Runs -> {"idle", "expire", "insert", "publish", "undelivered",
                       "accepted", "unavailable", "lost"}]
  /\ enqPod \in [Runs -> Pods \cup {NoPod}]
  /\ victim \in [Runs -> Runs \cup {NoRun}]

BrokerTypeOK ==
  /\ queue \in [Runs -> Nat]
  /\ delivering \in [Pods -> Runs \cup {NoRun}]

WorkerTypeOK ==
  /\ spawned \in 0 .. MaxTasks
  /\ task \in [Tasks -> TaskRec]
  /\ cancellers \in [Pods -> [Runs -> Tasks \cup {NoTask}]]
  /\ cancelled \in [Pods -> SUBSET Runs]
  /\ phase \in [Pods -> {"up", "stopping", "stopped"}]

CancelTypeOK ==
  /\ cpc \in [Cancels -> {"idle", "load", "persist", "dispatched", "persisted",
                          "notFound", "lost"}]
  /\ crun \in [Cancels -> Runs \cup {NoRun}]
  /\ cpod \in [Cancels -> Pods \cup {NoPod}]

HistoryTypeOK ==
  /\ fired \in [Runs -> Seq(Terminal)]
  /\ faults \in 0 .. MaxFaults

TypeOK ==
  /\ DbTypeOK
  /\ EnqTypeOK
  /\ BrokerTypeOK
  /\ WorkerTypeOK
  /\ CancelTypeOK
  /\ HistoryTypeOK

(* A session never has two runs that wait or execute according to the      *)
(* table, whatever requests, expiries, deliveries and cancels interleave.  *)
OneLivePerSession ==
  \A r, o \in Runs :
    r # o /\ SessionOf[r] = SessionOf[o] /\ Live(r) => ~Live(o)

(* "preventing concurrent runs that corrupt history"                       *)
(* (async_executor.go:266): two runners never work on the same session.    *)
NoConcurrentRunners ==
  \A t, u \in Tasks :
    t # u /\ At(t, "run") /\ At(u, "run") =>
      SessionOf[task[t].run] # SessionOf[task[u].run]

(* A run that the table shows as active has a goroutine that will still    *)
(* write its outcome.                                                      *)
ActiveHasWorker ==
  \A r \in Runs : status[r] = "active" =>
    \E t \in Tasks : /\ task[t].run = r /\ InFlight(t)
                     /\ task[t].pc \notin {"hooks", "exit", "forget"}

(* No other task ever worked on the run of t.                              *)
OnlyTask(t) == \A u \in Tasks \ {t} : task[u].run # task[t].run

(* The request was accepted, nobody cancelled the run or could expire it,  *)
(* and only this task ever worked on it.                                   *)
SoleTask(t) ==
  /\ enq[task[t].run] = "accepted"
  /\ ~queueAged[task[t].run] /\ ~runAged[task[t].run]
  /\ \A k \in Cancels : crun[k] # task[t].run
  /\ OnlyTask(t)

(* When the only task of an accepted run returns after its runner          *)
(* succeeded, the completion is in the table and was announced exactly     *)
(* once, as long as the database failed less often than MarkRunCompleted   *)
(* is tried; without any fault the same holds for every outcome.           *)
OutcomeDurable ==
  \A t \in Tasks :
    /\ At(t, "exit") /\ task[t].out # "none" /\ SoleTask(t)
    /\ faults = 0 \/ (task[t].out = "completed" /\ faults < TerminalAttempts)
    => status[task[t].run] = task[t].out /\ fired[task[t].run] = <<task[t].out>>

(* A hook never announces a completion that is not in the table, unless    *)
(* another goroutine or request has since written the row: even a database *)
(* that never answers cannot make the executor report a success it did not *)
(* store.                                                                  *)
AnnouncedIsStored ==
  \A t \in Tasks :
    /\ task[t].pc \in {"hooks", "exit"} /\ task[t].out = "completed" /\ SoleTask(t)
    /\ fired[task[t].run] # << >> \/ At(t, "hooks")
    => status[task[t].run] = "completed"

(* A context that a cancel ended is never taken for a timeout ("can        *)
(* distinguish a deliberate cancel from a timeout", async_executor.go:131),*)
(* whether the deadline passed before the cancel, between its two steps or *)
(* not at all: whoever's cancel function was called is reported failed     *)
(* only if its runner had ended before, and even then its intent is known, *)
(* unless a second delivery of the run shares the entries of the maps.     *)
CancelIsNotTimeout ==
  \A t \in Tasks :
    At(t, "persistFailed") /\ OnlyTask(t) /\ task[t].ctx = "done" =>
      task[t].run \in cancelled[task[t].pod]

(* The steps at which a task is in the map of cancel functions.            *)
Registered(t) == InFlight(t) /\ task[t].pc \notin {"register", "forget"}

(* The cancellers of a pod are those of the goroutines it has in flight    *)
(* (async_executor.go:127): no entry outlives its task, and a registered   *)
(* task can be cancelled, unless a second delivery of its run replaced or  *)
(* removed the entry.                                                      *)
CancellersExact ==
  \A p \in Pods, r \in Runs, t \in Tasks :
    /\ cancellers[p][r] = t => Registered(t) /\ task[t].pod = p /\ task[t].run = r
    /\ Registered(t) /\ task[t].pod = p /\ task[t].run = r /\ OnlyTask(t) =>
         cancellers[p][r] = t

(* A cancelled run is not taken up again ("otherwise a cancelled task can  *)
(* be resurrected", async_executor.go:669), where nothing failed and the   *)
(* pod that served the cancels of the run is the pod that works on it.     *)
NoResurrection ==
  [][\A r \in Runs :
       /\ status[r] = "cancelled" /\ faults = 0
       /\ \A t \in Tasks, k \in Cancels :
            task[t].run = r /\ crun[k] = r => cpod[k] = task[t].pod
       => status'[r] # "active"]_vars

(* Where nothing fails, an accepted run reaches an outcome.                *)
AcceptedRunFinishes ==
  \A r \in Runs : (enq[r] = "accepted") ~> (status[r] \in Terminal)

(* No run blocks its session for ever: whatever was lost, as long as       *)
(* users keep asking, a live run ends or is expired.                       *)
StuckSessionRecovers ==
  \A r, o \in Runs :
    r # o /\ SessionOf[r] = SessionOf[o] =>
      ((Live(r) /\ enq[o] = "idle") ~> (~Live(r) \/ enq[o] # "idle"))
=============================================================================
