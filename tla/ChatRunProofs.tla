--------------------------- MODULE ChatRunProofs ----------------------------
(***************************************************************************)
(* The safety of the run executor, for any number of runs, sessions, pods, *)
(* deliveries, cancel requests and faults.  In this order: the state is    *)
(* well typed and a task that reports has an outcome; a session never has  *)
(* two live rows; an outcome once stored stays, and is stored before it is *)
(* announced; the map of cancel functions is exact; only a cancel ends a   *)
(* run as cancelled, and a cancelled run is not revived; and, on a system  *)
(* where nothing fails, no time passes and nothing is cancelled, one       *)
(* runner per session and a worker behind every active row.                *)
(***************************************************************************)
EXTENDS ChatRun, TLAPS

-----------------------------------------------------------------------------
(* A task that is about to write or announce an outcome has one.           *)
OutcomeSet ==
  \A t \in Tasks :
    task[t].pc \in {"persistCancelled", "persistFailed", "persistCompleted", "hooks"} =>
      task[t].out \in Terminal

(* What every step of the executor preserves by itself.                    *)
RunInv == TypeOK /\ OutcomeSet /\ OneLivePerSession

-----------------------------------------------------------------------------
(* Facts about the operators the actions are built from.                   *)

(* A task record stays one when its program counter, its context, its      *)
(* outcome or its number of attempts changes.                              *)
LEMMA RecordUpdates ==
  ASSUME NEW x \in TaskRec
  PROVE  /\ \A pc \in TaskSteps \cup {"free", "gone"} : [x EXCEPT !.pc = pc] \in TaskRec
         /\ \A pc \in TaskSteps \cup {"free", "gone"}, out \in Terminal :
              [x EXCEPT !.pc = pc, !.out = out] \in TaskRec
         /\ [x EXCEPT !.ctx = "done"] \in TaskRec
         /\ [x EXCEPT !.ctx = "expired"] \in TaskRec
         /\ [x EXCEPT !.pc = "gone", !.ctx = "done"] \in TaskRec
         /\ \A n \in Nat, pc \in TaskSteps \cup {"free", "gone"} :
              [x EXCEPT !.tries = n, !.pc = pc] \in TaskRec
         /\ x.tries \in Nat
  <1> DEFINE PCs == TaskSteps \cup {"free", "gone"}
  <1>1. ASSUME NEW pc \in PCs PROVE [x EXCEPT !.pc = pc] \in TaskRec
    BY DEF TaskRec
  <1>2. ASSUME NEW pc \in PCs, NEW out \in Terminal
        PROVE  [x EXCEPT !.pc = pc, !.out = out] \in TaskRec
    BY DEF TaskRec
  <1>3. [x EXCEPT !.ctx = "done"] \in TaskRec
    BY DEF TaskRec
  <1>4. [x EXCEPT !.pc = "gone", !.ctx = "done"] \in TaskRec
    BY DEF TaskRec
  <1>5. ASSUME NEW n \in Nat, NEW pc \in PCs
        PROVE  [x EXCEPT !.tries = n, !.pc = pc] \in TaskRec
    BY DEF TaskRec
  <1>6. x.tries \in Nat
    BY DEF TaskRec
  <1>7. [x EXCEPT !.ctx = "expired"] \in TaskRec
    BY DEF TaskRec
  <1> QED
    BY <1>1, <1>2, <1>3, <1>4, <1>5, <1>6, <1>7

(* So the moves of processTask keep the tasks well typed.                  *)
LEMMA GotoType ==
  ASSUME WorkerTypeOK, NEW t \in Tasks, NEW pc \in TaskSteps \cup {"free", "gone"},
         Goto(t, pc)
  PROVE  task' \in [Tasks -> TaskRec]
  BY RecordUpdates DEF WorkerTypeOK, Goto

(* Report is a Goto that also sets the outcome.                            *)
LEMMA ReportType ==
  ASSUME WorkerTypeOK, NEW t \in Tasks, NEW pc \in TaskSteps \cup {"free", "gone"},
         NEW out \in Terminal, Report(t, pc, out)
  PROVE  task' \in [Tasks -> TaskRec]
  BY RecordUpdates DEF WorkerTypeOK, Report

(* A write to the status column.                                           *)
LEMMA SetStatusType ==
  ASSUME DbTypeOK, NEW r, NEW s \in RunStatus, SetStatus(r, s)
  PROVE  status' \in [Runs -> RunStatus]
  BY DEF DbTypeOK, SetStatus

(* The fault counter.                                                      *)
LEMMA FaultType ==
  ASSUME HistoryTypeOK, Fault \/ NoFault
  PROVE  faults' \in 0 .. MaxFaults
  BY ChatRunAssumptions DEF HistoryTypeOK, Fault, NoFault

(* What an action leaves alone keeps its type.                             *)
LEMMA Frame ==
  ASSUME TypeOK
  PROVE  /\ UNCHANGED dbVars => DbTypeOK'
         /\ UNCHANGED enqVars => EnqTypeOK'
         /\ UNCHANGED brokerVars => BrokerTypeOK'
         /\ UNCHANGED workerVars => WorkerTypeOK'
         /\ UNCHANGED cancelVars => CancelTypeOK'
         /\ UNCHANGED <<fired, faults>> => HistoryTypeOK'
  BY DEF TypeOK, DbTypeOK, EnqTypeOK, BrokerTypeOK, WorkerTypeOK, CancelTypeOK,
         HistoryTypeOK, dbVars, enqVars, brokerVars, workerVars, cancelVars

-----------------------------------------------------------------------------
(* The end of a process.                                                   *)
LEMMA ProcessEndsType ==
  ASSUME TypeOK, NEW p \in Pods, ProcessEnds(p)
  PROVE  EnqTypeOK' /\ BrokerTypeOK' /\ WorkerTypeOK' /\ CancelTypeOK'
  <1> USE DEF TypeOK
  <1>1. EnqTypeOK'
    BY DEF ProcessEnds, EnqTypeOK
  <1>2. BrokerTypeOK'
    <2>1. /\ queue' = [r \in Runs |-> IF r = delivering[p] THEN queue[r] + 1 ELSE queue[r]]
          /\ delivering' = [delivering EXCEPT ![p] = NoRun]
      BY DEF ProcessEnds
    <2>2. \A r \in Runs : queue[r] \in Nat
      BY DEF BrokerTypeOK
    <2>3. queue' \in [Runs -> Nat]
      BY <2>1, <2>2
    <2> QED
      BY <2>1, <2>3 DEF BrokerTypeOK
  <1>3. WorkerTypeOK'
    BY RecordUpdates DEF ProcessEnds, WorkerTypeOK
  <1>4. CancelTypeOK'
    BY DEF ProcessEnds, CancelTypeOK
  <1> QED
    BY <1>1, <1>2, <1>3, <1>4

(* Every step keeps the state well typed.                                  *)
LEMMA StepTypeOK == TypeOK /\ OutcomeSet /\ [Next]_vars => TypeOK'
  <1> SUFFICES ASSUME TypeOK, OutcomeSet, [Next]_vars PROVE TypeOK'
    OBVIOUS
  <1> USE ChatRunAssumptions DEF TypeOK
  <1>1. ASSUME NEW r \in Runs, NEW p \in Pods, EnqueueCheck(r, p)
        PROVE  TypeOK'
    <2>1. EnqTypeOK'
      BY <1>1 DEF EnqueueCheck, EnqTypeOK
    <2> QED
      BY <1>1, <2>1, Frame DEF EnqueueCheck
  <1>2. ASSUME NEW r \in Runs, EnqueueExpire(r)
        PROVE  TypeOK'
    <2>1. DbTypeOK'
      BY <1>2, SetStatusType DEF EnqueueExpire, FailedWrite, DbTypeOK, RunStatus, Terminal
    <2>2. EnqTypeOK'
      BY <1>2 DEF EnqueueExpire, EnqTypeOK
    <2>3. HistoryTypeOK'
      BY <1>2, FaultType DEF EnqueueExpire, FailedWrite, HistoryTypeOK
    <2> QED
      BY <1>2, <2>1, <2>2, <2>3, Frame DEF EnqueueExpire
  <1>3. ASSUME NEW r \in Runs, EnqueueInsert(r)
        PROVE  TypeOK'
    <2>1. DbTypeOK'
      BY <1>3, SetStatusType DEF EnqueueInsert, DbTypeOK, RunStatus, Terminal
    <2>2. EnqTypeOK'
      BY <1>3 DEF EnqueueInsert, EnqTypeOK
    <2>3. HistoryTypeOK'
      BY <1>3, FaultType DEF EnqueueInsert, HistoryTypeOK
    <2> QED
      BY <1>3, <2>1, <2>2, <2>3, Frame DEF EnqueueInsert
  <1>4. ASSUME NEW r \in Runs, EnqueuePublish(r)
        PROVE  TypeOK'
    <2>1. EnqTypeOK'
      BY <1>4 DEF EnqueuePublish, EnqTypeOK
    <2>2. BrokerTypeOK'
      BY <1>4 DEF EnqueuePublish, BrokerTypeOK
    <2>3. HistoryTypeOK'
      BY <1>4, FaultType DEF EnqueuePublish, HistoryTypeOK
    <2> QED
      BY <1>4, <2>1, <2>2, <2>3, Frame DEF EnqueuePublish
  <1>5. ASSUME NEW r \in Runs, FailEnqueuedRun(r)
        PROVE  TypeOK'
    <2>1. DbTypeOK'
      BY <1>5, SetStatusType DEF FailEnqueuedRun, FailedWrite, DbTypeOK, RunStatus, Terminal
    <2>2. EnqTypeOK'
      BY <1>5 DEF FailEnqueuedRun, EnqTypeOK
    <2>3. HistoryTypeOK'
      BY <1>5, FaultType DEF FailEnqueuedRun, FailedWrite, HistoryTypeOK
    <2> QED
      BY <1>5, <2>1, <2>2, <2>3, Frame DEF FailEnqueuedRun
  <1>6. ASSUME NEW r \in Runs, AgeInQueue(r)
        PROVE  TypeOK'
    <2>1. DbTypeOK'
      BY <1>6 DEF AgeInQueue, DbTypeOK
    <2> QED
      BY <1>6, <2>1, Frame DEF AgeInQueue
  <1>7. ASSUME NEW r \in Runs, AgeWhileActive(r)
        PROVE  TypeOK'
    <2>1. DbTypeOK'
      BY <1>7 DEF AgeWhileActive, DbTypeOK
    <2> QED
      BY <1>7, <2>1, Frame DEF AgeWhileActive
  <1>8. ASSUME NEW p \in Pods, NEW r \in Runs, Deliver(p, r)
        PROVE  TypeOK'
    <2>1. BrokerTypeOK'
      BY <1>8 DEF Deliver, BrokerTypeOK
    <2>2. WorkerTypeOK'
      BY <1>8 DEF Deliver, WorkerTypeOK, TaskRec, TaskSteps, Tasks
    <2> QED
      BY <1>8, <2>1, <2>2, Frame DEF Deliver
  <1>9. ASSUME NEW p \in Pods, Acknowledge(p)
        PROVE  TypeOK'
    <2>1. BrokerTypeOK'
      BY <1>9 DEF Acknowledge, BrokerTypeOK
    <2>2. HistoryTypeOK'
      BY <1>9, FaultType DEF Acknowledge, HistoryTypeOK
    <2> QED
      BY <1>9, <2>1, <2>2, Frame DEF Acknowledge
  <1>10. ASSUME NEW t \in Tasks, Register(t)
        PROVE  TypeOK'
    <2>1. WorkerTypeOK'
      BY <1>10, GotoType DEF Register, WorkerTypeOK, TaskSteps, Terminal
    <2> QED
      BY <1>10, <2>1, Frame DEF Register
  <1>11. ASSUME NEW t \in Tasks, CheckLocal(t)
        PROVE  TypeOK'
    <2>1. WorkerTypeOK'
      BY <1>11, GotoType, ReportType DEF CheckLocal, WorkerTypeOK, TaskSteps, Terminal
    <2> QED
      BY <1>11, <2>1, Frame DEF CheckLocal
  <1>12. ASSUME NEW t \in Tasks, CheckStored(t)
        PROVE  TypeOK'
    <2>1. WorkerTypeOK'
      BY <1>12, GotoType, ReportType DEF CheckStored, WorkerTypeOK, TaskSteps, Terminal
    <2>2. HistoryTypeOK'
      BY <1>12, FaultType DEF CheckStored, HistoryTypeOK
    <2> QED
      BY <1>12, <2>1, <2>2, Frame DEF CheckStored
  <1>13. ASSUME NEW t \in Tasks, Activate(t)
        PROVE  TypeOK'
    <2>1. DbTypeOK'
      BY <1>13, SetStatusType DEF Activate, DbTypeOK, RunStatus, Terminal
    <2>2. WorkerTypeOK'
      BY <1>13, GotoType DEF Activate, WorkerTypeOK, TaskSteps, Terminal
    <2>3. HistoryTypeOK'
      BY <1>13, FaultType DEF Activate, HistoryTypeOK
    <2> QED
      BY <1>13, <2>1, <2>2, <2>3, Frame DEF Activate
  <1>14. ASSUME NEW t \in Tasks, Startup(t)
        PROVE  TypeOK'
    <2>1. WorkerTypeOK'
      BY <1>14, GotoType DEF Startup, WorkerTypeOK, TaskSteps, Terminal
    <2> QED
      BY <1>14, <2>1, Frame DEF Startup
  <1>15. ASSUME NEW t \in Tasks, StartupFailed(t)
        PROVE  TypeOK'
    <2>1. DbTypeOK'
      BY <1>15, SetStatusType DEF StartupFailed, FailedWrite, DbTypeOK, RunStatus, Terminal
    <2>2. WorkerTypeOK'
      BY <1>15, GotoType DEF StartupFailed, WorkerTypeOK, TaskSteps, Terminal
    <2>3. HistoryTypeOK'
      BY <1>15, FaultType DEF StartupFailed, FailedWrite, HistoryTypeOK
    <2> QED
      BY <1>15, <2>1, <2>2, <2>3, Frame DEF StartupFailed
  <1>16. ASSUME NEW t \in Tasks, RunnerEnds(t)
        PROVE  TypeOK'
    <2>1. WorkerTypeOK'
      BY <1>16, ReportType DEF RunnerEnds, WorkerTypeOK, TaskSteps, Terminal
    <2> QED
      BY <1>16, <2>1, Frame DEF RunnerEnds
  <1>17. ASSUME NEW t \in Tasks, PersistOutcome(t)
        PROVE  TypeOK'
    <2>1. DbTypeOK'
      BY <1>17, SetStatusType DEF PersistOutcome, FailedWrite, DbTypeOK, RunStatus, Terminal, OutcomeSet, At
    <2>2. WorkerTypeOK'
      BY <1>17, GotoType DEF PersistOutcome, WorkerTypeOK, TaskSteps, Terminal
    <2>3. HistoryTypeOK'
      BY <1>17, FaultType DEF PersistOutcome, FailedWrite, HistoryTypeOK
    <2> QED
      BY <1>17, <2>1, <2>2, <2>3, Frame DEF PersistOutcome
  <1>18. ASSUME NEW t \in Tasks, PersistCompleted(t)
        PROVE  TypeOK'
    <2>1. DbTypeOK'
      BY <1>18, SetStatusType DEF PersistCompleted, FailedWrite, DbTypeOK, RunStatus, Terminal
    <2>2. WorkerTypeOK'
      <3>1. CASE Goto(t, "hooks")
        BY <1>18, <3>1, GotoType DEF PersistCompleted, WorkerTypeOK, TaskSteps
      <3>2. CASE ~Goto(t, "hooks")
        <4>1. PICK pc \in {"exit", task[t].pc} :
                task' = [task EXCEPT ![t] = [task[t] EXCEPT !.tries = task[t].tries + 1,
                                                            !.pc = pc]]
          BY <1>18, <3>2 DEF PersistCompleted, WorkerTypeOK
        <4>2. task[t] \in TaskRec /\ pc \in TaskSteps /\ task[t].tries + 1 \in Nat
          <5>1. task[t] \in TaskRec
            BY DEF WorkerTypeOK
          <5>2. task[t].tries \in Nat
            BY <5>1, RecordUpdates
          <5>3. pc \in TaskSteps
            BY <1>18, <4>1 DEF PersistCompleted, At, TaskSteps
          <5> QED
            BY <5>1, <5>2, <5>3
        <4>3. [task[t] EXCEPT !.tries = task[t].tries + 1, !.pc = pc] \in TaskRec
          BY <4>2, RecordUpdates
        <4> QED
          BY <1>18, <4>1, <4>3 DEF PersistCompleted, WorkerTypeOK
      <3> QED
        BY <3>1, <3>2
    <2>3. HistoryTypeOK'
      BY <1>18, FaultType DEF PersistCompleted, FailedWrite, HistoryTypeOK
    <2> QED
      BY <1>18, <2>1, <2>2, <2>3, Frame DEF PersistCompleted
  <1>19. ASSUME NEW t \in Tasks, FireCompletionHooks(t)
        PROVE  TypeOK'
    <2>1. WorkerTypeOK'
      BY <1>19, GotoType DEF FireCompletionHooks, WorkerTypeOK, TaskSteps, Terminal
    <2>2. HistoryTypeOK'
      <3>1. task[t].out \in Terminal
        BY <1>19 DEF FireCompletionHooks, OutcomeSet, At
      <3>2. \A r \in Runs : Append(fired[r], task[t].out) \in Seq(Terminal)
        BY <3>1 DEF HistoryTypeOK
      <3>3. fired' \in [Runs -> Seq(Terminal)]
        BY <1>19, <3>2 DEF FireCompletionHooks, HistoryTypeOK
      <3> QED
        BY <1>19, <3>3 DEF FireCompletionHooks, HistoryTypeOK
    <2> QED
      BY <1>19, <2>1, <2>2, Frame DEF FireCompletionHooks
  <1>20. ASSUME NEW t \in Tasks, Unregister(t)
        PROVE  TypeOK'
    <2>1. WorkerTypeOK'
      BY <1>20, GotoType DEF Unregister, WorkerTypeOK, TaskSteps
    <2> QED
      BY <1>20, <2>1, Frame DEF Unregister
  <1>21. ASSUME NEW t \in Tasks, Return(t)
        PROVE  TypeOK'
    <2>1. WorkerTypeOK'
      BY <1>21, RecordUpdates DEF Return, WorkerTypeOK
    <2> QED
      BY <1>21, <2>1, Frame DEF Return
  <1>22. ASSUME NEW t \in Tasks, Timeout(t)
        PROVE  TypeOK'
    <2>1. WorkerTypeOK'
      BY <1>22, RecordUpdates DEF Timeout, WorkerTypeOK
    <2> QED
      BY <1>22, <2>1, Frame DEF Timeout
  <1>23. ASSUME NEW k \in Cancels, NEW r \in Runs, NEW p \in Pods, CancelStore(k, r, p)
        PROVE  TypeOK'
    <2>1. WorkerTypeOK'
      BY <1>23 DEF CancelStore, WorkerTypeOK
    <2>2. CancelTypeOK'
      BY <1>23 DEF CancelStore, CancelTypeOK
    <2> QED
      BY <1>23, <2>1, <2>2, Frame DEF CancelStore
  <1>24. ASSUME NEW k \in Cancels, CancelLoad(k)
        PROVE  TypeOK'
    <2>1. WorkerTypeOK'
      <3> DEFINE t == cancellers[cpod[k]][crun[k]]
      <3>1. \/ task' = [task EXCEPT ![t].ctx = "done"]
            \/ task' = task
        BY <1>24 DEF CancelLoad
      <3>2. task' \in [Tasks -> TaskRec]
        <4>1. task \in [Tasks -> TaskRec] /\ \A u \in Tasks : [task[u] EXCEPT !.ctx = "done"] \in TaskRec
          BY RecordUpdates DEF WorkerTypeOK
        <4> HIDE DEF t
        <4> QED
          BY <3>1, <4>1
      <3> QED
        BY <1>24, <3>2 DEF CancelLoad, WorkerTypeOK
    <2>2. CancelTypeOK'
      BY <1>24 DEF CancelLoad, CancelTypeOK
    <2> QED
      BY <1>24, <2>1, <2>2, Frame DEF CancelLoad
  <1>25. ASSUME NEW k \in Cancels, CancelPersist(k)
        PROVE  TypeOK'
    <2>1. DbTypeOK'
      BY <1>25, SetStatusType DEF CancelPersist, FailedWrite, DbTypeOK, RunStatus, Terminal
    <2>2. CancelTypeOK'
      BY <1>25 DEF CancelPersist, CancelTypeOK
    <2>3. HistoryTypeOK'
      BY <1>25, FaultType DEF CancelPersist, FailedWrite, HistoryTypeOK
    <2> QED
      BY <1>25, <2>1, <2>2, <2>3, Frame DEF CancelPersist
  <1>26. ASSUME NEW p \in Pods, Shutdown(p)
        PROVE  TypeOK'
    <2>1. WorkerTypeOK'
      BY <1>26, RecordUpdates DEF Shutdown, WorkerTypeOK
    <2>2. HistoryTypeOK'
      BY <1>26, FaultType DEF Shutdown, HistoryTypeOK
    <2> QED
      BY <1>26, <2>1, <2>2, Frame DEF Shutdown
  <1>27. ASSUME NEW p \in Pods, StopConsuming(p)
        PROVE  TypeOK'
    <2>1. WorkerTypeOK'
      BY <1>27 DEF StopConsuming, WorkerTypeOK
    <2> QED
      BY <1>27, <2>1, Frame DEF StopConsuming
  <1>28. ASSUME NEW p \in Pods, Crash(p)
        PROVE  TypeOK'
    <2>1. HistoryTypeOK'
      BY <1>28, FaultType DEF Crash, ProcessEnds, HistoryTypeOK
    <2> QED
      BY <1>28, <2>1, ProcessEndsType, Frame DEF Crash, ProcessEnds
  <1>29. ASSUME NEW p \in Pods, Exit(p)
        PROVE  TypeOK'
    <2>1. HistoryTypeOK'
      BY <1>29, FaultType DEF Exit, ProcessEnds, HistoryTypeOK
    <2> QED
      BY <1>29, <2>1, ProcessEndsType, Frame DEF Exit, ProcessEnds
  <1>30. ASSUME BrokerRestart
        PROVE  TypeOK'
    <2>1. BrokerTypeOK'
      BY <1>30 DEF BrokerRestart, BrokerTypeOK
    <2>2. HistoryTypeOK'
      BY <1>30, FaultType DEF BrokerRestart, HistoryTypeOK
    <2> QED
      BY <1>30, <2>1, <2>2, Frame DEF BrokerRestart
  <1>31. CASE UNCHANGED vars
    BY <1>31, Frame DEF vars
  <1> QED
    BY <1>1, <1>2, <1>3, <1>4, <1>5, <1>6, <1>7, <1>8, <1>9, <1>10, <1>11,
       <1>12, <1>13, <1>14, <1>15, <1>16, <1>17, <1>18, <1>19, <1>20, <1>21,
       <1>22, <1>23, <1>24, <1>25, <1>26, <1>27, <1>28, <1>29, <1>30, <1>31
    DEF Next, Enqueue, Consume, ProcessTask, CancelRun, Pod

-----------------------------------------------------------------------------
(* A goroutine that writes or announces an outcome has one: every step     *)
(* that leads there sets it, and none resets it.                           *)
LEMMA StepOutcomeSet == TypeOK /\ OutcomeSet /\ [Next]_vars => OutcomeSet'
  <1> SUFFICES ASSUME TypeOK, OutcomeSet, [Next]_vars,
                      NEW t \in Tasks,
                      task'[t].pc \in {"persistCancelled", "persistFailed",
                                       "persistCompleted", "hooks"}
               PROVE  task'[t].out \in Terminal
    BY DEF OutcomeSet
  <1> DEFINE Writing == {"persistCancelled", "persistFailed", "persistCompleted", "hooks"}
  <1>1. /\ task \in [Tasks -> TaskRec] /\ task[t] \in TaskRec
        /\ task[t].pc \in Writing => task[t].out \in Terminal
    BY DEF TypeOK, WorkerTypeOK, OutcomeSet
  <1>2. ASSUME NEW u \in Tasks, ProcessTask(u)
        PROVE  task'[t].out \in Terminal
    <2>1. CASE u # t
      BY <1>1, <1>2, <2>1
      DEF ProcessTask, Register, CheckLocal, CheckStored, Activate, Startup,
          StartupFailed, RunnerEnds, PersistOutcome, PersistCompleted,
          FireCompletionHooks, Unregister, Return, Goto, Report
    <2>2. CASE u = t
      BY <1>1, <1>2, <2>2
      DEF ProcessTask, Register, CheckLocal, CheckStored, Activate, Startup,
          StartupFailed, RunnerEnds, PersistOutcome, PersistCompleted,
          FireCompletionHooks, Unregister, Return, Goto, Report, At, Terminal, TaskRec
    <2> QED
      BY <2>1, <2>2
  <1>3. ASSUME NEW p \in Pods, NEW r \in Runs, Deliver(p, r)
        PROVE  task'[t].out \in Terminal
    BY <1>1, <1>3 DEF Deliver
  <1>4. ASSUME NEW u \in Tasks, Timeout(u)
        PROVE  task'[t].out \in Terminal
    BY <1>1, <1>4 DEF Timeout, TaskRec
  <1>5. ASSUME NEW k \in Cancels, CancelLoad(k)
        PROVE  task'[t].out \in Terminal
    BY <1>1, <1>5 DEF CancelLoad, TaskRec
  <1>6. ASSUME NEW p \in Pods, Shutdown(p)
        PROVE  task'[t].out \in Terminal
    BY <1>1, <1>6 DEF Shutdown, TaskRec
  <1>7. ASSUME NEW p \in Pods, ProcessEnds(p)
        PROVE  task'[t].out \in Terminal
    BY <1>1, <1>7 DEF ProcessEnds, TaskRec
  <1>8. ASSUME UNCHANGED task
        PROVE  task'[t].out \in Terminal
    BY <1>1, <1>8
  <1> QED
    BY <1>2, <1>3, <1>4, <1>5, <1>6, <1>7, <1>8
    DEF Next, Enqueue, EnqueueCheck, EnqueueExpire, EnqueueInsert, EnqueuePublish,
        FailEnqueuedRun, AgeInQueue, AgeWhileActive, Consume, Acknowledge, Pod,
        StopConsuming, Crash, Exit, CancelRun, CancelStore, CancelPersist,
        BrokerRestart, vars, workerVars

-----------------------------------------------------------------------------
(* The three kinds of effect that a step has on the status column.  A step *)
(* that leaves it alone keeps the sessions apart.                          *)
LEMMA KeepStatus ==
  ASSUME OneLivePerSession, UNCHANGED status
  PROVE  OneLivePerSession'
  BY DEF OneLivePerSession, Live

(* A run leaves the live states, or was not in them.                       *)
LEMMA EndRun ==
  ASSUME DbTypeOK, OneLivePerSession, NEW r, NEW s, s \notin {"queued", "active"},
         SetStatus(r, s)
  PROVE  OneLivePerSession'
  BY DEF DbTypeOK, OneLivePerSession, Live, SetStatus

(* A run becomes live under the protection of the unique index.            *)
LEMMA StartRun ==
  ASSUME DbTypeOK, OneLivePerSession, NEW r, NEW s, IndexAllows(r), SetStatus(r, s)
  PROVE  OneLivePerSession'
  BY DEF DbTypeOK, OneLivePerSession, Live, SetStatus, IndexAllows

(* Every step has one of these three effects.                              *)
LEMMA StepOneLive ==
  TypeOK /\ OutcomeSet /\ OneLivePerSession /\ [Next]_vars => OneLivePerSession'
  <1> SUFFICES ASSUME TypeOK, OutcomeSet, OneLivePerSession, [Next]_vars
               PROVE  OneLivePerSession'
    OBVIOUS
  <1>1. DbTypeOK
    BY DEF TypeOK
  <1> USE <1>1 DEF Terminal
  <1>2. ASSUME NEW r \in Runs, Enqueue(r)
        PROVE  OneLivePerSession'
    BY <1>2, KeepStatus, EndRun, StartRun
    DEF Enqueue, EnqueueCheck, EnqueueExpire, EnqueueInsert, EnqueuePublish,
        FailEnqueuedRun, FailedWrite, dbVars
  <1>3. ASSUME NEW t \in Tasks, ProcessTask(t)
        PROVE  OneLivePerSession'
    <2>1. CASE Activate(t)
      BY <2>1, KeepStatus, StartRun DEF Activate
    <2>2. CASE StartupFailed(t)
      BY <2>2, KeepStatus, EndRun DEF StartupFailed, FailedWrite
    <2>3. CASE PersistOutcome(t)
      <3>1. task[t].out \notin {"queued", "active"}
        BY <2>3 DEF PersistOutcome, At, OutcomeSet
      <3> QED
        BY <2>3, <3>1, KeepStatus, EndRun DEF PersistOutcome, FailedWrite
    <2>4. CASE PersistCompleted(t)
      BY <2>4, KeepStatus, EndRun DEF PersistCompleted, FailedWrite
    <2>5. CASE UNCHANGED status
      BY <2>5, KeepStatus
    <2> QED
      BY <1>3, <2>1, <2>2, <2>3, <2>4, <2>5
      DEF ProcessTask, Register, CheckLocal, CheckStored, Startup, RunnerEnds,
          FireCompletionHooks, Unregister, Return, dbVars
  <1>4. ASSUME NEW k \in Cancels, CancelPersist(k)
        PROVE  OneLivePerSession'
    BY <1>4, KeepStatus, EndRun DEF CancelPersist, FailedWrite
  <1>5. CASE UNCHANGED status
    BY <1>5, KeepStatus
  <1> QED
    BY <1>2, <1>3, <1>4, <1>5
    DEF Next, AgeInQueue, AgeWhileActive, Consume, Deliver, Acknowledge, Pod,
        Shutdown, StopConsuming, Crash, Exit, ProcessEnds, Timeout, CancelRun,
        CancelStore, CancelLoad, BrokerRestart, vars, dbVars

-----------------------------------------------------------------------------
(* The executor starts without runs.                                       *)
LEMMA InitRunInv == Init => RunInv
  <1> SUFFICES ASSUME Init PROVE RunInv
    OBVIOUS
  <1> USE ChatRunAssumptions DEF Init
  <1>1. DbTypeOK
    BY DEF DbTypeOK, RunStatus
  <1>2. EnqTypeOK /\ BrokerTypeOK /\ CancelTypeOK
    BY DEF EnqTypeOK, BrokerTypeOK, CancelTypeOK
  <1>3. WorkerTypeOK
    BY DEF WorkerTypeOK, TaskRec
  <1>4. HistoryTypeOK
    <2>1. << >> \in Seq(Terminal)
      OBVIOUS
    <2> QED
      BY <2>1 DEF HistoryTypeOK
  <1>5. OutcomeSet /\ OneLivePerSession
    BY DEF OutcomeSet, OneLivePerSession, Live
  <1> QED
    BY <1>1, <1>2, <1>3, <1>4, <1>5 DEF RunInv, TypeOK

(* In every behaviour of the executor its state is well typed, every       *)
(* goroutine that reports has an outcome to report, and no session has two *)
(* live runs.                                                              *)
THEOREM RunInvariant == Spec => []RunInv
  <1>1. RunInv /\ [Next]_vars => RunInv'
    BY StepTypeOK, StepOutcomeSet, StepOneLive DEF RunInv
  <1> QED
    BY <1>1, InitRunInv, PTL DEF Spec

(* A session never has two runs that are queued or active in chat_run,     *)
(* with any number of pods, requests and faults: the check of EnqueueRun   *)
(* may be stale and the worker may activate a run that was given up, but   *)
(* the unique index stands behind both.                                    *)
THEOREM OneLive == Spec => []OneLivePerSession
  <1>1. RunInv => OneLivePerSession
    BY DEF RunInv
  <1> QED
    BY <1>1, RunInvariant, PTL
-----------------------------------------------------------------------------
(* What a step does to one task: nothing, its delivery, the end of its     *)
(* context, the end of its process, or a step of its own.                  *)
NewTask(p, r) == [run |-> r, pod |-> p, pc |-> "register", ctx |-> "live",
                  tries |-> 0, out |-> "none"]

TaskEffect(t) ==
  \/ task'[t] = task[t]
  \/ \E p \in Pods, r \in Runs : /\ Deliver(p, r) /\ t = spawned + 1
                                 /\ task'[t] = NewTask(p, r)
  \/ Timeout(t) /\ task'[t] = [task[t] EXCEPT !.ctx = "expired"]
  \/ /\ task'[t] = [task[t] EXCEPT !.ctx = "done"]
     /\ \/ \E k \in Cancels : CancelLoad(k) /\ cancellers[cpod[k]][crun[k]] = t
        \/ \E p \in Pods, r \in Runs : Shutdown(p) /\ cancellers[p][r] = t
  \/ /\ task'[t] = [task[t] EXCEPT !.pc = "gone", !.ctx = "done"]
     /\ InFlight(t) /\ ProcessEnds(task[t].pod)
  \/ ProcessTask(t)

(* Every step of the system changes a task in one of the ways TaskEffect   *)
(* names.                                                                  *)
LEMMA TaskEffects ==
  ASSUME TypeOK, [Next]_vars, NEW t \in Tasks
  PROVE  TaskEffect(t)
  <1> USE DEF TaskEffect
  <1>1. task \in [Tasks -> TaskRec]
    BY DEF TypeOK, WorkerTypeOK
  <1>2. ASSUME NEW u \in Tasks, ProcessTask(u), u # t
        PROVE  task'[t] = task[t]
    BY <1>1, <1>2
    DEF ProcessTask, Register, CheckLocal, CheckStored, Activate, Startup,
        StartupFailed, RunnerEnds, PersistOutcome, PersistCompleted,
        FireCompletionHooks, Unregister, Return, Goto, Report
  <1>3. ASSUME NEW p \in Pods, NEW r \in Runs, Deliver(p, r)
        PROVE  TaskEffect(t)
    <2>1. task' = [task EXCEPT ![spawned + 1] = NewTask(p, r)]
      BY <1>3 DEF Deliver, NewTask
    <2>2. CASE t = spawned + 1
      BY <1>1, <1>3, <2>1, <2>2
    <2>3. CASE t # spawned + 1
      BY <1>1, <2>1, <2>3
    <2> QED
      BY <2>2, <2>3
  <1>4. ASSUME NEW u \in Tasks, Timeout(u)
        PROVE  TaskEffect(t)
    <2>1. task' = [task EXCEPT ![u] = [task[u] EXCEPT !.ctx = "expired"]]
      BY <1>1, <1>4 DEF Timeout
    <2>2. CASE u = t
      BY <1>1, <1>4, <2>1, <2>2
    <2>3. CASE u # t
      BY <1>1, <2>1, <2>3
    <2> QED
      BY <2>2, <2>3
  <1>5. ASSUME NEW k \in Cancels, CancelLoad(k)
        PROVE  TaskEffect(t)
    <2>1. PICK u : u = cancellers[cpod[k]][crun[k]]
      OBVIOUS
    <2>2. \/ task' = [task EXCEPT ![u].ctx = "done"]
          \/ task' = task
      BY <1>5, <2>1 DEF CancelLoad
    <2>3. CASE u = t
      BY <1>1, <1>5, <2>1, <2>2, <2>3
    <2>4. CASE u # t
      BY <1>1, <2>2, <2>4
    <2> QED
      BY <2>3, <2>4
  <1>6. ASSUME NEW p \in Pods, Shutdown(p)
        PROVE  TaskEffect(t)
    BY <1>1, <1>6 DEF Shutdown
  <1>7. ASSUME NEW p \in Pods, ProcessEnds(p)
        PROVE  TaskEffect(t)
    BY <1>1, <1>7 DEF ProcessEnds
  <1>8. CASE UNCHANGED task
    BY <1>8
  <1>9. ASSUME NEW u \in Tasks, ProcessTask(u)
        PROVE  TaskEffect(t)
    BY <1>2, <1>9
  <1> QED
    BY <1>3, <1>4, <1>5, <1>6, <1>7, <1>8, <1>9
    DEF Next, Enqueue, EnqueueCheck, EnqueueExpire, EnqueueInsert, EnqueuePublish,
        FailEnqueuedRun, AgeInQueue, AgeWhileActive, Consume, Acknowledge, Pod,
        StopConsuming, Crash, Exit, CancelRun, CancelStore, CancelPersist,
        BrokerRestart, vars, workerVars

(* What a step of its own does to a task.                                  *)
LEMMA OwnStep ==
  ASSUME TypeOK, NEW t \in Tasks, ProcessTask(t)
  PROVE  /\ task'[t].run = task[t].run /\ task'[t].pod = task[t].pod
         /\ InFlight(t) /\ task'[t].pc \in TaskSteps \cup {"gone"}
         /\ \A u \in Tasks \ {t} : task'[u] = task[u]
         /\ task'[t].tries \in Nat /\ task[t].tries \in Nat
         /\ \/ task'[t].tries = task[t].tries
            \/ task'[t].tries = task[t].tries + 1 /\ faults' = faults + 1
  <1>1. task \in [Tasks -> TaskRec] /\ task[t] \in TaskRec /\ task[t].tries \in Nat
    BY RecordUpdates DEF TypeOK, WorkerTypeOK
  <1>2. CASE \/ Register(t) \/ CheckLocal(t) \/ CheckStored(t) \/ Activate(t)
             \/ Startup(t) \/ StartupFailed(t) \/ RunnerEnds(t) \/ PersistOutcome(t)
             \/ FireCompletionHooks(t) \/ Unregister(t)
    BY <1>1, <1>2
    DEF Register, CheckLocal, CheckStored, Activate, Startup,
        StartupFailed, RunnerEnds, PersistOutcome,
        FireCompletionHooks, Unregister, Goto, Report, At, InFlight, TaskSteps, TaskRec
  <1>3. CASE PersistCompleted(t)
    <2>1. CASE Goto(t, "hooks")
      BY <1>1, <1>3, <2>1 DEF PersistCompleted, Goto, At, InFlight, TaskSteps, TaskRec
    <2>2. CASE ~Goto(t, "hooks")
      <3>1. PICK pc \in {"exit", task[t].pc} :
              task' = [task EXCEPT ![t] = [task[t] EXCEPT !.tries = task[t].tries + 1,
                                                          !.pc = pc]]
        BY <1>1, <1>3, <2>2 DEF PersistCompleted
      <3>2. faults' = faults + 1
        BY <1>3, <2>2 DEF PersistCompleted, FailedWrite, Fault
      <3>3. task[t].pc = "persistCompleted"
        BY <1>3 DEF PersistCompleted, At
      <3>4. task'[t] = [task[t] EXCEPT !.tries = task[t].tries + 1, !.pc = pc]
        BY <1>1, <3>1
      <3>5. /\ task'[t].run = task[t].run /\ task'[t].pod = task[t].pod
            /\ task'[t].pc = pc /\ task'[t].tries = task[t].tries + 1
        BY <1>1, <3>4 DEF TaskRec
      <3> QED
        BY <1>1, <3>1, <3>2, <3>3, <3>5 DEF InFlight, TaskSteps
    <2> QED
      BY <2>1, <2>2
  <1>4. CASE Return(t)
    BY <1>1, <1>4 DEF Return, At, InFlight, TaskSteps, TaskRec
  <1> QED
    BY <1>2, <1>3, <1>4 DEF ProcessTask

(* Every task but a new one keeps its run and its pod, and a task that is  *)
(* gone stays so.                                                          *)
LEMMA TaskKeeps ==
  ASSUME TypeOK, [Next]_vars, NEW t \in Tasks
  PROVE  \/ /\ task'[t].run = task[t].run /\ task'[t].pod = task[t].pod
            /\ task[t].pc = "gone" => task'[t].pc = "gone"
            /\ InFlight(t)' => InFlight(t)
            /\ task[t].pc = "free" <=> task'[t].pc = "free"
         \/ \E p \in Pods, r \in Runs : /\ Deliver(p, r) /\ t = spawned + 1
                                        /\ task'[t] = NewTask(p, r)
  <1>1. TaskEffect(t) /\ task[t] \in TaskRec
    BY TaskEffects DEF TypeOK, WorkerTypeOK
  <1>2. CASE ProcessTask(t)
    BY <1>2, OwnStep DEF InFlight, TaskSteps
  <1>3. CASE \/ task'[t] = task[t]
             \/ task'[t] = [task[t] EXCEPT !.ctx = "done"]
             \/ task'[t] = [task[t] EXCEPT !.ctx = "expired"]
             \/ InFlight(t) /\ task'[t] = [task[t] EXCEPT !.pc = "gone", !.ctx = "done"]
    BY <1>1, <1>3 DEF InFlight, TaskSteps, TaskRec
  <1> QED
    BY <1>1, <1>2, <1>3 DEF TaskEffect

-----------------------------------------------------------------------------
(* What the tables, the broker, the goroutines and the requests know of    *)
(* each other, whatever runs concurrently.                                 *)

(* Goroutines are numbered in the order of the deliveries.                 *)
Assigned ==
  \A t \in Tasks :
    IF t > spawned THEN task[t].pc = "free" /\ task[t].run = NoRun
    ELSE task[t].pc # "free" /\ task[t].run \in Runs /\ task[t].pod \in Pods

(* A message of r is, or was, under way.                                   *)
Sent(r) ==
  \/ queue[r] > 0
  \/ \E p \in Pods : delivering[p] = r
  \/ \E t \in Tasks : task[t].run = r

(* Nothing is delivered that was not published.                            *)
Published ==
  \A r \in Runs : Sent(r) => enq[r] \in {"accepted", "undelivered", "unavailable", "lost"}

(* Only a run that is old enough is expired.                               *)
VictimsAged ==
  \A r \in Runs : victim[r] # NoRun => queueAged[victim[r]] \/ runAged[victim[r]]

Undecided == {"register", "checkLocal", "checkStored", "activate", "startup",
              "startupFailed", "run"}

(* The outcome of a task is set at the end of its run, or when it finds    *)
(* its run cancelled.                                                      *)
OutcomeOf ==
  \A t \in Tasks :
    /\ task[t].pc \in Undecided => task[t].out = "none"
    /\ task[t].pc = "persistCompleted" => task[t].out = "completed"
    /\ task[t].pc = "persistCancelled" => task[t].out = "cancelled"
    /\ task[t].pc = "persistFailed" => task[t].out = "failed"

(* Every repeated attempt to store a completion was a fault.               *)
TriesCounted == \A t \in Tasks : task[t].tries <= faults

(* Hooks are called at the end of a task.                                  *)
FiredByTask ==
  \A r \in Runs : fired[r] # << >> =>
    \E t \in Tasks : task[t].run = r /\ task[t].pc \in {"exit", "forget", "gone"}

(* A cancel request that was received names its run and its pod.           *)
CancelNames ==
  \A k \in Cancels : IF cpc[k] = "idle" THEN crun[k] = NoRun
                     ELSE crun[k] \in Runs /\ cpod[k] \in Pods

Books ==
  /\ TypeOK /\ OutcomeSet
  /\ Assigned /\ Published /\ VictimsAged /\ OutcomeOf /\ TriesCounted
  /\ FiredByTask /\ CancelNames

(* The tasks delivered so far are numbered 1 to spawned, and each keeps    *)
(* the run and the pod it was given.                                       *)
LEMMA AssignedStep ==
  ASSUME TypeOK, Assigned, [Next]_vars
  PROVE  Assigned'
  <1>1. CASE \E p \in Pods, r \in Runs : Deliver(p, r)
    <2>1. PICK p \in Pods, r \in Runs : Deliver(p, r)
      BY <1>1
    <2>2. /\ spawned' = spawned + 1 /\ spawned \in Nat /\ spawned < MaxTasks
          /\ task' = [task EXCEPT ![spawned + 1] = NewTask(p, r)]
          /\ spawned + 1 \in Tasks /\ MaxTasks \in Nat
          /\ task \in [Tasks -> TaskRec]
      BY <2>1, ChatRunAssumptions DEF Deliver, NewTask, TypeOK, WorkerTypeOK, Tasks
    <2>3. ASSUME NEW t \in Tasks
          PROVE  IF t > spawned' THEN task'[t].pc = "free" /\ task'[t].run = NoRun
                 ELSE task'[t].pc # "free" /\ task'[t].run \in Runs /\ task'[t].pod \in Pods
      <3>1. CASE t = spawned + 1
        BY <2>2, <3>1 DEF NewTask, Tasks
      <3>2. CASE t # spawned + 1
        <4>1. task'[t] = task[t] /\ (t > spawned' <=> t > spawned)
          BY <2>2, <3>2 DEF Tasks
        <4> QED
          BY <4>1 DEF Assigned
      <3> QED
        BY <3>1, <3>2
    <2> QED
      BY <2>3 DEF Assigned
  <1>2. CASE ~\E p \in Pods, r \in Runs : Deliver(p, r)
    <2>1. spawned' = spawned
      BY <1>2
      DEF Next, Enqueue, EnqueueCheck, EnqueueExpire, EnqueueInsert, EnqueuePublish,
          FailEnqueuedRun, AgeInQueue, AgeWhileActive, Consume, Acknowledge, Pod,
          Shutdown, StopConsuming, Crash, Exit, ProcessEnds, Timeout, CancelRun,
          CancelStore, CancelLoad, CancelPersist, BrokerRestart, vars, workerVars,
          ProcessTask, Register, CheckLocal, CheckStored, Activate, Startup,
          StartupFailed, RunnerEnds, PersistOutcome, PersistCompleted,
          FireCompletionHooks, Unregister, Return
    <2>2. ASSUME NEW t \in Tasks
          PROVE  /\ task'[t].run = task[t].run /\ task'[t].pod = task[t].pod
                 /\ task[t].pc = "free" <=> task'[t].pc = "free"
      BY <1>2, TaskKeeps
    <2> QED
      BY <2>1, <2>2 DEF Assigned
  <1> QED
    BY <1>1, <1>2

(* Only EnqueuePublish puts a run on the queue, and it does so once per    *)
(* request.                                                                *)
LEMMA PublishedStep ==
  ASSUME TypeOK, Published, [Next]_vars
  PROVE  Published'
  <1> DEFINE Past == {"accepted", "undelivered", "unavailable", "lost"}
  <1>1. ASSUME NEW r \in Runs, Sent(r)', ~Sent(r)
        PROVE  EnqueuePublish(r) /\ enq'[r] \in {"accepted", "undelivered"}
    <2>1. queue[r] = 0 /\ \A p \in Pods : delivering[p] # r
      BY <1>1 DEF Sent, TypeOK, BrokerTypeOK
    <2>2. \A t \in Tasks : task'[t].run # r
      <3>1. SUFFICES ASSUME NEW t \in Tasks, task'[t].run = r PROVE FALSE
        OBVIOUS
      <3>2. task[t].run # r
        BY <1>1 DEF Sent
      <3>3. PICK p \in Pods, q \in Runs : Deliver(p, q) /\ task'[t] = NewTask(p, q)
        BY <3>1, <3>2, TaskKeeps
      <3>4. q = r
        BY <3>1, <3>3 DEF NewTask
      <3> QED
        BY <2>1, <3>3, <3>4 DEF Deliver
    <2>3. queue'[r] > 0 \/ \E p \in Pods : delivering'[p] = r
      BY <1>1, <2>2 DEF Sent
    <2>4. queue \in [Runs -> Nat] /\ delivering \in [Pods -> Runs \cup {NoRun}]
      BY DEF TypeOK, BrokerTypeOK
    <2>5. ASSUME NEW q \in Runs, EnqueuePublish(q)
          PROVE  q = r
      BY <2>1, <2>3, <2>4, <2>5 DEF EnqueuePublish
    <2>6. ASSUME NEW p \in Pods, NEW q \in Runs, Deliver(p, q) PROVE FALSE
      BY <2>1, <2>3, <2>4, <2>6 DEF Deliver
    <2>7. ASSUME NEW p \in Pods, Acknowledge(p) PROVE FALSE
      BY <2>1, <2>3, <2>4, <2>7, ChatRunAssumptions DEF Acknowledge
    <2>8. ASSUME NEW p \in Pods, ProcessEnds(p) PROVE FALSE
      <3>1. /\ queue' = [q \in Runs |-> IF q = delivering[p] THEN queue[q] + 1 ELSE queue[q]]
            /\ delivering' = [delivering EXCEPT ![p] = NoRun]
        BY <2>8 DEF ProcessEnds
      <3>2. queue'[r] = 0
        BY <2>1, <3>1
      <3>3. \A q \in Pods : delivering'[q] # r
        BY <2>1, <2>4, <3>1, ChatRunAssumptions
      <3> QED
        BY <2>3, <3>2, <3>3
    <2>9. ASSUME BrokerRestart PROVE FALSE
      BY <2>3, <2>9, ChatRunAssumptions DEF BrokerRestart
    <2>10. ASSUME UNCHANGED brokerVars PROVE FALSE
      BY <2>1, <2>3, <2>10 DEF brokerVars
    <2>11. EnqueuePublish(r)
      BY <2>5, <2>6, <2>7, <2>8, <2>9, <2>10
      DEF Next, Enqueue, EnqueueCheck, EnqueueExpire, EnqueueInsert,
          FailEnqueuedRun, AgeInQueue, AgeWhileActive, Consume, Pod,
          Shutdown, StopConsuming, Crash, Exit, Timeout, CancelRun,
          CancelStore, CancelLoad, CancelPersist, vars,
          ProcessTask, Register, CheckLocal, CheckStored, Activate, Startup,
          StartupFailed, RunnerEnds, PersistOutcome, PersistCompleted,
          FireCompletionHooks, Unregister, Return
    <2> QED
      BY <2>11 DEF EnqueuePublish, TypeOK, EnqTypeOK
  <1>2. ASSUME NEW r \in Runs, enq[r] \in Past
        PROVE  enq'[r] \in Past
    <2>1. enq \in [Runs -> {"idle", "expire", "insert", "publish", "undelivered",
                            "accepted", "unavailable", "lost"}]
      BY DEF TypeOK, EnqTypeOK
    <2>2. ASSUME NEW q \in Runs, Enqueue(q)
          PROVE  enq'[r] \in Past
      BY <1>2, <2>1, <2>2 DEF Enqueue, EnqueueCheck, EnqueueExpire, EnqueueInsert,
         EnqueuePublish, FailEnqueuedRun
    <2>3. ASSUME NEW p \in Pods, ProcessEnds(p)
          PROVE  enq'[r] \in Past
      BY <1>2, <2>1, <2>3 DEF ProcessEnds
    <2>4. CASE UNCHANGED enq
      BY <1>2, <2>4
    <2> QED
      BY <2>2, <2>3, <2>4
      DEF Next, AgeInQueue, AgeWhileActive, Consume, Deliver, Acknowledge, Pod,
          Shutdown, StopConsuming, Crash, Exit, Timeout, CancelRun,
          CancelStore, CancelLoad, CancelPersist, BrokerRestart, vars, enqVars,
          ProcessTask, Register, CheckLocal, CheckStored, Activate, Startup,
          StartupFailed, RunnerEnds, PersistOutcome, PersistCompleted,
          FireCompletionHooks, Unregister, Return
  <1> QED
    BY <1>1, <1>2 DEF Published

(* A run is chosen as the victim of an expiry only after it aged, and a    *)
(* run that aged stays aged.                                               *)
LEMMA VictimsAgedStep ==
  ASSUME TypeOK, VictimsAged, [Next]_vars
  PROVE  VictimsAged' /\ \A r \in Runs : /\ queueAged[r] => queueAged'[r]
                                         /\ runAged[r] => runAged'[r]
  <1>1. /\ queueAged \in [Runs -> BOOLEAN] /\ runAged \in [Runs -> BOOLEAN]
        /\ victim \in [Runs -> Runs \cup {NoRun}]
    BY DEF TypeOK, DbTypeOK, EnqTypeOK
  <1>2. \A r \in Runs : (queueAged[r] => queueAged'[r]) /\ (runAged[r] => runAged'[r])
    BY <1>1
    DEF Next, Enqueue, EnqueueCheck, EnqueueExpire, EnqueueInsert, EnqueuePublish,
        FailEnqueuedRun, AgeInQueue, AgeWhileActive, Consume, Deliver, Acknowledge, Pod,
        Shutdown, StopConsuming, Crash, Exit, ProcessEnds, Timeout, CancelRun,
        CancelStore, CancelLoad, CancelPersist, BrokerRestart, vars, dbVars,
        ProcessTask, Register, CheckLocal, CheckStored, Activate, Startup,
        StartupFailed, RunnerEnds, PersistOutcome, PersistCompleted,
        FireCompletionHooks, Unregister, Return
  <1>3. \A r \in Runs : \/ victim'[r] \in {victim[r], NoRun}
                        \/ victim'[r] \in Runs /\ Stale(victim'[r])
    <2>1. ASSUME NEW q \in Runs, Enqueue(q)
          PROVE  \A r \in Runs : \/ victim'[r] \in {victim[r], NoRun}
                                 \/ victim'[r] \in Runs /\ Stale(victim'[r])
      BY <1>1, <2>1 DEF Enqueue, EnqueueCheck, EnqueueExpire, EnqueueInsert,
         EnqueuePublish, FailEnqueuedRun
    <2>2. ASSUME NEW p \in Pods, ProcessEnds(p)
          PROVE  \A r \in Runs : victim'[r] \in {victim[r], NoRun}
      BY <1>1, <2>2 DEF ProcessEnds
    <2>3. CASE UNCHANGED victim
      BY <2>3
    <2> QED
      BY <2>1, <2>2, <2>3
      DEF Next, AgeInQueue, AgeWhileActive, Consume, Deliver, Acknowledge, Pod,
          Shutdown, StopConsuming, Crash, Exit, Timeout, CancelRun,
          CancelStore, CancelLoad, CancelPersist, BrokerRestart, vars, enqVars,
          ProcessTask, Register, CheckLocal, CheckStored, Activate, Startup,
          StartupFailed, RunnerEnds, PersistOutcome, PersistCompleted,
          FireCompletionHooks, Unregister, Return
  <1>4. \A o \in Runs : Stale(o) => queueAged[o] \/ runAged[o]
    BY DEF Stale
  <1> QED
    BY <1>1, <1>2, <1>3, <1>4, ChatRunAssumptions DEF VictimsAged

(* The step at which a task stands fixes the outcome it carries.           *)
LEMMA OutcomeOfStep ==
  ASSUME TypeOK, OutcomeOf, [Next]_vars
  PROVE  OutcomeOf'
  <1> SUFFICES ASSUME NEW t \in Tasks
               PROVE  /\ task'[t].pc \in Undecided => task'[t].out = "none"
                      /\ task'[t].pc = "persistCompleted" => task'[t].out = "completed"
                      /\ task'[t].pc = "persistCancelled" => task'[t].out = "cancelled"
                      /\ task'[t].pc = "persistFailed" => task'[t].out = "failed"
    BY DEF OutcomeOf
  <1>1. /\ task \in [Tasks -> TaskRec] /\ task[t] \in TaskRec
        /\ task[t].pc \in Undecided => task[t].out = "none"
        /\ task[t].pc = "persistCompleted" => task[t].out = "completed"
        /\ task[t].pc = "persistCancelled" => task[t].out = "cancelled"
        /\ task[t].pc = "persistFailed" => task[t].out = "failed"
    BY DEF TypeOK, WorkerTypeOK, OutcomeOf
  <1>2. CASE ProcessTask(t)
    BY <1>1, <1>2
    DEF ProcessTask, Register, CheckLocal, CheckStored, Activate, Startup,
        StartupFailed, RunnerEnds, PersistOutcome, PersistCompleted,
        FireCompletionHooks, Unregister, Return, Goto, Report, At, TaskRec, Undecided
  <1>3. CASE \E p \in Pods, r \in Runs : task'[t] = NewTask(p, r)
    BY <1>3 DEF NewTask
  <1>4. CASE \/ task'[t] = task[t]
             \/ task'[t] = [task[t] EXCEPT !.ctx = "done"]
             \/ task'[t] = [task[t] EXCEPT !.ctx = "expired"]
             \/ task'[t] = [task[t] EXCEPT !.pc = "gone", !.ctx = "done"]
    BY <1>1, <1>4 DEF TaskRec, Undecided
  <1> QED
    BY <1>2, <1>3, <1>4, TaskEffects DEF TaskEffect

(* The count of faults never goes down.                                    *)
LEMMA FaultsGrow ==
  ASSUME TypeOK, [Next]_vars
  PROVE  faults \in Nat /\ faults' \in Nat /\ faults' >= faults
  <1>1. faults \in Nat /\ MaxFaults \in Nat
    BY ChatRunAssumptions DEF TypeOK, HistoryTypeOK
  <1>2. faults' \in {faults, faults + 1}
    BY <1>1
    DEF Next, Enqueue, EnqueueCheck, EnqueueExpire, EnqueueInsert, EnqueuePublish,
        FailEnqueuedRun, AgeInQueue, AgeWhileActive, Consume, Deliver, Acknowledge, Pod,
        Shutdown, StopConsuming, Crash, Exit, ProcessEnds, Timeout, CancelRun,
        CancelStore, CancelLoad, CancelPersist, BrokerRestart, vars,
        ProcessTask, Register, CheckLocal, CheckStored, Activate, Startup,
        StartupFailed, RunnerEnds, PersistOutcome, PersistCompleted,
        FireCompletionHooks, Unregister, Return, FailedWrite, Fault, NoFault
  <1> QED
    BY <1>1, <1>2

(* Every failed write of an outcome is a fault.                            *)
LEMMA TriesCountedStep ==
  ASSUME TypeOK, TriesCounted, [Next]_vars
  PROVE  TriesCounted'
  <1> SUFFICES ASSUME NEW t \in Tasks
               PROVE  task'[t].tries <= faults'
    BY DEF TriesCounted
  <1>1. /\ task[t] \in TaskRec /\ task[t].tries \in Nat /\ task[t].tries <= faults
        /\ faults \in Nat /\ faults' \in Nat /\ faults' >= faults
    BY FaultsGrow DEF TypeOK, WorkerTypeOK, TriesCounted, TaskRec
  <1>2. CASE ProcessTask(t)
    BY <1>1, <1>2, OwnStep
  <1>3. CASE \E p \in Pods, r \in Runs : task'[t] = NewTask(p, r)
    BY <1>1, <1>3 DEF NewTask
  <1>4. CASE \/ task'[t] = task[t]
             \/ task'[t] = [task[t] EXCEPT !.ctx = "done"]
             \/ task'[t] = [task[t] EXCEPT !.ctx = "expired"]
             \/ task'[t] = [task[t] EXCEPT !.pc = "gone", !.ctx = "done"]
    <2>1. task'[t].tries = task[t].tries
      BY <1>1, <1>4 DEF TaskRec
    <2> QED
      BY <1>1, <2>1
  <1> QED
    BY <1>2, <1>3, <1>4, TaskEffects DEF TaskEffect

(* The steps that call the hooks: none but FireCompletionHooks.            *)
LEMMA FiredBy ==
  ASSUME TypeOK, [Next]_vars, NEW r \in Runs
  PROVE  \/ fired'[r] = fired[r]
         \/ \E t \in Tasks : /\ FireCompletionHooks(t) /\ task[t].run = r
                             /\ fired'[r] = Append(fired[r], task[t].out)
  <1>1. fired \in [Runs -> Seq(Terminal)]
    BY DEF TypeOK, HistoryTypeOK
  <1>2. ASSUME NEW t \in Tasks, FireCompletionHooks(t)
        PROVE  \/ fired'[r] = fired[r]
               \/ /\ task[t].run = r
                  /\ fired'[r] = Append(fired[r], task[t].out)
    <2>1. fired' = [fired EXCEPT ![task[t].run] = Append(fired[task[t].run], task[t].out)]
      BY <1>2 DEF FireCompletionHooks
    <2> QED
      BY <1>1, <2>1
  <1>3. CASE UNCHANGED fired
    BY <1>3
  <1> QED
    BY <1>2, <1>3
    DEF Next, Enqueue, EnqueueCheck, EnqueueExpire, EnqueueInsert, EnqueuePublish,
        FailEnqueuedRun, AgeInQueue, AgeWhileActive, Consume, Deliver, Acknowledge, Pod,
        Shutdown, StopConsuming, Crash, Exit, ProcessEnds, Timeout, CancelRun,
        CancelStore, CancelLoad, CancelPersist, BrokerRestart, vars,
        ProcessTask, Register, CheckLocal, CheckStored, Activate, Startup,
        StartupFailed, RunnerEnds, PersistOutcome, PersistCompleted,
        Unregister, Return

(* A run whose hooks have fired has a task that is past them.              *)
LEMMA FiredByTaskStep ==
  ASSUME TypeOK, Assigned, FiredByTask, [Next]_vars
  PROVE  FiredByTask'
  <1> SUFFICES ASSUME NEW r \in Runs, fired'[r] # << >>
               PROVE  \E t \in Tasks : task'[t].run = r /\ task'[t].pc \in {"exit", "forget", "gone"}
    BY DEF FiredByTask
  <1>0. task \in [Tasks -> TaskRec] /\ spawned \in Nat
    BY DEF TypeOK, WorkerTypeOK
  <1>1. CASE fired'[r] = fired[r]
    <2>1. PICK t \in Tasks : task[t].run = r /\ task[t].pc \in {"exit", "forget", "gone"}
      BY <1>1 DEF FiredByTask
    <2>2. task'[t].pc \in {"exit", "forget", "gone"}
      <3>1. CASE ProcessTask(t)
        BY <1>0, <2>1, <3>1
        DEF ProcessTask, Register, CheckLocal, CheckStored, Activate, Startup,
            StartupFailed, RunnerEnds, PersistOutcome, PersistCompleted,
            FireCompletionHooks, Unregister, Return, Goto, Report, At, TaskRec
      <3>2. CASE \E p \in Pods, q \in Runs : Deliver(p, q) /\ t = spawned + 1
        BY <1>0, <2>1, <3>2 DEF Assigned, Tasks
      <3>3. CASE \/ task'[t] = task[t]
                 \/ task'[t] = [task[t] EXCEPT !.ctx = "done"]
                 \/ task'[t] = [task[t] EXCEPT !.ctx = "expired"]
                 \/ task'[t] = [task[t] EXCEPT !.pc = "gone", !.ctx = "done"]
        <4>1. task[t] \in TaskRec
          BY <1>0
        <4> QED
          BY <2>1, <3>3, <4>1 DEF TaskRec
      <3> QED
        BY <3>1, <3>2, <3>3, TaskEffects DEF TaskEffect
    <2>3. task'[t].run = r
      <3>1. ~\E p \in Pods, q \in Runs : Deliver(p, q) /\ t = spawned + 1
        BY <1>0, <2>1 DEF Assigned, Tasks
      <3> QED
        BY <2>1, <3>1, TaskKeeps
    <2> QED
      BY <2>2, <2>3
  <1>2. CASE fired'[r] # fired[r]
    <2>1. PICK t \in Tasks : FireCompletionHooks(t) /\ task[t].run = r
      BY <1>2, FiredBy
    <2>2. task'[t].pc = "exit" /\ task'[t].run = r
      BY <1>0, <2>1 DEF FireCompletionHooks, Goto, TaskRec
    <2> QED
      BY <2>2
  <1> QED
    BY <1>1, <1>2

(* A cancel request names its run and the pod that serves it once and      *)
(* for all.                                                                *)
LEMMA CancelNamesStep ==
  ASSUME TypeOK, CancelNames, [Next]_vars
  PROVE  /\ CancelNames'
         /\ \A k \in Cancels : crun[k] # NoRun => crun'[k] = crun[k] /\ cpod'[k] = cpod[k]
  <1>1. /\ crun \in [Cancels -> Runs \cup {NoRun}] /\ cpod \in [Cancels -> Pods \cup {NoPod}]
        /\ cpc \in [Cancels -> {"idle", "load", "persist", "dispatched", "persisted",
                                "notFound", "lost"}]
    BY DEF TypeOK, CancelTypeOK
  <1>2. ASSUME NEW k \in Cancels
        PROVE  \/ /\ crun'[k] = crun[k] /\ cpod'[k] = cpod[k]
                  /\ cpc'[k] = "idle" <=> cpc[k] = "idle"
               \/ /\ cpc[k] = "idle" /\ cpc'[k] # "idle"
                  /\ crun'[k] \in Runs /\ cpod'[k] \in Pods
    <2>1. ASSUME NEW j \in Cancels, NEW r \in Runs, NEW p \in Pods, CancelStore(j, r, p)
          PROVE  \/ /\ crun'[k] = crun[k] /\ cpod'[k] = cpod[k]
                    /\ cpc'[k] = "idle" <=> cpc[k] = "idle"
                 \/ /\ cpc[k] = "idle" /\ cpc'[k] # "idle"
                    /\ crun'[k] \in Runs /\ cpod'[k] \in Pods
      BY <1>1, <2>1 DEF CancelStore
    <2>2. ASSUME NEW j \in Cancels, CancelLoad(j) \/ CancelPersist(j)
          PROVE  /\ crun'[k] = crun[k] /\ cpod'[k] = cpod[k]
                 /\ cpc'[k] = "idle" <=> cpc[k] = "idle"
      BY <1>1, <2>2 DEF CancelLoad, CancelPersist
    <2>3. ASSUME NEW p \in Pods, ProcessEnds(p)
          PROVE  /\ crun'[k] = crun[k] /\ cpod'[k] = cpod[k]
                 /\ cpc'[k] = "idle" <=> cpc[k] = "idle"
      BY <1>1, <2>3 DEF ProcessEnds
    <2>4. CASE UNCHANGED cancelVars
      BY <2>4 DEF cancelVars
    <2> QED
      BY <2>1, <2>2, <2>3, <2>4
      DEF Next, Enqueue, EnqueueCheck, EnqueueExpire, EnqueueInsert, EnqueuePublish,
          FailEnqueuedRun, AgeInQueue, AgeWhileActive, Consume, Deliver, Acknowledge, Pod,
          Shutdown, StopConsuming, Crash, Exit, Timeout, CancelRun, BrokerRestart, vars,
          ProcessTask, Register, CheckLocal, CheckStored, Activate, Startup,
          StartupFailed, RunnerEnds, PersistOutcome, PersistCompleted,
          FireCompletionHooks, Unregister, Return
  <1>3. CancelNames'
    BY <1>2 DEF CancelNames
  <1>4. \A k \in Cancels : crun[k] # NoRun => crun'[k] = crun[k] /\ cpod'[k] = cpod[k]
    BY <1>2 DEF CancelNames
  <1> QED
    BY <1>3, <1>4

(* The bookkeeping holds before the first request.                         *)
LEMMA InitBooks == Init => Books
  <1> SUFFICES ASSUME Init PROVE Books
    OBVIOUS
  <1>1. TypeOK /\ OutcomeSet
    BY InitRunInv DEF RunInv
  <1>2. Assigned /\ Published /\ VictimsAged /\ OutcomeOf /\ TriesCounted
    <2>1. \A t \in Tasks : t > 0
      BY ChatRunAssumptions DEF Tasks
    <2> QED
      BY <2>1, ChatRunAssumptions DEF Init, Assigned, Published, Sent, VictimsAged,
         OutcomeOf, TriesCounted, Undecided
  <1>3. FiredByTask /\ CancelNames
    BY DEF Init, FiredByTask, CancelNames
  <1> QED
    BY <1>1, <1>2, <1>3 DEF Books

(* Every step of the system keeps the bookkeeping.                         *)
LEMMA StepBooks == Books /\ [Next]_vars => Books'
  BY StepTypeOK, StepOutcomeSet, AssignedStep, PublishedStep, VictimsAgedStep,
     OutcomeOfStep, TriesCountedStep, FiredByTaskStep, CancelNamesStep DEF Books

-----------------------------------------------------------------------------
(* What becomes of the row of a run that only one task ever worked on.     *)

(* A run stays in the hands of its only task from its delivery on.         *)
LEMMA SoleBefore ==
  ASSUME Books, [Next]_vars, NEW t \in Tasks, task'[t].run = task[t].run,
         task[t].run \in Runs, SoleTask(t)'
  PROVE  SoleTask(t)
  <1> DEFINE r == task[t].run
  <1>1. enq'[r] = "accepted" /\ ~queueAged'[r] /\ ~runAged'[r]
        /\ (\A k \in Cancels : crun'[k] # r) /\ (\A u \in Tasks \ {t} : task'[u].run # r)
    BY DEF SoleTask, OnlyTask
  <1>2. enq[r] = "accepted"
    <2>1. ~EnqueuePublish(r)
      BY DEF EnqueuePublish, Books, Published, Sent
    <2>2. enq \in [Runs -> {"idle", "expire", "insert", "publish", "undelivered",
                            "accepted", "unavailable", "lost"}]
      BY DEF Books, TypeOK, EnqTypeOK
    <2>3. ASSUME NEW q \in Runs, Enqueue(q)
          PROVE  enq[r] = "accepted"
      BY <1>1, <2>1, <2>2, <2>3 DEF Enqueue, EnqueueCheck, EnqueueExpire, EnqueueInsert,
         EnqueuePublish, FailEnqueuedRun
    <2>4. ASSUME NEW p \in Pods, ProcessEnds(p)
          PROVE  enq[r] = "accepted"
      BY <1>1, <2>2, <2>4 DEF ProcessEnds
    <2>5. CASE UNCHANGED enq
      BY <1>1, <2>5
    <2> QED
      BY <2>3, <2>4, <2>5
      DEF Next, AgeInQueue, AgeWhileActive, Consume, Deliver, Acknowledge, Pod,
          Shutdown, StopConsuming, Crash, Exit, Timeout, CancelRun,
          CancelStore, CancelLoad, CancelPersist, BrokerRestart, vars, enqVars,
          ProcessTask, Register, CheckLocal, CheckStored, Activate, Startup,
          StartupFailed, RunnerEnds, PersistOutcome, PersistCompleted,
          FireCompletionHooks, Unregister, Return
  <1>3. ~queueAged[r] /\ ~runAged[r]
    BY <1>1, VictimsAgedStep DEF Books
  <1>4. \A k \in Cancels : crun[k] # r
    BY <1>1, CancelNamesStep, ChatRunAssumptions DEF Books
  <1>5. \A u \in Tasks \ {t} : task[u].run # r
    <2>1. SUFFICES ASSUME NEW u \in Tasks \ {t}, task[u].run = r PROVE FALSE
      OBVIOUS
    <2>2. task'[u].run # task[u].run
      BY <1>1, <2>1
    <2>3. PICK p \in Pods, q \in Runs : Deliver(p, q) /\ u = spawned + 1
      BY <2>2, TaskKeeps DEF Books
    <2>4. task[u].run = NoRun
      BY <2>3 DEF Books, Assigned, TypeOK, WorkerTypeOK
    <2> QED
      BY <2>1, <2>4, ChatRunAssumptions
  <1> QED
    BY <1>2, <1>3, <1>4, <1>5 DEF SoleTask, OnlyTask

(* Nobody else writes its row or announces its outcome.                    *)
LEMMA SoleRow ==
  ASSUME Books, [Next]_vars, NEW t \in Tasks, task'[t].run = task[t].run,
         task[t].run \in Runs, SoleTask(t)', ~ProcessTask(t)
  PROVE  status'[task[t].run] = status[task[t].run] /\ fired'[task[t].run] = fired[task[t].run]
  <1> DEFINE r == task[t].run
  <1>1. SoleTask(t)
    BY SoleBefore
  <1>2. /\ enq[r] = "accepted" /\ ~queueAged[r] /\ ~runAged[r]
        /\ \A k \in Cancels : crun[k] # r
        /\ \A u \in Tasks \ {t} : task[u].run # r
    BY <1>1 DEF SoleTask, OnlyTask
  <1>3. fired'[r] = fired[r]
    BY <1>2, FiredBy DEF Books, ProcessTask
  <1>4. status \in [Runs -> RunStatus]
    BY DEF Books, TypeOK, DbTypeOK
  <1>5. ASSUME NEW q \in Runs, q # r, NEW s, SetStatus(q, s)
        PROVE  status'[r] = status[r]
    BY <1>4, <1>5 DEF SetStatus
  <1>6. ASSUME NEW q \in Runs, Enqueue(q)
        PROVE  status'[r] = status[r]
    <2>1. CASE EnqueueExpire(q)
      <3>1. victim[q] # r
        BY <1>2, ChatRunAssumptions DEF Books, VictimsAged
      <3>2. UNCHANGED status \/ SetStatus(victim[q], "failed")
        BY <2>1 DEF EnqueueExpire, FailedWrite
      <3> QED
        BY <1>4, <3>1, <3>2 DEF SetStatus
    <2>2. CASE EnqueueInsert(q)
      BY <1>2, <1>5, <2>2 DEF EnqueueInsert
    <2>3. CASE FailEnqueuedRun(q)
      BY <1>2, <1>5, <2>3 DEF FailEnqueuedRun, FailedWrite
    <2>4. CASE UNCHANGED status
      BY <2>4
    <2> QED
      BY <1>6, <2>1, <2>2, <2>3, <2>4 DEF Enqueue, EnqueueCheck, EnqueuePublish, dbVars
  <1>7. ASSUME NEW u \in Tasks, ProcessTask(u)
        PROVE  status'[r] = status[r]
    <2>1. u # t /\ task[u].run # r
      BY <1>2, <1>7
    <2>2. \A s : SetStatus(task[u].run, s) => status'[r] = status[r]
      BY <1>4, <2>1 DEF SetStatus
    <2> QED
      BY <1>7, <2>2
      DEF ProcessTask, Register, CheckLocal, CheckStored, Activate, Startup,
          StartupFailed, RunnerEnds, PersistOutcome, PersistCompleted,
          FireCompletionHooks, Unregister, Return, FailedWrite, dbVars
  <1>8. ASSUME NEW k \in Cancels, CancelPersist(k)
        PROVE  status'[r] = status[r]
    <2>1. crun[k] # r
      BY <1>2
    <2>2. \A s : SetStatus(crun[k], s) => status'[r] = status[r]
      BY <1>4, <2>1 DEF SetStatus
    <2> QED
      BY <1>8, <2>2 DEF CancelPersist, FailedWrite
  <1>9. CASE UNCHANGED status
    BY <1>3, <1>9
  <1>10. \/ \E q \in Runs : Enqueue(q)
         \/ \E u \in Tasks : ProcessTask(u)
         \/ \E k \in Cancels : CancelPersist(k)
         \/ UNCHANGED status
    BY DEF Next, AgeInQueue, AgeWhileActive, Consume, Deliver, Acknowledge, Pod,
        Shutdown, StopConsuming, Crash, Exit, ProcessEnds, Timeout, CancelRun,
        CancelStore, CancelLoad, BrokerRestart, vars, dbVars
  <1> QED
    BY <1>3, <1>6, <1>7, <1>8, <1>9, <1>10

(* What the row and the hooks of its run say of a task that has written    *)
(* its outcome, in the words of AnnouncedIsStored and OutcomeDurable.      *)
Stored(t) ==
  LET r == task[t].run
      out == task[t].out
  IN  /\ At(t, "hooks") => (out = "completed" \/ faults = 0 => status[r] = out)
      /\ At(t, "exit") /\ out = "completed" /\ fired[r] # << >> => status[r] = "completed"
      /\ /\ At(t, "exit") /\ out # "none"
         /\ faults = 0 \/ (out = "completed" /\ faults < TerminalAttempts)
         => status[r] = out /\ fired[r] = <<out>>

AllStored == \A t \in Tasks : SoleTask(t) => Stored(t)

(* A task that has not called its hooks, and is the only one, finds that   *)
(* nobody did.                                                             *)
LEMMA NotYetFired ==
  ASSUME Books, NEW t \in Tasks, SoleTask(t), task[t].run \in Runs,
         task[t].pc \notin {"exit", "forget", "gone"}
  PROVE  fired[task[t].run] = << >>
  BY DEF Books, FiredByTask, SoleTask, OnlyTask

(* A task that alone worked on its run and is about to report has its      *)
(* outcome in the row: nothing overwrites it between the write and the     *)
(* hooks.                                                                  *)
LEMMA AllStoredStep ==
  ASSUME Books, AllStored, [Next]_vars
  PROVE  AllStored'
  <1> SUFFICES ASSUME NEW t \in Tasks, SoleTask(t)'
               PROVE  Stored(t)'
    BY DEF AllStored
  <1>1. /\ task \in [Tasks -> TaskRec] /\ task[t] \in TaskRec
        /\ status \in [Runs -> RunStatus] /\ fired \in [Runs -> Seq(Terminal)]
        /\ TypeOK
    BY DEF Books, TypeOK, WorkerTypeOK, DbTypeOK, HistoryTypeOK
  <1>2. CASE task'[t].pc \notin {"hooks", "exit"}
    BY <1>2 DEF Stored, At
  <1>3. CASE task'[t].pc \in {"hooks", "exit"}
    <2>1. ASSUME NEW p \in Pods, NEW r \in Runs PROVE task'[t] # NewTask(p, r)
      <3>1. NewTask(p, r).pc = "register"
        BY DEF NewTask
      <3> QED
        BY <1>3, <3>1
    <2>2. task'[t].run = task[t].run /\ task[t].pc # "free"
      BY <1>3, <2>1, TaskKeeps, <1>1
    <2>3. task[t].run \in Runs
      BY <2>2 DEF Books, Assigned
    <2>4. SoleTask(t) /\ Stored(t)
      BY <2>2, <2>3, SoleBefore DEF AllStored
    <2>5. faults \in Nat /\ faults' \in Nat /\ faults' >= faults
          /\ TerminalAttempts \in Nat \ {0}
      BY <1>1, FaultsGrow, ChatRunAssumptions
    <2>6. CASE ~ProcessTask(t)
      <3>1. /\ status'[task[t].run] = status[task[t].run]
            /\ fired'[task[t].run] = fired[task[t].run]
        BY <2>2, <2>3, <2>6, SoleRow
      <3>2. \/ task'[t] = task[t]
            \/ task'[t] = [task[t] EXCEPT !.ctx = "done"]
            \/ task'[t] = [task[t] EXCEPT !.ctx = "expired"]
            \/ task'[t] = [task[t] EXCEPT !.pc = "gone", !.ctx = "done"]
        BY <1>1, <2>1, <2>6, TaskEffects DEF TaskEffect
      <3>3. task'[t].pc = task[t].pc /\ task'[t].out = task[t].out
        BY <1>1, <1>3, <3>2 DEF TaskRec
      <3>4. /\ faults' = 0 => faults = 0
            /\ faults' < TerminalAttempts => faults < TerminalAttempts
        BY <2>5
      <3> QED
        BY <2>2, <2>4, <3>1, <3>3, <3>4 DEF Stored, At
    <2>7. CASE ProcessTask(t)
      <3>1. CASE CheckStored(t)
        <4>1. /\ task'[t].pc = "hooks" /\ task'[t].out = "cancelled"
              /\ status[task[t].run] = "cancelled" /\ status' = status
          BY <1>1, <1>3, <3>1 DEF CheckStored, Goto, Report, TaskRec, dbVars
        <4> QED
          BY <2>2, <4>1 DEF Stored, At
      <3>2. CASE StartupFailed(t)
        <4>1. task'[t].pc = "exit" /\ task'[t].out = "none"
          BY <1>1, <3>2 DEF StartupFailed, Goto, At, TaskRec, Books, OutcomeOf, Undecided
        <4> QED
          BY <4>1 DEF Stored, At
      <3>3. CASE PersistOutcome(t)
        <4>1. /\ task'[t].pc = "hooks" /\ task'[t].out = task[t].out
              /\ task[t].out # "completed"
          BY <1>1, <3>3 DEF PersistOutcome, Goto, At, TaskRec, Books, OutcomeOf
        <4>2. faults' = 0 => SetStatus(task[t].run, task[t].out)
          BY <2>5, <3>3 DEF PersistOutcome, FailedWrite, Fault
        <4>3. faults' = 0 => status'[task[t].run] = task[t].out
          BY <1>1, <2>3, <4>2 DEF SetStatus
        <4> QED
          BY <2>2, <4>1, <4>3 DEF Stored, At
      <3>4. CASE PersistCompleted(t)
        <4>1. task[t].out = "completed" /\ fired'[task[t].run] = << >>
          <5>1. task[t].pc = "persistCompleted" /\ UNCHANGED fired
            BY <3>4 DEF PersistCompleted, At
          <5> QED
            BY <2>3, <2>4, <5>1, NotYetFired DEF Books, OutcomeOf
        <4>2. CASE Goto(t, "hooks") /\ SetStatus(task[t].run, "completed") /\ NoFault
          <5>1. task'[t].pc = "hooks" /\ task'[t].out = task[t].out
            BY <1>1, <4>2 DEF Goto, TaskRec
          <5>2. status'[task[t].run] = "completed"
            BY <1>1, <2>3, <4>2 DEF SetStatus
          <5> QED
            BY <2>2, <4>1, <5>1, <5>2 DEF Stored, At
        <4>3. CASE /\ task' = [task EXCEPT ![t].tries = @ + 1,
                                           ![t].pc = IF task[t].tries + 1 = TerminalAttempts
                                                     THEN "exit" ELSE @]
                   /\ FailedWrite(task[t].run, "completed")
          <5>1. task[t].pc = "persistCompleted"
            BY <3>4 DEF PersistCompleted, At
          <5>2. task'[t] = [task[t] EXCEPT !.tries = task[t].tries + 1,
                                           !.pc = IF task[t].tries + 1 = TerminalAttempts
                                                  THEN "exit" ELSE task[t].pc]
            BY <1>1, <4>3
          <5>3. /\ task'[t].pc = "exit" /\ task[t].tries + 1 = TerminalAttempts
                /\ task'[t].out = task[t].out
            BY <1>1, <1>3, <5>1, <5>2 DEF TaskRec
          <5>4. faults' = faults + 1 /\ task[t].tries <= faults /\ task[t].tries \in Nat
            BY <1>1, <4>3 DEF FailedWrite, Fault, Books, TriesCounted, TaskRec
          <5>5. faults' # 0 /\ ~(faults' < TerminalAttempts)
            BY <2>5, <5>3, <5>4
          <5> QED
            BY <2>2, <4>1, <5>3, <5>5 DEF Stored, At
        <4> QED
          BY <3>4, <4>2, <4>3 DEF PersistCompleted
      <3>5. CASE FireCompletionHooks(t)
        <4>1. /\ task[t].pc = "hooks" /\ task'[t].out = task[t].out /\ task'[t].pc = "exit"
              /\ status' = status /\ faults' = faults
              /\ fired' = [fired EXCEPT ![task[t].run] = Append(fired[task[t].run], task[t].out)]
          BY <1>1, <3>5 DEF FireCompletionHooks, Goto, At, TaskRec, dbVars
        <4>2. fired[task[t].run] = << >>
          BY <2>3, <2>4, <4>1, NotYetFired
        <4>3. fired'[task[t].run] = <<task[t].out>>
          <5>1. fired'[task[t].run] = Append(<< >>, task[t].out)
            BY <1>1, <2>3, <4>1, <4>2
          <5>2. Append(<< >>, task[t].out) = <<task[t].out>>
            OBVIOUS
          <5> QED
            BY <5>1, <5>2
        <4> QED
          BY <2>2, <2>4, <4>1, <4>3 DEF Stored, At
      <3>6. CASE \/ Register(t) \/ CheckLocal(t) \/ Activate(t) \/ Startup(t)
                 \/ RunnerEnds(t) \/ Unregister(t) \/ Return(t)
        BY <1>1, <1>3, <3>6
        DEF Register, CheckLocal, Activate, Startup, RunnerEnds, Unregister,
            Return, Goto, Report, TaskRec
      <3> QED
        BY <2>7, <3>1, <3>2, <3>3, <3>4, <3>5, <3>6 DEF ProcessTask
    <2> QED
      BY <2>6, <2>7
  <1> QED
    BY <1>2, <1>3

(* In every behaviour the books are right, and so are the rows of the runs *)
(* that one task worked on.                                                *)
THEOREM BooksKept == Spec => [](Books /\ AllStored)
  <1>1. Init => AllStored
    BY DEF Init, AllStored, Stored, At
  <1>2. Books /\ AllStored /\ [Next]_vars => Books' /\ AllStored'
    BY StepBooks, AllStoredStep
  <1> QED
    BY <1>1, <1>2, InitBooks, PTL DEF Spec

(* An outcome that was reached without a fault, or a success while the     *)
(* database fails less often than MarkRunCompleted is tried, is in the     *)
(* table and was announced exactly once when the goroutine unregisters.    *)
THEOREM Durable == Spec => []OutcomeDurable
  <1>1. AllStored => OutcomeDurable
    BY DEF AllStored, Stored, OutcomeDurable
  <1> QED
    BY <1>1, BooksKept, PTL

(* Whatever fails, and however often: a success that is not in the table   *)
(* is not announced.                                                       *)
THEOREM AnnouncedOnlyIfStored == Spec => []AnnouncedIsStored
  <1>1. AllStored => AnnouncedIsStored
    BY DEF AllStored, Stored, AnnouncedIsStored, At
  <1> QED
    BY <1>1, BooksKept, PTL

-----------------------------------------------------------------------------
(* The maps of the executor.                                               *)

(* The only task of a run was the only one before.                         *)
LEMMA OnlyBefore ==
  ASSUME Books, [Next]_vars, NEW t \in Tasks, task'[t].run = task[t].run,
         task[t].run \in Runs, OnlyTask(t)'
  PROVE  OnlyTask(t)
  <1> SUFFICES ASSUME NEW u \in Tasks \ {t}, task[u].run = task[t].run PROVE FALSE
    BY DEF OnlyTask
  <1>1. task'[u].run # task[u].run
    BY DEF OnlyTask
  <1>2. PICK p \in Pods, q \in Runs : Deliver(p, q) /\ u = spawned + 1
    BY <1>1, TaskKeeps DEF Books
  <1>3. task[u].run = NoRun
    BY <1>2 DEF Books, Assigned, TypeOK, WorkerTypeOK
  <1> QED
    BY <1>3, ChatRunAssumptions

(* The steps that change an entry of the map of cancel functions.          *)
LEMMA EntryBy ==
  ASSUME TypeOK, [Next]_vars, NEW p \in Pods, NEW r \in Runs
  PROVE  \/ cancellers'[p][r] = cancellers[p][r]
         \/ \E t \in Tasks : /\ Register(t) /\ task[t].pod = p /\ task[t].run = r
                             /\ cancellers'[p][r] = t
         \/ \E t \in Tasks : /\ Unregister(t) /\ task[t].pod = p /\ task[t].run = r
                             /\ cancellers'[p][r] = NoTask
         \/ ProcessEnds(p) /\ cancellers'[p][r] = NoTask
  <1>1. cancellers \in [Pods -> [Runs -> Tasks \cup {NoTask}]]
    BY DEF TypeOK, WorkerTypeOK
  <1> DEFINE Outcome == \/ cancellers'[p][r] = cancellers[p][r]
                        \/ \E t \in Tasks : /\ Register(t) /\ task[t].pod = p /\ task[t].run = r
                                            /\ cancellers'[p][r] = t
                        \/ \E t \in Tasks : /\ Unregister(t) /\ task[t].pod = p /\ task[t].run = r
                                            /\ cancellers'[p][r] = NoTask
                        \/ ProcessEnds(p) /\ cancellers'[p][r] = NoTask
  <1>2. ASSUME NEW t \in Tasks, Register(t) PROVE Outcome
    <2>1. cancellers' = [cancellers EXCEPT ![task[t].pod][task[t].run] = t]
      BY <1>2 DEF Register
    <2>2. CASE task[t].pod = p /\ task[t].run = r
      BY <1>1, <1>2, <2>1, <2>2
    <2>3. CASE ~(task[t].pod = p /\ task[t].run = r)
      BY <1>1, <2>1, <2>3
    <2> QED
      BY <2>2, <2>3
  <1>3. ASSUME NEW t \in Tasks, Unregister(t) PROVE Outcome
    <2>1. cancellers' = [cancellers EXCEPT ![task[t].pod][task[t].run] = NoTask]
      BY <1>3 DEF Unregister
    <2>2. CASE task[t].pod = p /\ task[t].run = r
      BY <1>1, <1>3, <2>1, <2>2
    <2>3. CASE ~(task[t].pod = p /\ task[t].run = r)
      BY <1>1, <2>1, <2>3
    <2> QED
      BY <2>2, <2>3
  <1>4. ASSUME NEW o \in Pods, ProcessEnds(o) PROVE Outcome
    <2>1. cancellers' = [cancellers EXCEPT ![o] = [q \in Runs |-> NoTask]]
      BY <1>4 DEF ProcessEnds
    <2>2. CASE o = p
      BY <1>1, <1>4, <2>1, <2>2
    <2>3. CASE o # p
      BY <1>1, <2>1, <2>3
    <2> QED
      BY <2>2, <2>3
  <1>5. CASE UNCHANGED cancellers
    BY <1>5
  <1>6. \/ \E t \in Tasks : Register(t) \/ Unregister(t)
        \/ \E o \in Pods : ProcessEnds(o)
        \/ UNCHANGED cancellers
    BY DEF Next, Enqueue, EnqueueCheck, EnqueueExpire, EnqueueInsert, EnqueuePublish,
        FailEnqueuedRun, AgeInQueue, AgeWhileActive, Consume, Deliver, Acknowledge, Pod,
        Shutdown, StopConsuming, Crash, Exit, Timeout, CancelRun,
        CancelStore, CancelLoad, CancelPersist, BrokerRestart, vars, workerVars,
        ProcessTask, CheckLocal, CheckStored, Activate, Startup,
        StartupFailed, RunnerEnds, PersistOutcome, PersistCompleted,
        FireCompletionHooks, Return
  <1> QED
    BY <1>2, <1>3, <1>4, <1>5, <1>6

(* Registered tasks stay registered until they unregister or their process *)
(* ends, and only Register makes a task one.                               *)
LEMMA RegisteredStep ==
  ASSUME TypeOK, Assigned, [Next]_vars, NEW t \in Tasks
  PROVE  /\ Registered(t) => \/ Registered(t)'
                             \/ Unregister(t)
                             \/ ProcessEnds(task[t].pod)
         /\ Registered(t)' => Registered(t) \/ Register(t)
  <1>1. task \in [Tasks -> TaskRec] /\ task[t] \in TaskRec
    BY DEF TypeOK, WorkerTypeOK
  <1>2. CASE ProcessTask(t)
    <2>1. CASE Register(t) \/ Unregister(t) \/ Return(t)
      BY <1>1, <2>1 DEF Register, Unregister, Return, Goto, At, Registered, InFlight,
         TaskSteps, TaskRec
    <2>2. CASE PersistCompleted(t)
      <3>1. task[t].pc = "persistCompleted" /\ task'[t].pc \in {"hooks", "exit", "persistCompleted"}
        BY <1>1, <2>2 DEF PersistCompleted, Goto, At, TaskRec
      <3> QED
        BY <3>1 DEF Registered, InFlight, TaskSteps
    <2>3. CASE \/ CheckLocal(t) \/ CheckStored(t) \/ Activate(t) \/ Startup(t)
               \/ StartupFailed(t) \/ RunnerEnds(t) \/ PersistOutcome(t)
               \/ FireCompletionHooks(t)
      BY <1>1, <2>3
      DEF CheckLocal, CheckStored, Activate, Startup, StartupFailed, RunnerEnds,
          PersistOutcome, FireCompletionHooks, Goto, Report, At, Registered, InFlight,
          TaskSteps, TaskRec
    <2> QED
      BY <1>2, <2>1, <2>2, <2>3 DEF ProcessTask
  <1>3. ASSUME NEW p \in Pods, NEW r \in Runs, Deliver(p, r), t = spawned + 1,
               task'[t] = NewTask(p, r)
        PROVE  ~Registered(t)' /\ task[t].pc = "free"
    <2>1. task[t].pc = "free"
      BY <1>3 DEF Assigned, TypeOK, WorkerTypeOK
    <2>2. task'[t].pc = "register"
      BY <1>3 DEF NewTask
    <2> QED
      BY <2>1, <2>2 DEF Registered
  <1>4. CASE /\ task'[t] = [task[t] EXCEPT !.pc = "gone", !.ctx = "done"]
             /\ InFlight(t) /\ ProcessEnds(task[t].pod)
    <2>1. task'[t].pc = "gone"
      BY <1>1, <1>4 DEF TaskRec
    <2> QED
      BY <1>4, <2>1 DEF Registered, InFlight, TaskSteps
  <1>5. CASE \/ task'[t] = task[t]
             \/ task'[t] = [task[t] EXCEPT !.ctx = "done"]
             \/ task'[t] = [task[t] EXCEPT !.ctx = "expired"]
    <2>1. task'[t].pc = task[t].pc
      BY <1>1, <1>5 DEF TaskRec
    <2> QED
      BY <2>1 DEF Registered, InFlight
  <1>6. task[t].pc = "free" => ~Registered(t)
    BY DEF Registered, InFlight, TaskSteps
  <1> QED
    BY <1>2, <1>3, <1>4, <1>5, <1>6, TaskEffects DEF TaskEffect

(* The goroutines in flight on a pod end with its process.                 *)
LEMMA ProcessEndsTask ==
  ASSUME TypeOK, NEW t \in Tasks, InFlight(t), ProcessEnds(task[t].pod)
  PROVE  task'[t].pc = "gone"
  <1>1. task' = [u \in Tasks |-> IF task[u].pod = task[t].pod /\ InFlight(u)
                                 THEN [task[u] EXCEPT !.pc = "gone", !.ctx = "done"]
                                 ELSE task[u]]
    BY DEF ProcessEnds
  <1>2. task'[t] = [task[t] EXCEPT !.pc = "gone", !.ctx = "done"]
    BY <1>1
  <1>3. task[t] \in TaskRec
    BY DEF TypeOK, WorkerTypeOK
  <1> QED
    BY <1>2, <1>3 DEF TaskRec

(* A registered task is not a new one.                                     *)
LEMMA RegisteredKeeps ==
  ASSUME Books, [Next]_vars, NEW t \in Tasks, Registered(t) \/ Registered(t)'
  PROVE  /\ task'[t].run = task[t].run /\ task'[t].pod = task[t].pod
         /\ task[t].run \in Runs /\ task[t].pod \in Pods
  <1>1. TypeOK /\ Assigned /\ spawned \in Nat /\ t \in Nat
    BY DEF Books, TypeOK, WorkerTypeOK, Tasks
  <1>2. ~\E p \in Pods, r \in Runs : /\ Deliver(p, r) /\ t = spawned + 1
                                     /\ task'[t] = NewTask(p, r)
    <2>1. SUFFICES ASSUME NEW p \in Pods, NEW r \in Runs, t = spawned + 1,
                          task'[t] = NewTask(p, r)
                   PROVE  FALSE
      OBVIOUS
    <2>2. task[t].pc = "free"
      BY <1>1, <2>1 DEF Assigned
    <2>3. NewTask(p, r).pc = "register"
      BY DEF NewTask
    <2> QED
      BY <2>1, <2>2, <2>3 DEF Registered, InFlight, TaskSteps
  <1>3. /\ task'[t].run = task[t].run /\ task'[t].pod = task[t].pod
        /\ task[t].pc = "free" <=> task'[t].pc = "free"
    BY <1>1, <1>2, TaskKeeps
  <1>4. task[t].pc # "free"
    BY <1>3 DEF Registered, InFlight, TaskSteps
  <1> QED
    BY <1>1, <1>3, <1>4 DEF Assigned

(* Register, Unregister, the exit of a process and a crash keep the map    *)
(* of cancel functions equal to the tasks that registered.                 *)
LEMMA CancellersStep ==
  ASSUME Books, CancellersExact, [Next]_vars
  PROVE  CancellersExact'
  <1>1. /\ cancellers \in [Pods -> [Runs -> Tasks \cup {NoTask}]] /\ NoTask \notin Tasks
        /\ TypeOK /\ Assigned /\ task \in [Tasks -> TaskRec]
    BY ChatRunAssumptions DEF Books, TypeOK, WorkerTypeOK, NoTask, Tasks
  <1>2. ASSUME NEW p \in Pods, NEW r \in Runs, NEW t \in Tasks, cancellers'[p][r] = t
        PROVE  Registered(t)' /\ task'[t].pod = p /\ task'[t].run = r
    <2>1. CASE cancellers'[p][r] = cancellers[p][r]
      <3>1. Registered(t) /\ task[t].pod = p /\ task[t].run = r
        BY <1>2, <2>1 DEF CancellersExact
      <3>2. task'[t].pod = p /\ task'[t].run = r
        BY <3>1, RegisteredKeeps
      <3>3. ~Unregister(t)
        <4>1. Unregister(t) => cancellers'[p][r] = NoTask
          BY <1>1, <3>1 DEF Unregister
        <4> QED
          BY <1>1, <1>2, <4>1
      <3>4. ~ProcessEnds(p)
        <4>1. ProcessEnds(p) => cancellers' = [cancellers EXCEPT ![p] = [q \in Runs |-> NoTask]]
          BY DEF ProcessEnds
        <4>2. ProcessEnds(p) => cancellers'[p][r] = NoTask
          BY <1>1, <4>1
        <4> QED
          BY <1>1, <1>2, <4>2
      <3> QED
        BY <1>1, <3>1, <3>2, <3>3, <3>4, RegisteredStep
    <2>2. CASE Register(t) /\ task[t].pod = p /\ task[t].run = r
      BY <1>1, <2>2 DEF Register, Goto, Registered, InFlight, TaskSteps, TaskRec
    <2> QED
      BY <1>1, <1>2, <2>1, <2>2, EntryBy
  <1>3. ASSUME NEW p \in Pods, NEW r \in Runs, NEW t \in Tasks,
               Registered(t)', task'[t].pod = p, task'[t].run = r, OnlyTask(t)'
        PROVE  cancellers'[p][r] = t
    <2>1. task[t].run = r /\ task[t].pod = p
      BY <1>3, RegisteredKeeps
    <2>2. OnlyTask(t)
      BY <1>3, <2>1, OnlyBefore
    <2>3. CASE Register(t)
      BY <1>1, <2>1, <2>3 DEF Register
    <2>4. CASE Registered(t)
      <3>1. cancellers[p][r] = t
        BY <2>1, <2>2, <2>4 DEF CancellersExact
      <3>2. ~Unregister(t)
        BY <1>1, <1>3 DEF Unregister, Goto, Registered, TaskRec
      <3>3. ~ProcessEnds(p)
        <4>1. ProcessEnds(p) => task'[t].pc = "gone"
          BY <1>1, <2>1, <2>4, ProcessEndsTask DEF Registered
        <4> QED
          BY <1>3, <4>1 DEF Registered, InFlight, TaskSteps
      <3>4. ASSUME NEW u \in Tasks, u # t, Register(u) \/ Unregister(u)
            PROVE  ~(task[u].pod = p /\ task[u].run = r)
        BY <2>1, <2>2, <3>4 DEF OnlyTask
      <3>5. ~Register(t)
        BY <2>4 DEF Register, At, Registered
      <3> QED
        BY <1>1, <3>1, <3>2, <3>3, <3>4, <3>5, EntryBy
    <2> QED
      BY <1>1, <1>3, <2>3, <2>4, RegisteredStep
  <1> QED
    BY <1>2, <1>3 DEF CancellersExact

-----------------------------------------------------------------------------
(* What a cancel leaves behind.                                            *)

(* The steps after which a run is no longer marked cancelled on a pod.     *)
LEMMA IntentLost ==
  ASSUME TypeOK, [Next]_vars, NEW p \in Pods, NEW r \in cancelled[p], r \notin cancelled'[p]
  PROVE  \/ \E t \in Tasks : Return(t) /\ task[t].pod = p /\ task[t].run = r
         \/ Crash(p) \/ Exit(p)
  <1>1. cancelled \in [Pods -> SUBSET Runs]
    BY DEF TypeOK, WorkerTypeOK
  <1>2. ASSUME NEW t \in Tasks, Return(t)
        PROVE  task[t].pod = p /\ task[t].run = r
    BY <1>1, <1>2 DEF Return
  <1>3. ASSUME NEW o \in Pods, Crash(o) \/ Exit(o) PROVE o = p
    BY <1>1, <1>3 DEF Crash, Exit, ProcessEnds
  <1>4. ASSUME NEW o \in Pods, Shutdown(o) PROVE FALSE
    <2>1. cancelled' = [cancelled EXCEPT ![o] = @ \cup {q \in Runs : cancellers[o][q] # NoTask}]
      BY <1>4 DEF Shutdown
    <2> QED
      BY <1>1, <2>1
  <1>5. ASSUME NEW k \in Cancels, NEW q \in Runs, NEW o \in Pods, CancelStore(k, q, o)
        PROVE  FALSE
    BY <1>1, <1>5 DEF CancelStore
  <1>6. \/ \E t \in Tasks : Return(t)
        \/ \E o \in Pods : Crash(o) \/ Exit(o)
        \/ \E o \in Pods : Shutdown(o)
        \/ \E k \in Cancels, q \in Runs, o \in Pods : CancelStore(k, q, o)
        \/ UNCHANGED cancelled
    BY DEF Next, Enqueue, EnqueueCheck, EnqueueExpire, EnqueueInsert, EnqueuePublish,
        FailEnqueuedRun, AgeInQueue, AgeWhileActive, Consume, Deliver, Acknowledge, Pod,
        StopConsuming, Timeout, CancelRun,
        CancelLoad, CancelPersist, BrokerRestart, vars, workerVars,
        ProcessTask, Register, CheckLocal, CheckStored, Activate, Startup,
        StartupFailed, RunnerEnds, PersistOutcome, PersistCompleted,
        FireCompletionHooks, Unregister
  <1> QED
    BY <1>2, <1>3, <1>4, <1>5, <1>6

(* Between the two halves of Cancel the intent is only lost to a task of   *)
(* the run that returned.                                                  *)
IntentKept ==
  \A k \in Cancels : cpc[k] = "load" =>
    \/ crun[k] \in cancelled[cpod[k]]
    \/ \E u \in Tasks : task[u].run = crun[k] /\ task[u].pc = "gone"

(* A task that has returned stays so.                                      *)
LEMMA GoneStays ==
  ASSUME Books, [Next]_vars, NEW t \in Tasks, task[t].pc = "gone"
  PROVE  task'[t].pc = "gone" /\ task'[t].run = task[t].run
  <1>1. ~\E p \in Pods, r \in Runs : Deliver(p, r) /\ t = spawned + 1
    BY DEF Books, Assigned, TypeOK, WorkerTypeOK
  <1> QED
    BY <1>1, TaskKeeps DEF Books

(* A cancel request that recorded its intent finds it there when it        *)
(* loads the cancel function, or a task of the run has returned.           *)
LEMMA IntentKeptStep ==
  ASSUME Books, IntentKept, [Next]_vars
  PROVE  IntentKept'
  <1> SUFFICES ASSUME NEW k \in Cancels, cpc'[k] = "load", crun'[k] \notin cancelled'[cpod'[k]]
               PROVE  \E u \in Tasks : task'[u].run = crun'[k] /\ task'[u].pc = "gone"
    BY DEF IntentKept
  <1>1. /\ TypeOK /\ CancelNames /\ task \in [Tasks -> TaskRec]
        /\ cancelled \in [Pods -> SUBSET Runs]
        /\ cpc \in [Cancels -> {"idle", "load", "persist", "dispatched", "persisted",
                                "notFound", "lost"}]
        /\ crun \in [Cancels -> Runs \cup {NoRun}] /\ cpod \in [Cancels -> Pods \cup {NoPod}]
    BY DEF Books, TypeOK, WorkerTypeOK, CancelTypeOK
  <1>2. ASSUME NEW r \in Runs, NEW p \in Pods, CancelStore(k, r, p) PROVE FALSE
    BY <1>1, <1>2 DEF CancelStore
  <1>3. cpc[k] = "load"
    <2>1. ASSUME NEW j \in Cancels, CancelRun(j)
          PROVE  cpc[k] = "load"
      BY <1>1, <1>2, <2>1 DEF CancelRun, CancelStore, CancelLoad, CancelPersist
    <2>2. ASSUME NEW p \in Pods, ProcessEnds(p)
          PROVE  cpc[k] = "load"
      BY <1>1, <2>2 DEF ProcessEnds
    <2>3. CASE UNCHANGED cpc
      BY <2>3
    <2>4. \/ \E j \in Cancels : CancelRun(j)
          \/ \E p \in Pods : ProcessEnds(p)
          \/ UNCHANGED cpc
      BY DEF Next, Enqueue, EnqueueCheck, EnqueueExpire, EnqueueInsert, EnqueuePublish,
          FailEnqueuedRun, AgeInQueue, AgeWhileActive, Consume, Deliver, Acknowledge, Pod,
          Shutdown, StopConsuming, Crash, Exit, Timeout, BrokerRestart, vars, cancelVars,
          ProcessTask, Register, CheckLocal, CheckStored, Activate, Startup,
          StartupFailed, RunnerEnds, PersistOutcome, PersistCompleted,
          FireCompletionHooks, Unregister, Return
    <2> QED
      BY <2>1, <2>2, <2>3, <2>4
  <1>4. crun'[k] = crun[k] /\ cpod'[k] = cpod[k] /\ crun[k] \in Runs /\ cpod[k] \in Pods
    BY <1>1, <1>3, CancelNamesStep, ChatRunAssumptions DEF CancelNames
  <1>5. CASE \E u \in Tasks : task[u].run = crun[k] /\ task[u].pc = "gone"
    BY <1>4, <1>5, GoneStays
  <1>6. CASE crun[k] \in cancelled[cpod[k]]
    <2>1. ~ProcessEnds(cpod[k])
      <3>1. ProcessEnds(cpod[k]) => cpc'[k] = "lost"
        BY <1>3 DEF ProcessEnds
      <3> QED
        BY <3>1
    <2>2. PICK t \in Tasks : Return(t) /\ task[t].run = crun[k]
      BY <1>1, <1>4, <1>6, <2>1, IntentLost DEF Crash, Exit
    <2>3. task'[t].pc = "gone" /\ task'[t].run = crun[k]
      BY <1>1, <2>2 DEF Return, TaskRec
    <2> QED
      BY <1>4, <2>3
  <1> QED
    BY <1>3, <1>5, <1>6 DEF IntentKept

(* The cancel function of a run's only task is called after the run was    *)
(* cancelled on its pod, and the intent stays.                             *)
EndedByCancel ==
  \A t \in Tasks :
    InFlight(t) /\ task[t].ctx = "done" /\ OnlyTask(t) =>
      task[t].run \in cancelled[task[t].pod]

(* The cancel function of a run's only task is called only after a cancel  *)
(* was recorded on its pod.                                                *)
LEMMA EndedByCancelStep ==
  ASSUME Books, CancellersExact, IntentKept, EndedByCancel, [Next]_vars
  PROVE  EndedByCancel'
  <1> SUFFICES ASSUME NEW t \in Tasks, InFlight(t)', task'[t].ctx = "done",
                      OnlyTask(t)'
               PROVE  task'[t].run \in cancelled'[task'[t].pod]
    BY DEF EndedByCancel
  <1>1. /\ TypeOK /\ Assigned /\ task \in [Tasks -> TaskRec] /\ task[t] \in TaskRec
        /\ cancelled \in [Pods -> SUBSET Runs]
    BY DEF Books, TypeOK, WorkerTypeOK
  <1>2. ASSUME NEW p \in Pods, NEW r \in Runs PROVE task'[t] # NewTask(p, r)
    <2>1. NewTask(p, r).ctx = "live"
      BY DEF NewTask
    <2> QED
      BY <2>1
  <1>3. /\ task'[t].run = task[t].run /\ task'[t].pod = task[t].pod /\ InFlight(t)
        /\ task[t].run \in Runs /\ task[t].pod \in Pods
    <2>1. /\ task'[t].run = task[t].run /\ task'[t].pod = task[t].pod /\ InFlight(t)
      BY <1>1, <1>2, TaskKeeps
    <2>2. task[t].pc # "free"
      BY <2>1 DEF InFlight, TaskSteps
    <2> QED
      BY <1>1, <2>1, <2>2 DEF Assigned
  <1>4. OnlyTask(t)
    BY <1>3, OnlyBefore
  <1>5. CASE task[t].ctx = "done"
    <2>1. task[t].run \in cancelled[task[t].pod]
      BY <1>3, <1>4, <1>5 DEF EndedByCancel
    <2>2. ~Return(t) /\ ~ProcessEnds(task[t].pod)
      <3>1. Return(t) => task'[t].pc = "gone"
        BY <1>1 DEF Return, TaskRec
      <3>2. ProcessEnds(task[t].pod) => task'[t].pc = "gone"
        BY <1>1, <1>3, ProcessEndsTask
      <3> QED
        BY <3>1, <3>2 DEF InFlight, TaskSteps
    <2>3. \A u \in Tasks : task[u].run = task[t].run => u = t
      BY <1>4 DEF OnlyTask
    <2> QED
      BY <1>1, <1>3, <2>1, <2>2, <2>3, IntentLost DEF Crash, Exit
  <1>6. CASE task[t].ctx # "done"
    <2>1. CASE ProcessTask(t)
      <3>1. CASE Return(t)
        BY <1>1, <3>1 DEF Return, InFlight, TaskSteps, TaskRec
      <3>2. CASE PersistCompleted(t)
        BY <1>1, <1>6, <3>2 DEF PersistCompleted, Goto, TaskRec
      <3>3. CASE ~Return(t) /\ ~PersistCompleted(t)
        BY <1>1, <1>6, <2>1, <3>3
        DEF ProcessTask, Register, CheckLocal, CheckStored, Activate, Startup,
            StartupFailed, RunnerEnds, PersistOutcome,
            FireCompletionHooks, Unregister, Goto, Report, TaskRec
      <3> QED
        BY <3>1, <3>2, <3>3
    <2>2. task'[t] # [task[t] EXCEPT !.ctx = "expired"]
      BY <1>1 DEF TaskRec
    <2>3. ASSUME NEW k \in Cancels, CancelLoad(k), cancellers[cpod[k]][crun[k]] = t
          PROVE  task'[t].run \in cancelled'[task'[t].pod]
      <3>1. cpc[k] = "load" /\ cancelled' = cancelled /\ crun[k] \in Runs /\ cpod[k] \in Pods
        BY <2>3, ChatRunAssumptions DEF CancelLoad, Books, CancelNames
      <3>2. task[t].run = crun[k] /\ task[t].pod = cpod[k]
        BY <2>3, <3>1 DEF CancellersExact
      <3>3. ~\E u \in Tasks : task[u].run = crun[k] /\ task[u].pc = "gone"
        BY <1>3, <1>4, <3>2 DEF OnlyTask, InFlight, TaskSteps
      <3> QED
        BY <1>3, <3>1, <3>2, <3>3 DEF IntentKept
    <2>4. ASSUME NEW p \in Pods, NEW r \in Runs, Shutdown(p), cancellers[p][r] = t
          PROVE  task'[t].run \in cancelled'[task'[t].pod]
      <3>1. cancelled' = [cancelled EXCEPT ![p] = @ \cup {q \in Runs : cancellers[p][q] # NoTask}]
        BY <2>4 DEF Shutdown
      <3>2. task[t].run = r /\ task[t].pod = p
        BY <2>4 DEF CancellersExact
      <3>3. t # NoTask
        BY ChatRunAssumptions DEF NoTask, Tasks
      <3> QED
        BY <1>1, <1>3, <2>4, <3>1, <3>2, <3>3
    <2>5. task'[t] # task[t]
      BY <1>6
    <2>6. task'[t] # [task[t] EXCEPT !.pc = "gone", !.ctx = "done"]
      BY <1>1 DEF InFlight, TaskSteps, TaskRec
    <2> QED
      BY <1>1, <1>2, <2>1, <2>2, <2>3, <2>4, <2>5, <2>6, TaskEffects DEF TaskEffect
  <1> QED
    BY <1>5, <1>6

(* The maps and the tasks agree in every behaviour.                        *)
THEOREM MapsKept == Spec => [](Books /\ CancellersExact /\ IntentKept /\ EndedByCancel)
  <1>1. Init => CancellersExact /\ IntentKept /\ EndedByCancel
    BY ChatRunAssumptions DEF Init, CancellersExact, IntentKept, EndedByCancel, Registered,
       InFlight, TaskSteps, NoTask, Tasks
  <1>2. Books /\ CancellersExact /\ IntentKept /\ EndedByCancel /\ [Next]_vars
        => Books' /\ CancellersExact' /\ IntentKept' /\ EndedByCancel'
    BY StepBooks, CancellersStep, IntentKeptStep, EndedByCancelStep
  <1> QED
    BY <1>1, <1>2, InitBooks, PTL DEF Spec

(* The map of cancel functions is that of the goroutines in flight.        *)
THEOREM MapExact == Spec => []CancellersExact
  BY MapsKept, PTL

(* A deliberate cancel is never reported as a timeout.                     *)
THEOREM CancelIsCancel == Spec => []CancelIsNotTimeout
  <1>1. TypeOK /\ EndedByCancel => CancelIsNotTimeout
    BY DEF TypeOK, WorkerTypeOK, TaskRec, EndedByCancel, CancelIsNotTimeout, At, InFlight,
       TaskSteps
  <1>2. Books => TypeOK
    BY DEF Books
  <1> QED
    BY <1>1, <1>2, MapsKept, PTL

-----------------------------------------------------------------------------
(* A run that was cancelled is not taken up again, where nothing fails.    *)

(* Only faults stop a pod, ...                                             *)
PodsUp == faults = 0 => \A p \in Pods : phase[p] = "up"

(* ... and only faults make the broker deliver a message twice.            *)
OneDelivery ==
  faults = 0 => /\ \A r \in Runs : /\ queue[r] <= 1
                                   /\ queue[r] = 1 => \A t \in Tasks : task[t].run # r
                /\ \A t, u \in Tasks : task[t].run = task[u].run /\ task[t].run \in Runs => t = u

(* So a cancel's intent lasts as long as the tasks of its run, ...         *)
IntentLasts ==
  faults = 0 => \A k \in Cancels : cpc[k] # "idle" =>
    \/ crun[k] \in cancelled[cpod[k]]
    \/ \E t \in Tasks : task[t].run = crun[k] /\ task[t].pc = "gone"

(* ... a row is cancelled by a request or by a task that found its run     *)
(* cancelled, ...                                                          *)
CancelledBy ==
  \A r \in Runs : status[r] = "cancelled" =>
    \/ \E k \in Cancels : crun[k] = r
    \/ \E t \in Tasks : task[t].run = r /\ task[t].pc \in {"hooks", "exit", "forget", "gone"}

(* The cancels of the run of t were all served by the pod of t.            *)
PodAgrees(t) == \A k \in Cancels : crun[k] = task[t].run => cpod[k] = task[t].pod

(* ... and a task that passed the local check meets only cancels that find *)
(* its cancel function, which leave the row to it.                         *)
PastCheck ==
  \A t \in Tasks :
    faults = 0 /\ task[t].pc \in {"checkStored", "activate"} /\ PodAgrees(t) =>
      /\ status[task[t].run] # "cancelled"
      /\ \A k \in Cancels : crun[k] = task[t].run => cpc[k] \in {"load", "dispatched"}

Uncancelled == PodsUp /\ OneDelivery /\ IntentLasts /\ CancelledBy /\ PastCheck

(* The steps that are faults did not happen.                               *)
LEMMA NothingFailed ==
  ASSUME TypeOK, PodsUp, [Next]_vars, faults' = 0
  PROVE  /\ faults = 0 /\ NoFault /\ ~Fault /\ ~BrokerRestart
         /\ \A p \in Pods : phase[p] = "up" /\ ~Shutdown(p) /\ ~Crash(p) /\ ~Exit(p)
                            /\ ~StopConsuming(p)
  <1>1. faults = 0
    BY FaultsGrow
  <1>2. NoFault /\ ~Fault
    BY <1>1 DEF NoFault, Fault
  <1> QED
    BY <1>1, <1>2 DEF PodsUp, BrokerRestart, Shutdown, Crash, Exit, StopConsuming

(* Without faults no pod leaves its normal phase.                          *)
LEMMA PodsUpStep ==
  ASSUME TypeOK, PodsUp, [Next]_vars
  PROVE  PodsUp'
  <1> SUFFICES ASSUME faults' = 0 PROVE \A p \in Pods : phase'[p] = "up"
    BY DEF PodsUp
  <1>1. UNCHANGED phase
    BY NothingFailed
    DEF Next, Enqueue, EnqueueCheck, EnqueueExpire, EnqueueInsert, EnqueuePublish,
        FailEnqueuedRun, AgeInQueue, AgeWhileActive, Consume, Deliver, Acknowledge, Pod,
        Timeout, CancelRun, CancelStore, CancelLoad, CancelPersist, vars, workerVars,
        ProcessTask, Register, CheckLocal, CheckStored, Activate, Startup,
        StartupFailed, RunnerEnds, PersistOutcome, PersistCompleted,
        FireCompletionHooks, Unregister, Return
  <1> QED
    BY <1>1, NothingFailed

(* What happens to the messages of a run while nothing fails.              *)
LEMMA QueueBy ==
  ASSUME Books, PodsUp, [Next]_vars, faults' = 0
  PROVE  \/ queue' = queue
         \/ \E r \in Runs : EnqueuePublish(r) /\ queue' = [queue EXCEPT ![r] = queue[r] + 1]
         \/ \E p \in Pods, r \in Runs : Deliver(p, r)
  BY NothingFailed
  DEF Next, Enqueue, EnqueueCheck, EnqueueExpire, EnqueueInsert, EnqueuePublish,
      FailEnqueuedRun, AgeInQueue, AgeWhileActive, Consume, Acknowledge, Pod, Books,
      Timeout, CancelRun, CancelStore, CancelLoad, CancelPersist, vars, brokerVars,
      ProcessTask, Register, CheckLocal, CheckStored, Activate, Startup,
      StartupFailed, RunnerEnds, PersistOutcome, PersistCompleted,
      FireCompletionHooks, Unregister, Return

(* Without faults a run is delivered at most once.                         *)
LEMMA OneDeliveryStep ==
  ASSUME Books, PodsUp, OneDelivery, [Next]_vars
  PROVE  OneDelivery'
  <1> SUFFICES ASSUME faults' = 0
               PROVE  /\ \A r \in Runs : /\ queue'[r] <= 1
                                         /\ queue'[r] = 1 => \A t \in Tasks : task'[t].run # r
                      /\ \A t, u \in Tasks :
                           task'[t].run = task'[u].run /\ task'[t].run \in Runs => t = u
    BY DEF OneDelivery
  <1>1. /\ TypeOK /\ task \in [Tasks -> TaskRec] /\ queue \in [Runs -> Nat] /\ spawned \in Nat
        /\ \A r \in Runs : queue[r] \in Nat /\ queue[r] <= 1
        /\ \A r \in Runs : queue[r] = 1 => \A t \in Tasks : task[t].run # r
        /\ \A t, u \in Tasks : task[t].run = task[u].run /\ task[t].run \in Runs => t = u
    BY NothingFailed DEF Books, TypeOK, WorkerTypeOK, BrokerTypeOK, OneDelivery
  <1>2. CASE \E p \in Pods, r \in Runs : Deliver(p, r)
    <2>1. PICK p \in Pods, r \in Runs : Deliver(p, r)
      BY <1>2
    <2>2. /\ queue' = [queue EXCEPT ![r] = queue[r] - 1] /\ queue[r] = 1
          /\ task' = [task EXCEPT ![spawned + 1] = NewTask(p, r)]
      BY <1>1, <2>1 DEF Deliver, NewTask
    <2>3. \A q \in Runs : queue'[q] = IF q = r THEN 0 ELSE queue[q]
      BY <1>1, <2>2
    <2>4. \A t \in Tasks : task'[t].run = IF t = spawned + 1 THEN r ELSE task[t].run
      BY <1>1, <2>2 DEF NewTask
    <2>5. \A t \in Tasks : task[t].run # r
      BY <1>1, <2>2
    <2> QED
      BY <1>1, <2>3, <2>4, <2>5
  <1>3. CASE ~\E p \in Pods, r \in Runs : Deliver(p, r)
    <2>1. \A t \in Tasks : task'[t].run = task[t].run
      BY <1>1, <1>3, TaskKeeps
    <2>2. CASE queue' = queue
      BY <1>1, <2>1, <2>2
    <2>3. ASSUME NEW r \in Runs, EnqueuePublish(r),
                 queue' = [queue EXCEPT ![r] = queue[r] + 1]
          PROVE  /\ \A q \in Runs : /\ queue'[q] <= 1
                                    /\ queue'[q] = 1 => \A t \in Tasks : task'[t].run # q
                 /\ \A t, u \in Tasks :
                      task'[t].run = task'[u].run /\ task'[t].run \in Runs => t = u
      <3>1. ~Sent(r)
        BY <2>3 DEF Books, Published, EnqueuePublish
      <3>2. queue[r] = 0 /\ \A t \in Tasks : task[t].run # r
        BY <1>1, <3>1 DEF Sent
      <3>3. \A q \in Runs : queue'[q] = IF q = r THEN 1 ELSE queue[q]
        BY <1>1, <2>3, <3>2
      <3> QED
        BY <1>1, <2>1, <3>2, <3>3
    <2> QED
      BY <1>3, <2>2, <2>3, QueueBy
  <1> QED
    BY <1>2, <1>3

(* Without faults a recorded intent stays until a task of the run          *)
(* returns.                                                                *)
LEMMA IntentLastsStep ==
  ASSUME Books, PodsUp, IntentLasts, [Next]_vars
  PROVE  IntentLasts'
  <1> SUFFICES ASSUME faults' = 0, NEW k \in Cancels, cpc'[k] # "idle",
                      crun'[k] \notin cancelled'[cpod'[k]]
               PROVE  \E u \in Tasks : task'[u].run = crun'[k] /\ task'[u].pc = "gone"
    BY DEF IntentLasts
  <1>1. /\ TypeOK /\ CancelNames /\ task \in [Tasks -> TaskRec]
        /\ cancelled \in [Pods -> SUBSET Runs] /\ faults = 0
        /\ cpc \in [Cancels -> {"idle", "load", "persist", "dispatched", "persisted",
                                "notFound", "lost"}]
        /\ crun \in [Cancels -> Runs \cup {NoRun}] /\ cpod \in [Cancels -> Pods \cup {NoPod}]
    BY NothingFailed DEF Books, TypeOK, WorkerTypeOK, CancelTypeOK
  <1>2. ASSUME NEW r \in Runs, NEW p \in Pods, CancelStore(k, r, p) PROVE FALSE
    BY <1>1, <1>2 DEF CancelStore
  <1>3. cpc[k] # "idle"
    <2>1. ASSUME NEW j \in Cancels, CancelRun(j)
          PROVE  cpc[k] # "idle"
      BY <1>1, <1>2, <2>1 DEF CancelRun, CancelStore, CancelLoad, CancelPersist
    <2>2. CASE UNCHANGED cpc
      BY <2>2
    <2>3. \/ \E j \in Cancels : CancelRun(j)
          \/ UNCHANGED cpc
      BY <1>1, NothingFailed
      DEF Next, Enqueue, EnqueueCheck, EnqueueExpire, EnqueueInsert, EnqueuePublish,
          FailEnqueuedRun, AgeInQueue, AgeWhileActive, Consume, Deliver, Acknowledge, Pod,
          Timeout, vars, cancelVars,
          ProcessTask, Register, CheckLocal, CheckStored, Activate, Startup,
          StartupFailed, RunnerEnds, PersistOutcome, PersistCompleted,
          FireCompletionHooks, Unregister, Return
    <2> QED
      BY <2>1, <2>2, <2>3
  <1>4. crun'[k] = crun[k] /\ cpod'[k] = cpod[k] /\ crun[k] \in Runs /\ cpod[k] \in Pods
    BY <1>1, <1>3, CancelNamesStep, ChatRunAssumptions DEF CancelNames
  <1>5. CASE \E u \in Tasks : task[u].run = crun[k] /\ task[u].pc = "gone"
    BY <1>4, <1>5, GoneStays
  <1>6. CASE crun[k] \in cancelled[cpod[k]]
    <2>1. PICK t \in Tasks : Return(t) /\ task[t].run = crun[k]
      BY <1>1, <1>4, <1>6, IntentLost, NothingFailed
    <2>2. task'[t].pc = "gone" /\ task'[t].run = crun[k]
      BY <1>1, <2>1 DEF Return, TaskRec
    <2> QED
      BY <1>4, <2>2
  <1> QED
    BY <1>1, <1>3, <1>5, <1>6 DEF IntentLasts

(* The steps that may make a row cancelled.                                *)
LEMMA CancelWrites ==
  ASSUME Books, [Next]_vars, NEW r \in Runs, status[r] # "cancelled", status'[r] = "cancelled"
  PROVE  \/ \E k \in Cancels : CancelPersist(k) /\ crun[k] = r
         \/ \E t \in Tasks : PersistOutcome(t) /\ task[t].run = r
  <1>1. status \in [Runs -> RunStatus]
    BY DEF Books, TypeOK, DbTypeOK
  <1>2. \A q, s : SetStatus(q, s) => q = r /\ s = "cancelled"
    BY <1>1 DEF SetStatus
  <1>3. status' # status
    OBVIOUS
  <1>4. ASSUME NEW q \in Runs, Enqueue(q) PROVE FALSE
    BY <1>2, <1>3, <1>4 DEF Enqueue, EnqueueCheck, EnqueueExpire, EnqueueInsert,
       EnqueuePublish, FailEnqueuedRun, FailedWrite, dbVars
  <1>5. ASSUME NEW t \in Tasks, ProcessTask(t)
        PROVE  PersistOutcome(t) /\ task[t].run = r
    <2>1. PersistOutcome(t)
      BY <1>2, <1>3, <1>5
      DEF ProcessTask, Register, CheckLocal, CheckStored, Activate, Startup,
          StartupFailed, RunnerEnds, PersistCompleted, FailedWrite,
          FireCompletionHooks, Unregister, Return, dbVars
    <2> QED
      BY <1>2, <1>3, <2>1 DEF PersistOutcome, FailedWrite
  <1>6. ASSUME NEW k \in Cancels, CancelPersist(k)
        PROVE  crun[k] = r
    BY <1>2, <1>3, <1>6 DEF CancelPersist, FailedWrite
  <1>7. \/ \E q \in Runs : Enqueue(q)
        \/ \E t \in Tasks : ProcessTask(t)
        \/ \E k \in Cancels : CancelPersist(k)
    BY <1>3 DEF Next, AgeInQueue, AgeWhileActive, Consume, Deliver, Acknowledge, Pod,
        Shutdown, StopConsuming, Crash, Exit, ProcessEnds, Timeout, CancelRun,
        CancelStore, CancelLoad, BrokerRestart, vars, dbVars
  <1> QED
    BY <1>4, <1>5, <1>6, <1>7

(* A row is cancelled by a request that named the run, or by a task past   *)
(* its last write.                                                         *)
LEMMA CancelledByStep ==
  ASSUME Books, CancelledBy, [Next]_vars
  PROVE  CancelledBy'
  <1> SUFFICES ASSUME NEW r \in Runs, status'[r] = "cancelled"
               PROVE  \/ \E k \in Cancels : crun'[k] = r
                      \/ \E t \in Tasks : /\ task'[t].run = r
                                          /\ task'[t].pc \in {"hooks", "exit", "forget", "gone"}
    BY DEF CancelledBy
  <1>1. TypeOK /\ task \in [Tasks -> TaskRec]
    BY DEF Books, TypeOK, WorkerTypeOK
  <1>2. ASSUME NEW k \in Cancels, crun[k] = r PROVE crun'[k] = r
    BY <1>2, CancelNamesStep, ChatRunAssumptions DEF Books
  <1>3. ASSUME NEW t \in Tasks, task[t].run = r, task[t].pc \in {"hooks", "exit", "forget", "gone"}
        PROVE  task'[t].run = r /\ task'[t].pc \in {"hooks", "exit", "forget", "gone"}
    <2>1. ~\E p \in Pods, q \in Runs : Deliver(p, q) /\ t = spawned + 1
      BY <1>3 DEF Books, Assigned, TypeOK, WorkerTypeOK
    <2>2. task'[t].run = r
      BY <1>1, <1>3, <2>1, TaskKeeps
    <2>3. CASE ProcessTask(t)
      BY <1>1, <1>3, <2>3
      DEF ProcessTask, Register, CheckLocal, CheckStored, Activate, Startup,
          StartupFailed, RunnerEnds, PersistOutcome, PersistCompleted,
          FireCompletionHooks, Unregister, Return, Goto, Report, At, TaskRec
    <2>4. CASE \/ task'[t] = task[t]
               \/ task'[t] = [task[t] EXCEPT !.ctx = "done"]
               \/ task'[t] = [task[t] EXCEPT !.ctx = "expired"]
               \/ task'[t] = [task[t] EXCEPT !.pc = "gone", !.ctx = "done"]
      <3>1. task'[t].pc \in {task[t].pc, "gone"}
        BY <1>1, <2>4 DEF TaskRec
      <3> QED
        BY <1>3, <2>2, <3>1
    <2> QED
      BY <1>1, <2>1, <2>2, <2>3, <2>4, TaskEffects DEF TaskEffect
  <1>4. CASE status[r] = "cancelled"
    BY <1>2, <1>3, <1>4 DEF CancelledBy
  <1>5. CASE status[r] # "cancelled"
    <2>1. ASSUME NEW t \in Tasks, PersistOutcome(t), task[t].run = r
          PROVE  task'[t].run = r /\ task'[t].pc = "hooks"
      BY <1>1, <2>1 DEF PersistOutcome, Goto, TaskRec
    <2> QED
      BY <1>2, <1>5, <2>1, CancelWrites
  <1> QED
    BY <1>4, <1>5

(* A task past its look at the recorded intents runs a run that is not     *)
(* cancelled, and every request that named it is yet to call the cancel    *)
(* function or has called it.                                              *)
LEMMA PastCheckStep ==
  ASSUME Books, CancellersExact, Uncancelled, [Next]_vars
  PROVE  PastCheck'
  <1> SUFFICES ASSUME NEW t \in Tasks, faults' = 0, task'[t].pc \in {"checkStored", "activate"},
                      PodAgrees(t)'
               PROVE  /\ status'[task'[t].run] # "cancelled"
                      /\ \A k \in Cancels : crun'[k] = task'[t].run =>
                           cpc'[k] \in {"load", "dispatched"}
    BY DEF PastCheck
  <1>1. /\ TypeOK /\ Assigned /\ CancelNames /\ task \in [Tasks -> TaskRec]
        /\ faults = 0
        /\ cpc \in [Cancels -> {"idle", "load", "persist", "dispatched", "persisted",
                                "notFound", "lost"}]
        /\ crun \in [Cancels -> Runs \cup {NoRun}] /\ cpod \in [Cancels -> Pods \cup {NoPod}]
    BY NothingFailed DEF Books, TypeOK, WorkerTypeOK, CancelTypeOK, Uncancelled
  <1>2. ASSUME NEW p \in Pods, NEW r \in Runs PROVE task'[t] # NewTask(p, r)
    <2>1. NewTask(p, r).pc = "register"
      BY DEF NewTask
    <2> QED
      BY <2>1
  <1>3. /\ task'[t].run = task[t].run /\ task'[t].pod = task[t].pod
        /\ task[t].run \in Runs /\ task[t].pod \in Pods
    <2>1. /\ task'[t].run = task[t].run /\ task'[t].pod = task[t].pod
          /\ task[t].pc # "free"
      BY <1>1, <1>2, TaskKeeps
    <2> QED
      BY <1>1, <2>1 DEF Assigned
  <1>4. PodAgrees(t) /\ \A k \in Cancels : crun[k] = task[t].run => crun'[k] = crun[k]
    BY <1>3, CancelNamesStep, ChatRunAssumptions DEF PodAgrees, Books
  <1>5. \A u \in Tasks : task[u].run = task[t].run => u = t
    BY <1>1, <1>3 DEF Uncancelled, OneDelivery
  <1>6. CASE CheckLocal(t)
    <2>1. /\ task[t].pc = "checkLocal" /\ task[t].run \notin cancelled[task[t].pod]
          /\ status' = status /\ crun' = crun
      BY <1>1, <1>6 DEF CheckLocal, At, Report, TaskRec, dbVars, cancelVars
    <2>2. \A k \in Cancels : crun[k] # task[t].run
      <3>1. SUFFICES ASSUME NEW k \in Cancels, crun[k] = task[t].run PROVE FALSE
        OBVIOUS
      <3>2. cpc[k] # "idle" /\ cpod[k] = task[t].pod
        BY <1>1, <1>3, <1>4, <3>1, ChatRunAssumptions DEF CancelNames, PodAgrees
      <3> QED
        BY <1>1, <1>5, <2>1, <3>1, <3>2 DEF Uncancelled, IntentLasts
    <2>3. status[task[t].run] # "cancelled"
      BY <1>3, <1>5, <2>1, <2>2 DEF Uncancelled, CancelledBy
    <2> QED
      BY <1>3, <2>1, <2>2, <2>3
  <1>7. CASE task[t].pc \in {"checkStored", "activate"}
    <2>1. /\ status[task[t].run] # "cancelled"
          /\ \A k \in Cancels : crun[k] = task[t].run => cpc[k] \in {"load", "dispatched"}
      BY <1>1, <1>4, <1>7 DEF Uncancelled, PastCheck
    <2>2. status'[task[t].run] # "cancelled"
      <3>1. ASSUME NEW k \in Cancels, CancelPersist(k), crun[k] = task[t].run PROVE FALSE
        BY <2>1, <3>1 DEF CancelPersist
      <3>2. ASSUME NEW u \in Tasks, PersistOutcome(u), task[u].run = task[t].run PROVE FALSE
        BY <1>5, <1>7, <3>2 DEF PersistOutcome, At
      <3> QED
        BY <1>3, <2>1, <3>1, <3>2, CancelWrites
    <2>3. cancellers[task[t].pod][task[t].run] = t /\ t # NoTask
      BY <1>3, <1>5, <1>7, ChatRunAssumptions
      DEF CancellersExact, Registered, InFlight, TaskSteps, OnlyTask, NoTask, Tasks
    <2>4. ASSUME NEW k \in Cancels, crun'[k] = task[t].run
          PROVE  cpc'[k] \in {"load", "dispatched"}
      <3>1. ASSUME NEW j \in Cancels, NEW r \in Runs, NEW p \in Pods, CancelStore(j, r, p)
            PROVE  cpc'[k] \in {"load", "dispatched"}
        BY <1>1, <2>1, <2>4, <3>1 DEF CancelStore
      <3>2. ASSUME NEW j \in Cancels, CancelLoad(j)
            PROVE  cpc'[k] \in {"load", "dispatched"}
        <4>1. crun[k] = task[t].run
          BY <2>4, <3>2 DEF CancelLoad
        <4>2. CASE j # k
          BY <1>1, <2>1, <3>2, <4>1, <4>2 DEF CancelLoad
        <4>3. CASE j = k
          <5>1. cpod[k] = task[t].pod
            BY <1>4, <4>1 DEF PodAgrees
          <5>2. cpc' = [cpc EXCEPT ![k] = "dispatched"]
            BY <2>3, <3>2, <4>1, <4>3, <5>1 DEF CancelLoad
          <5> QED
            BY <1>1, <5>2
        <4> QED
          BY <4>2, <4>3
      <3>3. ASSUME NEW j \in Cancels, CancelPersist(j)
            PROVE  cpc'[k] \in {"load", "dispatched"}
        <4>1. crun[k] = task[t].run /\ cpc[j] = "persist"
          BY <2>4, <3>3 DEF CancelPersist
        <4>2. j # k
          BY <2>1, <4>1
        <4> QED
          BY <1>1, <2>1, <3>3, <4>1, <4>2 DEF CancelPersist
      <3>4. CASE UNCHANGED cancelVars
        BY <2>1, <2>4, <3>4 DEF cancelVars
      <3>5. \/ \E j \in Cancels : CancelRun(j)
            \/ UNCHANGED cancelVars
        BY <1>1, NothingFailed
        DEF Next, Enqueue, EnqueueCheck, EnqueueExpire, EnqueueInsert, EnqueuePublish,
            FailEnqueuedRun, AgeInQueue, AgeWhileActive, Consume, Deliver, Acknowledge, Pod,
            Timeout, vars, Uncancelled,
            ProcessTask, Register, CheckLocal, CheckStored, Activate, Startup,
            StartupFailed, RunnerEnds, PersistOutcome, PersistCompleted,
            FireCompletionHooks, Unregister, Return
      <3> QED
        BY <3>1, <3>2, <3>3, <3>4, <3>5 DEF CancelRun
    <2> QED
      BY <1>3, <2>2, <2>4
  <1>8. CheckLocal(t) \/ task[t].pc \in {"checkStored", "activate"}
    <2>1. CASE ProcessTask(t)
      BY <1>1, <2>1
      DEF ProcessTask, Register, CheckLocal, CheckStored, Activate, Startup,
          StartupFailed, RunnerEnds, PersistOutcome, PersistCompleted,
          FireCompletionHooks, Unregister, Return, Goto, Report, At, TaskRec
    <2>2. CASE \/ task'[t] = task[t]
               \/ task'[t] = [task[t] EXCEPT !.ctx = "done"]
               \/ task'[t] = [task[t] EXCEPT !.ctx = "expired"]
               \/ task'[t] = [task[t] EXCEPT !.pc = "gone", !.ctx = "done"]
      BY <1>1, <2>2 DEF TaskRec
    <2> QED
      BY <1>1, <1>2, <2>1, <2>2, TaskEffects DEF TaskEffect
  <1> QED
    BY <1>6, <1>7, <1>8

(* A step that makes a row active is an activation, by a task that passed  *)
(* both checks.                                                            *)
LEMMA ActivatedBy ==
  ASSUME Books, [Next]_vars, NEW r \in Runs, status[r] = "cancelled", status'[r] = "active"
  PROVE  \E t \in Tasks : Activate(t) /\ task[t].run = r
  <1>1. status \in [Runs -> RunStatus]
    BY DEF Books, TypeOK, DbTypeOK
  <1>2. \A q, s : SetStatus(q, s) => q = r /\ s = "active"
    BY <1>1 DEF SetStatus
  <1>3. status' # status
    OBVIOUS
  <1>4. ASSUME NEW q \in Runs, Enqueue(q) PROVE FALSE
    BY <1>2, <1>3, <1>4 DEF Enqueue, EnqueueCheck, EnqueueExpire, EnqueueInsert,
       EnqueuePublish, FailEnqueuedRun, FailedWrite, dbVars
  <1>5. ASSUME NEW t \in Tasks, ProcessTask(t)
        PROVE  Activate(t) /\ task[t].run = r
    <2>1. ~PersistOutcome(t)
      <3>1. PersistOutcome(t) => task[t].out \in Terminal
        BY DEF PersistOutcome, At, Books, OutcomeSet
      <3>2. PersistOutcome(t) => task[t].out = "active"
        BY <1>2, <1>3 DEF PersistOutcome, FailedWrite
      <3> QED
        BY <3>1, <3>2 DEF Terminal
    <2>2. Activate(t)
      BY <1>2, <1>3, <1>5, <2>1
      DEF ProcessTask, Register, CheckLocal, CheckStored, Startup,
          StartupFailed, RunnerEnds, PersistCompleted, FailedWrite,
          FireCompletionHooks, Unregister, Return, dbVars
    <2> QED
      BY <1>2, <1>3, <2>2 DEF Activate
  <1>6. ASSUME NEW k \in Cancels, CancelPersist(k)
        PROVE  FALSE
    BY <1>2, <1>3, <1>6 DEF CancelPersist, FailedWrite
  <1>7. \/ \E q \in Runs : Enqueue(q)
        \/ \E t \in Tasks : ProcessTask(t)
        \/ \E k \in Cancels : CancelPersist(k)
    BY <1>3 DEF Next, AgeInQueue, AgeWhileActive, Consume, Deliver, Acknowledge, Pod,
        Shutdown, StopConsuming, Crash, Exit, ProcessEnds, Timeout, CancelRun,
        CancelStore, CancelLoad, BrokerRestart, vars, dbVars
  <1> QED
    BY <1>4, <1>5, <1>6, <1>7

(* What the cancels of an undisturbed executor rely on holds throughout.   *)
THEOREM UncancelledKept == Spec => [](Books /\ CancellersExact /\ Uncancelled)
  <1>1. Init => CancellersExact /\ Uncancelled
    BY ChatRunAssumptions DEF Init, CancellersExact, Registered, InFlight, TaskSteps, NoTask,
       Tasks, Uncancelled, PodsUp, OneDelivery, IntentLasts, CancelledBy, PastCheck
  <1>2. Books /\ CancellersExact /\ Uncancelled /\ [Next]_vars
        => Books' /\ CancellersExact' /\ Uncancelled'
    <2> SUFFICES ASSUME Books, CancellersExact, Uncancelled, [Next]_vars
                 PROVE  Books' /\ CancellersExact' /\ Uncancelled'
      OBVIOUS
    <2>1. TypeOK /\ PodsUp /\ OneDelivery /\ IntentLasts /\ CancelledBy
      BY DEF Books, Uncancelled
    <2>2. PodsUp' /\ OneDelivery' /\ IntentLasts' /\ CancelledBy' /\ PastCheck'
      BY <2>1, PodsUpStep, OneDeliveryStep, IntentLastsStep, CancelledByStep, PastCheckStep
    <2> QED
      BY <2>2, StepBooks, CancellersStep DEF Uncancelled
  <1> QED
    BY <1>1, <1>2, InitBooks, PTL DEF Spec

(* A cancelled run is never taken up again where nothing failed and its    *)
(* cancels reached the pod that works on it.                               *)
THEOREM CancelledStays == Spec => NoResurrection
  <1>1. ASSUME Books, Uncancelled, [Next]_vars, NEW r \in Runs,
               status[r] = "cancelled", faults = 0,
               \A t \in Tasks, k \in Cancels :
                 task[t].run = r /\ crun[k] = r => cpod[k] = task[t].pod
        PROVE  status'[r] # "active"
    <2>1. SUFFICES ASSUME NEW t \in Tasks, Activate(t), task[t].run = r PROVE FALSE
      BY <1>1, ActivatedBy
    <2>2. task[t].pc = "activate" /\ PodAgrees(t)
      BY <1>1, <2>1 DEF Activate, At, PodAgrees
    <2> QED
      BY <1>1, <2>1, <2>2 DEF Uncancelled, PastCheck
  <1>2. Books /\ Uncancelled /\ [Next]_vars =>
          [\A r \in Runs :
             /\ status[r] = "cancelled" /\ faults = 0
             /\ \A t \in Tasks, k \in Cancels :
                  task[t].run = r /\ crun[k] = r => cpod[k] = task[t].pod
             => status'[r] # "active"]_vars
    BY <1>1
  <1> QED
    BY <1>2, UncancelledKept, PTL DEF Spec, NoResurrection

-----------------------------------------------------------------------------
(* Runs that nothing disturbs.                                             *)

(* Nothing failed, nothing timed out or went stale, nobody cancelled.      *)
Calm == faults = 0 /\ ~TimePasses /\ \A k \in Cancels : crun[k] = NoRun

Waiting == {"register", "checkLocal", "checkStored", "activate"}
Working == {"startup", "startupFailed", "run", "persistFailed", "persistCompleted"}
Over == {"hooks", "exit", "forget", "gone"}

(* Where the request, the message or the task of a run is tells what its   *)
(* row says.                                                               *)
RowFollows(r) ==
  /\ enq[r] \in {"idle", "insert", "publish", "accepted"}
  /\ enq[r] \in {"idle", "insert"} => status[r] = "none"
  /\ enq[r] = "publish" \/ queue[r] = 1 => status[r] = "queued"
  /\ \A t \in Tasks : task[t].run = r =>
       /\ task[t].ctx = "live" \/ task[t].pc = "gone"
       /\ task[t].pc \in Waiting => status[r] = "queued"
       /\ task[t].pc \in Working => status[r] = "active"
       /\ task[t].pc \in Over => status[r] \in Terminal
       /\ task[t].pc # "persistCancelled"
  /\ status[r] = "active" => \E t \in Tasks : task[t].run = r

CalmRows ==
  Calm => /\ \A p \in Pods : cancelled[p] = {}
          /\ \A r \in Runs : ~queueAged[r] /\ ~runAged[r]
          /\ \A r \in Runs : RowFollows(r)

(* While nothing disturbs the runs only requests, the consumer and the     *)
(* goroutines take steps.                                                  *)
LEMMA CalmSteps ==
  ASSUME Books, PodsUp, CalmRows, [Next]_vars, Calm'
  PROVE  /\ Calm
         /\ \/ \E r \in Runs, p \in Pods : EnqueueCheck(r, p)
            \/ \E r \in Runs : EnqueueInsert(r) \/ EnqueuePublish(r)
            \/ \E p \in Pods, r \in Runs : Deliver(p, r)
            \/ \E p \in Pods : Acknowledge(p)
            \/ \E t \in Tasks : ProcessTask(t)
            \/ UNCHANGED vars
  <1>1. TypeOK /\ CancelNames /\ crun \in [Cancels -> Runs \cup {NoRun}]
        /\ cpc \in [Cancels -> {"idle", "load", "persist", "dispatched", "persisted",
                                "notFound", "lost"}]
    BY DEF Books, TypeOK, CancelTypeOK
  <1>2. Calm
    BY <1>1, NothingFailed, CancelNamesStep, ChatRunAssumptions DEF Calm
  <1>3. ~TimePasses /\ \A k \in Cancels : cpc[k] = "idle"
    BY <1>1, <1>2, ChatRunAssumptions DEF Calm, CancelNames
  <1>4. ASSUME NEW k \in Cancels, CancelRun(k) PROVE FALSE
    <2>1. ~CancelLoad(k) /\ ~CancelPersist(k)
      BY <1>3 DEF CancelLoad, CancelPersist
    <2>2. ASSUME NEW r \in Runs, NEW p \in Pods, CancelStore(k, r, p) PROVE FALSE
      BY <1>1, <2>2, ChatRunAssumptions DEF CancelStore, Calm
    <2> QED
      BY <1>4, <2>1, <2>2 DEF CancelRun
  <1>5. \A r \in Runs : enq[r] \in {"idle", "insert", "publish", "accepted"}
    BY <1>2 DEF CalmRows, RowFollows
  <1>6. \A r \in Runs : ~EnqueueExpire(r) /\ ~FailEnqueuedRun(r) /\ ~AgeInQueue(r)
                        /\ ~AgeWhileActive(r)
    BY <1>3, <1>5 DEF EnqueueExpire, FailEnqueuedRun, AgeInQueue, AgeWhileActive
  <1>7. \A t \in Tasks : ~Timeout(t)
    BY <1>3 DEF Timeout
  <1>8. faults' = 0
    BY DEF Calm
  <1> QED
    BY <1>1, <1>2, <1>4, <1>6, <1>7, <1>8, NothingFailed DEF Next, Enqueue, Consume, Pod

(* On a calm system the row of a run follows its request, its place in     *)
(* the queue and its only task.                                            *)
LEMMA CalmRowsStep ==
  ASSUME Books, OneLivePerSession, PodsUp, OneDelivery, CalmRows, [Next]_vars
  PROVE  CalmRows'
  <1> SUFFICES ASSUME Calm'
               PROVE  /\ \A p \in Pods : cancelled'[p] = {}
                      /\ \A r \in Runs : ~queueAged'[r] /\ ~runAged'[r]
                      /\ \A r \in Runs : RowFollows(r)'
    BY DEF CalmRows
  <1>1. /\ TypeOK /\ Assigned /\ task \in [Tasks -> TaskRec]
        /\ status \in [Runs -> RunStatus] /\ queue \in [Runs -> Nat]
        /\ cancelled \in [Pods -> SUBSET Runs] /\ spawned \in Nat
        /\ enq \in [Runs -> {"idle", "expire", "insert", "publish", "undelivered",
                             "accepted", "unavailable", "lost"}]
    BY DEF Books, TypeOK, WorkerTypeOK, DbTypeOK, BrokerTypeOK, EnqTypeOK
  <1>2. /\ Calm /\ faults = 0 /\ faults' = 0 /\ NoFault /\ ~Fault
        /\ \A p \in Pods : cancelled[p] = {}
        /\ \A r \in Runs : ~queueAged[r] /\ ~runAged[r]
        /\ \A r \in Runs : RowFollows(r)
    BY <1>1, CalmSteps, NothingFailed DEF CalmRows, Calm
  <1>3. /\ \A r \in Runs : queue[r] <= 1
        /\ \A r \in Runs : queue[r] = 1 => \A t \in Tasks : task[t].run # r
        /\ \A t, u \in Tasks : task[t].run = task[u].run /\ task[t].run \in Runs => t = u
    BY <1>2 DEF OneDelivery
  <1>4. ASSUME NEW q \in Runs, NEW p \in Pods, EnqueueCheck(q, p)
        PROVE  \A r \in Runs : RowFollows(r)'
    <2>1. \A o \in Runs : ~Stale(o)
      BY <1>2 DEF Stale
    <2>2. /\ enq[q] = "idle" /\ enq' = [enq EXCEPT ![q] = "insert"]
          /\ UNCHANGED <<status, queue, task>>
      BY <1>4, <2>1 DEF EnqueueCheck, dbVars, brokerVars, workerVars
    <2> QED
      BY <1>1, <1>2, <2>2 DEF RowFollows
  <1>5. ASSUME NEW q \in Runs, EnqueueInsert(q)
        PROVE  \A r \in Runs : RowFollows(r)'
    <2>1. /\ enq[q] = "insert" /\ UNCHANGED <<queue, task>>
          /\ \/ enq' = [enq EXCEPT ![q] = "publish"] /\ status' = [status EXCEPT ![q] = "queued"]
             \/ enq' = [enq EXCEPT ![q] = "idle"] /\ status' = status
      BY <1>2, <1>5 DEF EnqueueInsert, SetStatus, brokerVars, workerVars
    <2>2. queue[q] = 0 /\ \A t \in Tasks : task[t].run # q
      BY <1>1, <2>1 DEF Books, Published, Sent
    <2> QED
      BY <1>1, <1>2, <2>1, <2>2 DEF RowFollows
  <1>6. ASSUME NEW q \in Runs, EnqueuePublish(q)
        PROVE  \A r \in Runs : RowFollows(r)'
    <2>1. /\ enq[q] = "publish" /\ enq' = [enq EXCEPT ![q] = "accepted"]
          /\ queue' = [queue EXCEPT ![q] = queue[q] + 1] /\ UNCHANGED <<status, task>>
      BY <1>2, <1>6 DEF EnqueuePublish, dbVars, workerVars
    <2> QED
      BY <1>1, <1>2, <2>1 DEF RowFollows
  <1>7. ASSUME NEW p \in Pods, NEW q \in Runs, Deliver(p, q)
        PROVE  \A r \in Runs : RowFollows(r)'
    <2>1. /\ queue' = [queue EXCEPT ![q] = queue[q] - 1] /\ UNCHANGED <<status, enq>>
          /\ task' = [task EXCEPT ![spawned + 1] = NewTask(p, q)] /\ queue[q] = 1
      BY <1>1, <1>3, <1>7 DEF Deliver, NewTask, dbVars, enqVars
    <2>2. status[q] = "queued" /\ \A t \in Tasks : task[t].run # q
      BY <1>2, <1>3, <2>1 DEF RowFollows
    <2>3. ASSUME NEW r \in Runs PROVE RowFollows(r)'
      <3>1. \A t \in Tasks : task'[t] = IF t = spawned + 1 THEN NewTask(p, q) ELSE task[t]
        BY <1>1, <2>1
      <3>2. /\ NewTask(p, q).run = q /\ NewTask(p, q).pc = "register"
            /\ NewTask(p, q).ctx = "live"
        BY DEF NewTask
      <3>3. queue'[r] = 1 => queue[r] = 1
        BY <1>1, <2>1
      <3>4. RowFollows(r) /\ UNCHANGED <<status, enq>>
        BY <1>2, <2>1
      <3>5. ASSUME NEW t \in Tasks, task'[t].run = r
            PROVE  /\ task'[t].ctx = "live" \/ task'[t].pc = "gone"
                   /\ task'[t].pc \in Waiting => status[r] = "queued"
                   /\ task'[t].pc \in Working => status[r] = "active"
                   /\ task'[t].pc \in Over => status[r] \in Terminal
                   /\ task'[t].pc # "persistCancelled"
        <4>1. CASE t = spawned + 1
          BY <2>2, <3>1, <3>2, <3>5, <4>1 DEF Waiting, Working, Over
        <4>2. CASE t # spawned + 1
          BY <3>1, <3>4, <3>5, <4>2 DEF RowFollows
        <4> QED
          BY <4>1, <4>2
      <3>6. status[r] = "active" => \E t \in Tasks : task'[t].run = r
        <4>1. SUFFICES ASSUME status[r] = "active" PROVE \E t \in Tasks : task'[t].run = r
          OBVIOUS
        <4>2. PICK t \in Tasks : task[t].run = r
          BY <3>4, <4>1 DEF RowFollows
        <4>3. t # spawned + 1
          BY <1>1, <4>2, ChatRunAssumptions DEF Assigned
        <4> QED
          BY <3>1, <4>2, <4>3
      <3> QED
        BY <3>3, <3>4, <3>5, <3>6 DEF RowFollows
    <2> QED
      BY <2>3
  <1>8. ASSUME NEW p \in Pods, Acknowledge(p)
        PROVE  \A r \in Runs : RowFollows(r)'
    <2>1. UNCHANGED <<status, enq, queue, task>>
      BY <1>2, <1>8 DEF Acknowledge, dbVars, enqVars, workerVars
    <2> QED
      BY <1>2, <2>1 DEF RowFollows
  <1>9. ASSUME NEW t \in Tasks, ProcessTask(t)
        PROVE  \A r \in Runs : RowFollows(r)'
    <2>1. /\ task[t].run \in Runs /\ task[t].pod \in Pods /\ InFlight(t)
          /\ task'[t].run = task[t].run
          /\ \A u \in Tasks \ {t} : task'[u] = task[u]
      <3>1. /\ InFlight(t) /\ task'[t].run = task[t].run
            /\ \A u \in Tasks \ {t} : task'[u] = task[u]
        BY <1>1, <1>9, OwnStep
      <3>2. task[t].pc # "free"
        BY <3>1 DEF InFlight, TaskSteps
      <3> QED
        BY <1>1, <3>1, <3>2 DEF Assigned
    <2>2. RowFollows(task[t].run) /\ task[t].ctx = "live"
      BY <1>2, <2>1 DEF RowFollows, InFlight, TaskSteps
    <2>3. UNCHANGED <<enq, queue>>
      BY <1>9
      DEF ProcessTask, Register, CheckLocal, CheckStored, Activate, Startup,
          StartupFailed, RunnerEnds, PersistOutcome, PersistCompleted,
          FireCompletionHooks, Unregister, Return, enqVars, brokerVars
    <2>4. /\ task'[t].ctx = "live" \/ task'[t].pc = "gone"
          /\ task'[t].pc \in Waiting => status'[task[t].run] = "queued"
          /\ task'[t].pc \in Working => status'[task[t].run] = "active"
          /\ task'[t].pc \in Over => status'[task[t].run] \in Terminal
          /\ task'[t].pc # "persistCancelled"
          /\ \A q \in Runs : q # task[t].run => status'[q] = status[q]
      <3> DEFINE r == task[t].run
      <3>1. CASE Register(t) \/ CheckLocal(t) \/ CheckStored(t)
        <4>1. /\ task'[t].pc \in {"checkLocal", "checkStored", "activate"}
              /\ task'[t].ctx = "live" /\ status' = status /\ status[r] = "queued"
          <5>1. task[t].pc \in {"register", "checkLocal", "checkStored"}
            BY <3>1 DEF Register, CheckLocal, CheckStored, At
          <5>2. status[r] = "queued" /\ cancelled[task[t].pod] = {}
            BY <1>2, <2>1, <2>2, <5>1 DEF RowFollows, Waiting
          <5>3. CASE Register(t)
            BY <1>1, <2>2, <5>2, <5>3 DEF Register, Goto, TaskRec, dbVars
          <5>4. CASE CheckLocal(t)
            BY <1>1, <2>2, <5>2, <5>4 DEF CheckLocal, Goto, TaskRec, dbVars
          <5>5. CASE CheckStored(t)
            BY <1>1, <2>2, <5>2, <5>5 DEF CheckStored, Goto, TaskRec, dbVars
          <5> QED
            BY <3>1, <5>3, <5>4, <5>5
        <4> QED
          BY <4>1 DEF Waiting, Working, Over
      <3>2. CASE Activate(t)
        <4>1. status[r] = "queued"
          BY <2>1, <2>2, <3>2 DEF Activate, At, RowFollows, Waiting
        <4>2. IndexAllows(r)
          BY <2>1, <4>1 DEF IndexAllows, OneLivePerSession, Live
        <4>3. SetStatus(r, "active")
          BY <1>2, <2>2, <3>2, <4>2 DEF Activate
        <4>4. task'[t].pc = "startup" /\ task'[t].ctx = "live"
          BY <1>1, <2>2, <3>2 DEF Activate, Goto, TaskRec
        <4> QED
          BY <1>1, <2>1, <4>3, <4>4 DEF SetStatus, Waiting, Working, Over
      <3>3. CASE Startup(t) \/ RunnerEnds(t)
        <4>1. status[r] = "active" /\ status' = status
          BY <2>1, <2>2, <3>3 DEF Startup, RunnerEnds, At, RowFollows, Working, dbVars
        <4>2. task'[t].pc \in {"run", "startupFailed", "persistFailed", "persistCompleted"}
              /\ task'[t].ctx = "live"
          BY <1>1, <2>2, <3>3 DEF Startup, RunnerEnds, Goto, Report, TaskRec
        <4> QED
          BY <4>1, <4>2 DEF Waiting, Working, Over
      <3>4. CASE StartupFailed(t) \/ PersistOutcome(t)
        <4>1. PICK s \in Terminal : SetStatus(r, s)
          <5>1. task[t].out \in Terminal \/ StartupFailed(t)
            BY <3>4 DEF PersistOutcome, At, Books, OutcomeSet
          <5> QED
            BY <1>2, <2>2, <3>4, <5>1 DEF StartupFailed, PersistOutcome, FailedWrite, Terminal
        <4>2. task'[t].pc \in {"exit", "hooks"} /\ task'[t].ctx = "live"
          BY <1>1, <2>2, <3>4 DEF StartupFailed, PersistOutcome, Goto, TaskRec
        <4> QED
          BY <1>1, <2>1, <4>1, <4>2 DEF SetStatus, Waiting, Working, Over
      <3>5. CASE PersistCompleted(t)
        <4>1. Goto(t, "hooks") /\ SetStatus(r, "completed")
          BY <1>2, <3>5 DEF PersistCompleted, FailedWrite
        <4>2. task'[t].pc = "hooks" /\ task'[t].ctx = "live"
          BY <1>1, <2>2, <4>1 DEF Goto, TaskRec
        <4> QED
          BY <1>1, <2>1, <4>1, <4>2 DEF SetStatus, Waiting, Working, Over, Terminal
      <3>6. CASE FireCompletionHooks(t) \/ Unregister(t) \/ Return(t)
        <4>1. status[r] \in Terminal /\ status' = status
          BY <2>1, <2>2, <3>6 DEF FireCompletionHooks, Unregister, Return, At, RowFollows,
             Over, dbVars
        <4>2. task'[t].pc \in {"exit", "forget", "gone"}
              /\ (task'[t].ctx = "live" \/ task'[t].pc = "gone")
          BY <1>1, <2>2, <3>6 DEF FireCompletionHooks, Unregister, Return, Goto, TaskRec
        <4> QED
          BY <4>1, <4>2 DEF Waiting, Working, Over
      <3> QED
        BY <1>9, <3>1, <3>2, <3>3, <3>4, <3>5, <3>6 DEF ProcessTask
    <2>5. queue[task[t].run] # 1
      BY <1>3, <2>1
    <2>6. enq[task[t].run] = "accepted"
      <3>1. enq[task[t].run] \in {"accepted", "undelivered", "unavailable", "lost"}
        BY <2>1 DEF Books, Published, Sent
      <3> QED
        BY <2>2, <3>1 DEF RowFollows
    <2>7. ASSUME NEW r \in Runs, r = task[t].run PROVE RowFollows(r)'
      <3>1. \A u \in Tasks : task'[u].run = r => u = t
        BY <1>3, <2>1, <2>7
      <3> QED
        BY <2>1, <2>3, <2>4, <2>5, <2>6, <2>7, <3>1 DEF RowFollows
    <2>8. ASSUME NEW r \in Runs, r # task[t].run PROVE RowFollows(r)'
      <3>1. \A u \in Tasks : task'[u].run = r <=> task[u].run = r
        BY <2>1, <2>8
      <3>2. \A u \in Tasks : task[u].run = r => task'[u] = task[u]
        BY <2>1, <2>8
      <3>3. RowFollows(r) /\ status'[r] = status[r] /\ UNCHANGED <<enq, queue>>
        BY <1>2, <2>3, <2>4, <2>8
      <3> QED
        BY <3>1, <3>2, <3>3 DEF RowFollows
    <2> QED
      BY <2>7, <2>8
  <1>10. CASE UNCHANGED vars
    BY <1>2, <1>10 DEF vars, dbVars, enqVars, brokerVars, workerVars, RowFollows
  <1>11. \A r \in Runs : RowFollows(r)'
    BY <1>4, <1>5, <1>6, <1>7, <1>8, <1>9, <1>10, CalmSteps
  <1>12. \A p \in Pods : cancelled'[p] = {}
    <2>1. ASSUME NEW t \in Tasks, ProcessTask(t) PROVE \A p \in Pods : cancelled'[p] = {}
      BY <1>1, <1>2, <2>1
      DEF ProcessTask, Register, CheckLocal, CheckStored, Activate, Startup,
          StartupFailed, RunnerEnds, PersistOutcome, PersistCompleted,
          FireCompletionHooks, Unregister, Return
    <2>2. CASE UNCHANGED cancelled
      BY <1>2, <2>2
    <2> QED
      BY <2>1, <2>2, CalmSteps
      DEF EnqueueCheck, EnqueueInsert, EnqueuePublish, Deliver, Acknowledge, vars, workerVars
  <1>13. UNCHANGED <<queueAged, runAged>>
    BY CalmSteps
    DEF EnqueueCheck, EnqueueInsert, EnqueuePublish, Deliver, Acknowledge, vars, dbVars,
        ProcessTask, Register, CheckLocal, CheckStored, Activate, Startup,
        StartupFailed, RunnerEnds, PersistOutcome, PersistCompleted,
        FireCompletionHooks, Unregister, Return
  <1> QED
    BY <1>2, <1>11, <1>12, <1>13

(* So an undisturbed executor has the rows, the messages and the           *)
(* goroutines in step.                                                     *)
THEOREM CalmKept == Spec => [](Books /\ OneLivePerSession /\ PodsUp /\ OneDelivery /\ CalmRows)
  <1>1. Init => PodsUp /\ OneDelivery /\ CalmRows
    BY ChatRunAssumptions
    DEF Init, PodsUp, OneDelivery, CalmRows, RowFollows, Waiting, Working, Over
  <1>2. Books /\ OneLivePerSession /\ PodsUp /\ OneDelivery /\ CalmRows /\ [Next]_vars
        => Books' /\ OneLivePerSession' /\ PodsUp' /\ OneDelivery' /\ CalmRows'
    <2> SUFFICES ASSUME Books, OneLivePerSession, PodsUp, OneDelivery, CalmRows, [Next]_vars
                 PROVE  Books' /\ OneLivePerSession' /\ PodsUp' /\ OneDelivery' /\ CalmRows'
      OBVIOUS
    <2>1. TypeOK /\ OutcomeSet
      BY DEF Books
    <2>2. PodsUp' /\ OneDelivery' /\ CalmRows'
      BY <2>1, PodsUpStep, OneDeliveryStep, CalmRowsStep
    <2> QED
      BY <2>1, <2>2, StepBooks, StepOneLive
  <1>3. Init => Books /\ OneLivePerSession
    BY InitBooks, InitRunInv DEF RunInv
  <1> QED
    BY <1>1, <1>2, <1>3, PTL DEF Spec

(* Two runners never work on the same session as long as nothing failed,   *)
(* nothing timed out and nobody cancelled.                                 *)
THEOREM CalmRunnersApart == Spec => [](Calm => NoConcurrentRunners)
  <1>1. ASSUME Books, OneLivePerSession, OneDelivery, CalmRows, Calm
        PROVE  NoConcurrentRunners
    <2> SUFFICES ASSUME NEW t \in Tasks, NEW u \in Tasks, t # u, At(t, "run"), At(u, "run")
                 PROVE  SessionOf[task[t].run] # SessionOf[task[u].run]
      BY DEF NoConcurrentRunners
    <2>1. task[t].run \in Runs /\ task[u].run \in Runs
      <3>1. task[t].pc = "run" /\ task[u].pc = "run"
        BY DEF At
      <3> QED
        BY <1>1, <3>1 DEF Books, Assigned
    <2>2. task[t].run # task[u].run
      BY <1>1, <2>1 DEF OneDelivery, Calm
    <2>3. status[task[t].run] = "active" /\ status[task[u].run] = "active"
      BY <1>1, <2>1 DEF CalmRows, RowFollows, Working, At
    <2> QED
      BY <1>1, <2>1, <2>2, <2>3 DEF OneLivePerSession, Live
  <1>2. Books /\ OneLivePerSession /\ PodsUp /\ OneDelivery /\ CalmRows
        => (Calm => NoConcurrentRunners)
    BY <1>1
  <1> QED
    BY <1>2, CalmKept, PTL

(* And every run that the table shows as active has a goroutine that will  *)
(* still write its outcome.                                                *)
THEOREM CalmActiveHasWorker == Spec => [](Calm => ActiveHasWorker)
  <1>1. ASSUME Books, CalmRows, Calm
        PROVE  ActiveHasWorker
    <2> SUFFICES ASSUME NEW r \in Runs, status[r] = "active"
                 PROVE  \E t \in Tasks : /\ task[t].run = r /\ InFlight(t)
                                         /\ task[t].pc \notin {"hooks", "exit", "forget"}
      BY DEF ActiveHasWorker
    <2>1. PICK t \in Tasks : task[t].run = r
      BY <1>1 DEF CalmRows, RowFollows
    <2>2. task[t].pc \notin Over
      BY <1>1, <2>1 DEF CalmRows, RowFollows, Terminal
    <2>3. task[t].pc # "free" /\ task[t].pc \in TaskSteps \cup {"free", "gone"}
      BY <1>1, <2>1, ChatRunAssumptions DEF Books, Assigned, TypeOK, WorkerTypeOK, TaskRec
    <2> QED
      BY <2>1, <2>2, <2>3 DEF InFlight, Over
  <1>2. Books /\ OneLivePerSession /\ PodsUp /\ OneDelivery /\ CalmRows
        => (Calm => ActiveHasWorker)
    BY <1>1
  <1> QED
    BY <1>2, CalmKept, PTL
=============================================================================
