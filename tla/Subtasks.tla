------------------------------ MODULE Subtasks ------------------------------
(***************************************************************************)
(* The sub-agents of one turn (agentic/subtask.go): ExecuteParallel starts *)
(* a goroutine per call behind a semaphore; each runs a child loop within  *)
(* what is left of the budget when it starts.  CoordinatorState keeps a    *)
(* task per sub-agent and writes it through to the database with the       *)
(* context of the run; AgentMailbox carries messages between sub-agents.   *)
(* The parent then adds what its sub-agents report to its own cost.        *)
(*                                                                         *)
(* A child has a SubtaskExecutor of its own, and sub-agents in its turns,  *)
(* until the depth limit.  This module is one level; of the level below it *)
(* is assumed that the sub-agents of one turn, with b left when they       *)
(* start, cost at most NestedShare * b + NestedSlack.  OverspendBounded    *)
(* says the same of this level, with other numbers, so that it follows for *)
(* every depth: at the limit both are 0.                                   *)
(***************************************************************************)
EXTENDS Naturals, Sequences, FiniteSets, FiniteSetsExt

CONSTANTS Subs,           \* the agent calls of the turn
          SubagentSlots,  \* capacity of the semaphore (3)
          Budget,         \* effectiveBudget of the parent
          InitialCost,    \* totalCost of the parent before the turn
          Unit,           \* cost steps in the micro-dollar the tracker counts in
          MaxTurnCost,    \* what one call of the model may cost
          TurnCosts,      \* bound: the costs of calls that are explored
          NestedShare,    \* what the sub-agents of one turn of a child may
          NestedSlack,    \*   cost, of what it has left and in any case
          NestedCosts,    \* bound: the costs of theirs that are explored
          MaxChildTurns,  \* iterations of a child
          MaxIncidents    \* bound: send_message calls and failing writes of tasks

ASSUME SubtasksAssumptions ==
  /\ IsFiniteSet(Subs)
  /\ SubagentSlots \in Nat \ {0} /\ MaxTurnCost \in Nat \ {0}
  /\ Budget \in Nat \ {0} /\ InitialCost \in 0 .. Budget /\ Unit \in Nat \ {0}
  /\ TurnCosts \subseteq 0 .. MaxTurnCost
  /\ NestedShare \in Nat /\ NestedSlack \in Nat /\ NestedCosts \subseteq Nat
  /\ MaxChildTurns \in Nat /\ MaxIncidents \in Nat

VARIABLES
  sub,       \* per call: where its goroutine is
  failed,    \* per call: childErr is set
  grant,     \* per call: remainingBudget of the child
  total,     \* per call: totalCost of the child
  childTurn, \* per call: turnIndex of the child
  reported,  \* per call: SubtaskCostUSD of the result
  costAccum, \* cost of the sub-agents that have ended, in whole micro-dollars
  rollup,    \* the turn of the parent: "open", then "charged" or "escalated"
  parentCost, \* totalCost of the parent
  runCtx,    \* "live" or "ended"
  task,      \* CoordinatorState: status per call
  taskRow,   \* coordinator_task row per call
  notified,  \* notifications per call
  mailbox,   \* AgentMailbox: messages [to, read]
  \* History.
  got,       \* per call: the messages it has read
  used,      \* per call: what the child and its sub-agents have cost
  escalated, \* the calls whose child ended with denial_escalation
  writeFaults

costVars == <<total, reported, costAccum, used, escalated>>
parentVars == <<rollup, parentCost>>
childVars == <<sub, failed, grant, childTurn, costVars>>
taskVars == <<task, taskRow, notified>>
mailVars == <<mailbox, got>>
subVars == <<childVars, parentVars, runCtx, taskVars, mailVars, writeFaults>>

(* What the tracker makes of a cost: int64(cost * 1_000_000).              *)
Truncated(cost) == cost - (cost % Unit)

SubtasksInit ==
  /\ sub = [i \in Subs |-> "waiting"] /\ failed = [i \in Subs |-> FALSE]
  /\ grant = [i \in Subs |-> 0] /\ childTurn = [i \in Subs |-> 0]
  /\ total = [i \in Subs |-> 0] /\ used = [i \in Subs |-> 0]
  /\ reported = [i \in Subs |-> 0] /\ escalated = {}
  /\ costAccum = Truncated(InitialCost) /\ runCtx = "live"
  /\ rollup = "open" /\ parentCost = InitialCost
  /\ task = [i \in Subs |-> "none"] /\ taskRow = [i \in Subs |-> "none"]
  /\ notified = [i \in Subs |-> 0]
  /\ mailbox = <<>> /\ got = [i \in Subs |-> {}]
  /\ writeFaults = 0

Incident == Len(mailbox) + writeFaults < MaxIncidents
Active == {i \in Subs : sub[i] \notin {"waiting", "done"}}

-----------------------------------------------------------------------------
(* A status change of a task is kept in memory and written to its row; a   *)
(* write that fails, and every write once the context has ended, is only   *)
(* logged, and an update of a row that was never inserted changes nothing. *)
SetTask(i, status, ok) ==
  /\ IF ok THEN runCtx = "live" ELSE runCtx = "ended" \/ Incident
  /\ writeFaults' = writeFaults + (IF ~ok /\ runCtx = "live" THEN 1 ELSE 0)
  /\ task' = [task EXCEPT ![i] = status]
  /\ taskRow' = IF ok /\ (status = "pending" \/ taskRow[i] # "none")
                THEN [taskRow EXCEPT ![i] = status] ELSE taskRow

(* The child ends after a call of the given cost.  Its last event reports  *)
(* all it has counted, failed or not; the goroutine settles the task, adds *)
(* that to the tracker in whole micro-dollars and frees its slot.          *)
SuccessOnly(cost, err) == IF err THEN 0 ELSE cost   \* mutant
ReportedCost(cost, err) == cost
EndSubtask(i, err, cost, ok) ==
  /\ SetTask(i, IF err THEN "failed" ELSE "completed", ok)
  /\ notified' = [notified EXCEPT ![i] = @ + 1]
  /\ sub' = [sub EXCEPT ![i] = "done"]
  /\ failed' = [failed EXCEPT ![i] = err]
  /\ total' = [total EXCEPT ![i] = @ + cost]
  /\ reported' = [reported EXCEPT ![i] = ReportedCost(total[i] + cost, err)]
  /\ costAccum' = costAccum + Truncated(ReportedCost(total[i] + cost, err))
  /\ UNCHANGED <<grant, childTurn, parentVars, runCtx, mailVars>>

(* Acquire the semaphore, read the cost so far and create the task, which  *)
(* is then assigned; the child is granted the rest of the budget, and does *)
(* not run without one.  Bad arguments, or too deep a nesting, end the     *)
(* call before a task exists.                                              *)
NoSemaphore == TRUE   \* mutant: no semaphore
SlotFree == Cardinality(Active) < SubagentSlots
StartSubtask(i, ok) ==
  /\ sub[i] = "waiting" /\ SlotFree
  /\ sub' = [sub EXCEPT ![i] = "created"]
  /\ grant' = [grant EXCEPT ![i] = IF costAccum < Budget THEN Budget - costAccum ELSE 0]
  /\ SetTask(i, "pending", ok)
  /\ UNCHANGED <<failed, childTurn, costVars, parentVars, runCtx, notified, mailVars>>
AssignTask(i, ok) ==
  /\ sub[i] = "created"
  /\ sub' = [sub EXCEPT ![i] = IF grant[i] > 0 THEN "top" ELSE "unfunded"]
  /\ SetTask(i, "in_progress", ok)
  /\ UNCHANGED <<failed, grant, childTurn, costVars, parentVars, runCtx, notified, mailVars>>
InvalidCall(i) ==
  /\ sub[i] = "waiting" /\ SlotFree
  /\ sub' = [sub EXCEPT ![i] = "done"]
  /\ failed' = [failed EXCEPT ![i] = TRUE]
  /\ UNCHANGED <<grant, childTurn, costVars, parentVars, runCtx, taskVars, mailVars,
                 writeFaults>>
EndsFree(i, ok) == EndSubtask(i, TRUE, 0, ok) /\ UNCHANGED <<used, escalated>>
NoBudget(i, ok) == sub[i] = "unfunded" /\ EndsFree(i, ok)

(* The top of the child's loop: the context and the iteration limit are    *)
(* checked, then the mailbox is drained (ReadUnread) and the model called. *)
Unread(i) == {k \in DOMAIN mailbox : ~mailbox[k].read /\ mailbox[k].to \in {i, "*"}}
ReadUnread(i) ==
  /\ mailbox' = [k \in DOMAIN mailbox |->
                   IF k \in Unread(i) THEN [mailbox[k] EXCEPT !.read = TRUE] ELSE mailbox[k]]
  /\ got' = [got EXCEPT ![i] = @ \cup Unread(i)]
LimitReached(i, ok) ==
  /\ sub[i] = "top" /\ (runCtx = "ended" \/ childTurn[i] >= MaxChildTurns)
  /\ EndsFree(i, ok)
CallModel(i) ==
  /\ sub[i] = "top" /\ runCtx = "live" /\ childTurn[i] < MaxChildTurns
  /\ ReadUnread(i)
  /\ sub' = [sub EXCEPT ![i] = "called"]
  /\ UNCHANGED <<failed, grant, childTurn, costVars, parentVars, runCtx, taskVars,
                 writeFaults>>

(* The call fails, or its cost is counted: past its budget the child       *)
(* fails, otherwise it is finished or uses tools.  A warning on the way (an *)
(* error event that does not end the child) makes a finished child count   *)
(* as failed too.                                                          *)
CallFailed(i, ok) == sub[i] = "called" /\ EndsFree(i, ok)
ChildStops(i, cost, warned, ok) ==
  /\ sub[i] = "called"
  /\ EndSubtask(i, warned \/ total[i] + cost > grant[i], cost, ok)
  /\ used' = [used EXCEPT ![i] = @ + cost]
  /\ UNCHANGED escalated

(* Among the tools are sub-agents of the child, with what it has left of   *)
(* its own grant; what they have cost is added after the check, unless the *)
(* denials of the turn end the child before that.                          *)
Most(share, slack, left) == IF left > 0 THEN share * left + slack ELSE 0
MayNest(i, cost, nested) ==
  /\ sub[i] = "called" /\ total[i] + cost <= grant[i]
  /\ nested <= Most(NestedShare, NestedSlack, grant[i] - Truncated(total[i] + cost))
  /\ used' = [used EXCEPT ![i] = @ + cost + nested]
ChildEscalates(i, cost, nested, ok) ==
  /\ MayNest(i, cost, nested)
  /\ EndSubtask(i, TRUE, cost, ok)
  /\ escalated' = escalated \cup {i}

(* The next turn, perhaps after a message to one sub-agent or to all.      *)
GoesOn(i) ==
  /\ childTurn' = [childTurn EXCEPT ![i] = @ + 1]
  /\ sub' = [sub EXCEPT ![i] = "top"]
  /\ UNCHANGED <<failed, grant, reported, costAccum, escalated, parentVars, runCtx, taskVars,
                 got, writeFaults>>
NextTurn(i, cost, nested) ==
  /\ MayNest(i, cost, nested)
  /\ total' = [total EXCEPT ![i] = @ + cost + nested]
  /\ GoesOn(i)
ChildGoesOn(i, cost, nested) == NextTurn(i, cost, nested) /\ UNCHANGED mailbox
SendAgent(i, cost, nested, to) ==
  /\ NextTurn(i, cost, nested) /\ Incident
  /\ mailbox' = Append(mailbox, [to |-> to, read |-> FALSE])

(* An empty reply is asked for again: another turn, neither counted nor    *)
(* checked.                                                                *)
EmptyReply(i) == sub[i] = "called" /\ GoesOn(i) /\ UNCHANGED <<total, used, mailbox>>

RunCancelled ==
  /\ runCtx = "live"
  /\ runCtx' = "ended"
  /\ UNCHANGED <<childVars, parentVars, taskVars, mailVars, writeFaults>>

(* All calls have returned: the parent ends with denial_escalation, or     *)
(* rolls the reported costs up into its own.                               *)
TurnOver == \A i \in Subs : sub[i] = "done"
SumOf(f) == MapThenSumSet(LAMBDA i : f[i], Subs)
ParentGoesOn(how, cost) ==
  /\ rollup = "open" /\ TurnOver
  /\ rollup' = how /\ parentCost' = cost
  /\ UNCHANGED <<childVars, runCtx, taskVars, mailVars, writeFaults>>
ParentEscalates == ParentGoesOn("escalated", parentCost)
ParentCharged == ParentGoesOn("charged", parentCost + SumOf(reported))

SubStep(i) ==
  \/ InvalidCall(i) \/ CallModel(i) \/ EmptyReply(i)
  \/ \E ok \in BOOLEAN : \/ StartSubtask(i, ok) \/ AssignTask(i, ok)
                         \/ NoBudget(i, ok) \/ LimitReached(i, ok) \/ CallFailed(i, ok)
  \/ \E cost \in TurnCosts, ok \in BOOLEAN :
       \/ \E warned \in BOOLEAN : ChildStops(i, cost, warned, ok)
       \/ \E nested \in NestedCosts : ChildEscalates(i, cost, nested, ok)
  \/ \E cost \in TurnCosts, nested \in NestedCosts :
       \/ ChildGoesOn(i, cost, nested)
       \/ \E to \in Subs \cup {"*"} : SendAgent(i, cost, nested, to)
SubtasksNext ==
  (\E i \in Subs : SubStep(i)) \/ RunCancelled \/ ParentEscalates \/ ParentCharged
SubtasksSpec == SubtasksInit /\ [][SubtasksNext]_subVars

-----------------------------------------------------------------------------
TaskStatus == {"none", "pending", "in_progress", "completed", "failed"}
SubtasksTypeOK ==
  /\ sub \in [Subs -> {"waiting", "created", "unfunded", "top", "called", "done"}]
  /\ failed \in [Subs -> BOOLEAN]
  /\ grant \in [Subs -> 0 .. Budget] /\ total \in [Subs -> Nat]
  /\ used \in [Subs -> Nat] /\ reported \in [Subs -> Nat] /\ escalated \subseteq Subs
  /\ childTurn \in [Subs -> 0 .. MaxChildTurns]
  /\ rollup \in {"open", "charged", "escalated"} /\ parentCost \in Nat
  /\ costAccum \in Nat /\ runCtx \in {"live", "ended"}
  /\ task \in [Subs -> TaskStatus] /\ taskRow \in [Subs -> TaskStatus]
  /\ notified \in [Subs -> 0 .. 1]
  /\ writeFaults \in 0 .. MaxIncidents

(* Sub-agents that run side by side are each granted all that is left, and *)
(* a child counts its own sub-agents after its check, so together they may *)
(* overspend; but no more than if every slot of the semaphore had the rest *)
(* of the budget to itself, were to spend it and be overrun once by nested *)
(* sub-agents and once by a last call, and the tracker lost a fraction of  *)
(* a micro-dollar with each of them.  Costs a denial escalation has        *)
(* dropped are outside this bound: nothing in the code counts them.        *)
Share == IF NestedShare > 1 THEN NestedShare ELSE 1
Slack == NestedShare * (Unit - 1) + NestedSlack + MaxTurnCost
TurnShare == SubagentSlots * Share
TurnSlack == SubagentSlots * Slack + Cardinality(Subs) * (Unit - 1)
Remaining == Budget - Truncated(InitialCost)
OverspendBounded == SumOf(total) <= Most(TurnShare, TurnSlack, Remaining)

(* Where the costs go.  A parent that goes on is charged, to the last      *)
(* fraction, for all that any of its sub-agents have counted, failed ones  *)
(* too; and that is all they and theirs have cost, unless one of them      *)
(* ended with denial_escalation, which drops what its own sub-agents cost  *)
(* in its last turn.  The parent's own denial_escalation drops the whole   *)
(* turn.  The tracker, from which the grants are cut, is never ahead, and  *)
(* is behind by less than a micro-dollar for each sub-agent and the start. *)
CostsAddUp ==
  /\ rollup = "charged" => parentCost = InitialCost + SumOf(total)
  /\ rollup = "charged" /\ escalated = {} => parentCost = InitialCost + SumOf(used)
  /\ TurnOver =>
       /\ costAccum <= InitialCost + SumOf(total)
       /\ InitialCost + SumOf(total) <= costAccum + (Cardinality(Subs) + 1) * (Unit - 1)

(* Every sub-agent that got a task has settled it when the turn is over,   *)
(* with one notification and the status of its result.  The row agrees     *)
(* unless a write failed or the run was cancelled, which leaves it pending *)
(* or in progress for good, or without a row at all.                       *)
TasksSettle ==
  \A i \in Subs : sub[i] = "done" =>
    \/ task[i] = "none" /\ failed[i] /\ notified[i] = 0
    \/ /\ task[i] = (IF failed[i] THEN "failed" ELSE "completed")
       /\ notified[i] = 1
       /\ taskRow[i] = task[i] \/ runCtx = "ended" \/ writeFaults > 0

(* A message is never read by two sub-agents, and a directed one only by   *)
(* its addressee, however their loops interleave.                          *)
ReadAtMostOnce ==
  \A i, j \in Subs : /\ i # j => got[i] \cap got[j] = {}
                     /\ \A k \in got[i] : mailbox[k].to \in {i, "*"}

(* When the turn is over its sub-agents are accounted for, whichever of    *)
(* them failed: costs, tasks and messages.                                 *)
SubtasksSettle == SubtasksTypeOK /\ CostsAddUp /\ TasksSettle /\ ReadAtMostOnce
=============================================================================
