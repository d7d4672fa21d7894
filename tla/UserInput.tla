----------------------------- MODULE UserInput ------------------------------
(***************************************************************************)
(* What a run asks of its user: forms (ask_user), consents to a tool, and  *)
(* actions of the client.  The run blocks in Submit of a handler; an HTTP  *)
(* request finds the handler through a registry of its pod and calls       *)
(* Respond.  Both registries (elicitationRegistry in agentic/adapter.go,   *)
(* ClientStateStore in agentic/frontend_action.go) are keyed by the        *)
(* session and set and cleared together, so one variable stands for both.  *)
(* Forms and consents also have a row (tool_execution) that the request    *)
(* marks as resumed.  All runs here belong to one session.                 *)
(***************************************************************************)
EXTENDS Naturals, Sequences, FiniteSets, SequencesExt

CONSTANTS InputRuns, InputPods,
          PodOf,       \* the pod a run executes on
          NoHandler,
          MaxCalls,    \* bound: requests of all runs
          MaxAnswers   \* bound: HTTP requests of the client

ASSUME UserInputAssumptions ==
  /\ PodOf \in [InputRuns -> InputPods] /\ NoHandler \notin InputRuns
  /\ MaxCalls \in Nat /\ MaxAnswers \in Nat

VARIABLES
  runState,   \* per run: "new", "running", "waiting", "over"
  cancelled,  \* per run: its context has ended
  handlerOf,  \* per pod: whose handler the registries hold
  queue,      \* per run: the requests of its handler
  requests,   \* every request: [run, kind, id, at], at: the handler's run
  rows,       \* per request: its tool_execution row, [state, by]
  answers,    \* every HTTP request: [for, pod, state, handled]
  \* History.
  results,    \* per request: what Submit returned, [state, by]
  disturbed   \* runs whose registration another run has replaced or removed

inputVars == <<runState, cancelled, handlerOf, queue, requests, rows, answers, results,
               disturbed>>

InputInit ==
  /\ runState = [r \in InputRuns |-> "new"]
  /\ cancelled = [r \in InputRuns |-> FALSE]
  /\ handlerOf = [p \in InputPods |-> NoHandler]
  /\ queue = [r \in InputRuns |-> <<>>]
  /\ requests = <<>> /\ rows = <<>> /\ answers = <<>> /\ results = <<>>
  /\ disturbed = {}

(* States of rows and results, and the answer they are due to (or 0).      *)
By(state, a) == [state |-> state, by |-> a]
Waits(n) == results[n].state = "waiting"
Others(r) == {q \in InputRuns \ {r} : PodOf[q] = PodOf[r] /\ runState[q] \in {"running", "waiting"}}

-----------------------------------------------------------------------------
(* RunSession registers the handlers of the run, and its end removes the   *)
(* registration of the session, whoever's it is.                           *)
RegisterFirst(r) ==   \* mutant: a registered handler is kept
  /\ runState[r] = "new"
  /\ runState' = [runState EXCEPT ![r] = "running"]
  /\ handlerOf' = [handlerOf EXCEPT ![PodOf[r]] = IF @ = NoHandler THEN r ELSE @]
  /\ disturbed' = disturbed \cup Others(r)
  /\ UNCHANGED <<cancelled, queue, requests, rows, answers, results>>
RegisterHandlers(r) ==
  /\ runState[r] = "new"
  /\ runState' = [runState EXCEPT ![r] = "running"]
  /\ handlerOf' = [handlerOf EXCEPT ![PodOf[r]] = r]
  /\ disturbed' = disturbed \cup Others(r)
  /\ UNCHANGED <<cancelled, queue, requests, rows, answers, results>>
UnregisterHandlers(r) ==
  /\ runState[r] = "running"
  /\ runState' = [runState EXCEPT ![r] = "over"]
  /\ handlerOf' = [handlerOf EXCEPT ![PodOf[r]] = NoHandler]
  /\ disturbed' = disturbed \cup Others(r)
  /\ UNCHANGED <<cancelled, queue, requests, rows, answers, results>>
CancelRun(r) ==
  /\ runState[r] \in {"running", "waiting"} /\ ~cancelled[r]
  /\ cancelled' = [cancelled EXCEPT ![r] = TRUE]
  /\ UNCHANGED <<runState, handlerOf, queue, requests, rows, answers, results, disturbed>>

(* Submit.  A form has the id of its call, a consent the id of its run and *)
(* tool.  The row is written with the context of the run; a failure is     *)
(* only logged.  A client action goes to the handler that the session has  *)
(* at the moment, if any.                                                  *)
RequestIdOfRun(r, kind) == <<kind, r>>   \* mutant: forms share their id too
RequestId(r, kind) == IF kind = "consent" THEN <<"consent", r>> ELSE <<"call", Len(requests) + 1>>
Enqueue(r, kind, at) ==
  /\ runState[r] = "running" /\ Len(requests) < MaxCalls
  /\ requests' = Append(requests, [run |-> r, kind |-> kind, id |-> RequestId(r, kind), at |-> at])
  /\ UNCHANGED <<cancelled, handlerOf, answers, disturbed>>
Submit(r, kind, stored) ==
  /\ kind \in {"ask_user", "consent"} /\ (stored => ~cancelled[r])
  /\ Enqueue(r, kind, r)
  /\ queue' = [queue EXCEPT ![r] = Append(@, [req |-> Len(requests) + 1, answer |-> 0])]
  /\ rows' = Append(rows, By(IF stored THEN "suspended" ELSE "none", 0))
  /\ results' = Append(results, By("waiting", 0))
  /\ runState' = [runState EXCEPT ![r] = "waiting"]
SubmitAction(r) ==
  LET at == handlerOf[PodOf[r]]
  IN /\ Enqueue(r, "action", at)
     /\ rows' = Append(rows, By("none", 0))
     /\ IF at = NoHandler
        THEN results' = Append(results, By("cancelled", 0)) /\ UNCHANGED <<queue, runState>>
        ELSE /\ queue' = [queue EXCEPT ![at] = Append(@, [req |-> Len(requests) + 1, answer |-> 0])]
             /\ results' = Append(results, By("waiting", 0))
             /\ runState' = [runState EXCEPT ![r] = "waiting"]

(* Submit returns, with an answer or because its context has ended: that   *)
(* of the run for a consent, one of 24 hours for the others.  If both are  *)
(* the case either may be taken.  The second way removes the first request *)
(* of that id from the queue.                                              *)
Awaited(r) == CHOOSE n \in DOMAIN requests : requests[n].run = r /\ Waits(n)
Entry(r, n) == CHOOSE e \in ToSet(queue[requests[n].at]) : e.req = n
Returns(r, n, result) ==
  /\ results' = [results EXCEPT ![n] = result]
  /\ runState' = [runState EXCEPT ![r] = "running"]
  /\ UNCHANGED <<cancelled, handlerOf, requests, rows, answers, disturbed>>
SubmitAnswered(r) ==
  LET n == Awaited(r)
  IN /\ runState[r] = "waiting" /\ Entry(r, n).answer # 0
     /\ Returns(r, n, By("answered", Entry(r, n).answer))
     /\ UNCHANGED queue
removeFromQueue(q, id) ==
  LET k == SelectInSeq(q, LAMBDA e : requests[e.req].id = id)
  IN IF k = 0 THEN q ELSE RemoveAt(q, k)
SubmitGivesUp(r) ==
  LET n == Awaited(r)
      h == requests[n].at
  IN /\ runState[r] = "waiting" /\ (requests[n].kind = "consent" => cancelled[r])
     /\ queue' = [queue EXCEPT ![h] = removeFromQueue(@, requests[n].id)]
     /\ Returns(r, n, By("cancelled", 0))

-----------------------------------------------------------------------------
(* The client answers a request it was shown, through any pod, perhaps     *)
(* more than once.  The handler's Respond takes the first request of that  *)
(* id without an answer; then the row is resolved, if it is still          *)
(* suspended.  Success of either acknowledges the answer.                  *)
SendAnswer(n, p) ==
  /\ Len(answers) < MaxAnswers
  /\ answers' = Append(answers, [for |-> n, pod |-> p, state |-> "sent", handled |-> FALSE])
  /\ UNCHANGED <<runState, cancelled, handlerOf, queue, requests, rows, results, disturbed>>
Respond(a) ==
  LET n == answers[a].for
      h == handlerOf[answers[a].pod]
      k == IF h = NoHandler THEN 0
           ELSE SelectInSeq(queue[h], LAMBDA e : requests[e.req].id = requests[n].id /\ e.answer = 0)
      acked == requests[n].kind = "action"
  IN /\ answers[a].state = "sent"
     /\ queue' = IF k = 0 THEN queue ELSE [queue EXCEPT ![h][k].answer = a]
     /\ answers' = [answers EXCEPT ![a].handled = (k # 0),
                                   ![a].state = IF acked THEN "acked" ELSE "resolve"]
     /\ UNCHANGED <<runState, cancelled, handlerOf, requests, rows, results, disturbed>>
(* The latest suspended row of that id.                                    *)
ResolveToolSuspendState(a) ==
  LET id == requests[answers[a].for].id
      open == {n \in DOMAIN rows : requests[n].id = id /\ rows[n].state = "suspended"}
      latest == CHOOSE n \in open : \A m \in open : m <= n
  IN /\ answers[a].state = "resolve"
     /\ rows' = IF open = {} THEN rows ELSE [rows EXCEPT ![latest] = By("resumed", a)]
     /\ answers' = [answers EXCEPT ![a].state =
                      IF answers[a].handled \/ open # {} THEN "acked" ELSE "refused"]
     /\ UNCHANGED <<runState, cancelled, handlerOf, queue, requests, results, disturbed>>

InputNext ==
  \/ \E r \in InputRuns :
       \/ RegisterHandlers(r) \/ UnregisterHandlers(r) \/ CancelRun(r)
       \/ \E kind \in {"ask_user", "consent"}, stored \in BOOLEAN : Submit(r, kind, stored)
       \/ SubmitAction(r) \/ SubmitAnswered(r) \/ SubmitGivesUp(r)
  \/ \E n \in DOMAIN requests, p \in InputPods : SendAnswer(n, p)
  \/ \E a \in DOMAIN answers : Respond(a) \/ ResolveToolSuspendState(a)

InputSpec == InputInit /\ [][InputNext]_inputVars

-----------------------------------------------------------------------------
InputTypeOK ==
  /\ runState \in [InputRuns -> {"new", "running", "waiting", "over"}]
  /\ cancelled \in [InputRuns -> BOOLEAN]
  /\ handlerOf \in [InputPods -> InputRuns \cup {NoHandler}]
  /\ Len(requests) <= MaxCalls /\ Len(results) = Len(requests) /\ Len(rows) = Len(requests)
  /\ \A n \in DOMAIN requests :
       /\ rows[n].state \in {"none", "suspended", "resumed"}
       /\ results[n].state \in {"waiting", "cancelled", "answered"}
       /\ rows[n].by \in 0 .. Len(answers) /\ results[n].by \in 0 .. Len(answers)
  /\ Len(answers) <= MaxAnswers /\ disturbed \subseteq InputRuns
  /\ \A r \in InputRuns : runState[r] = "waiting" <=>
       \E n \in DOMAIN requests : requests[n].run = r /\ Waits(n)

Owner(n) == requests[n].run
Repeated(n) == Cardinality({a \in DOMAIN answers : answers[a].for = n}) > 1

(* A request that waits can be answered: its handler is the one its pod    *)
(* has registered and the request is in its queue, unless another run of   *)
(* the session has started or ended on that pod meanwhile.                 *)
WaitingReachable ==
  \A n \in DOMAIN requests : Waits(n) /\ Owner(n) \notin disturbed =>
    /\ handlerOf[PodOf[Owner(n)]] = Owner(n)
    /\ \E e \in ToSet(queue[Owner(n)]) : e.req = n

(* The answer a request gets is one the user gave to that request.  The    *)
(* exception are consents, which share their id: after a repeated answer,  *)
(* or a cancel, the answers to them are taken for later consents of the    *)
(* tool, each perhaps for the one after.                                   *)
Displaced(n) ==
  /\ requests[n].kind = "consent"
  /\ \/ cancelled[Owner(n)]
     \/ \E m \in DOMAIN requests : requests[m].id = requests[n].id /\ Repeated(m)
AnswersTheRequest ==
  \A n \in DOMAIN requests : results[n].state = "answered" =>
    answers[results[n].by].for = n \/ Displaced(n)

(* What a row says the user answered is what the run has been told, unless *)
(* the answer was repeated (each of two requests may win one of the two)   *)
(* or the run has stopped waiting or cannot be reached.                    *)
RowAgreesWithRun ==
  \A n \in DOMAIN requests : rows[n].state = "resumed" =>
    LET given == rows[n].by
        shared == requests[n].kind = "consent" /\ (\E m \in DOMAIN requests : m # n /\ Owner(m) = Owner(n))
    IN \/ results[n].by = given
       \/ Waits(n) /\ (\E e \in ToSet(queue[Owner(n)]) : e.req = n /\ e.answer = given)
       \/ results[n].state = "cancelled" \/ Repeated(n) \/ Owner(n) \in disturbed
       \/ answers[given].pod # PodOf[Owner(n)] \/ shared

(* Requests, rows and answers agree, whichever pod an answer reaches and   *)
(* however often it is sent.                                               *)
AnswersAgree == InputTypeOK /\ AnswersTheRequest /\ RowAgreesWithRun

(* "Returns false when the session has no active run or the requestID is   *)
(* not found": an answer to a form that is acknowledged reaches its run.   *)
AcknowledgedIsDelivered ==
  \A a \in DOMAIN answers :
    answers[a].state = "acked" /\ requests[answers[a].for].kind = "ask_user" => answers[a].handled
=============================================================================
