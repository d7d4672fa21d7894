------------------------------ MODULE ToolTurn ------------------------------
(***************************************************************************)
(* The tool turns of one run: executeWithPermissions (agentic/runner.go)   *)
(* takes the calls of a reply one by one, rejects some, answers others     *)
(* itself and collects the rest for ExecuteAll (ToolBatches) and           *)
(* ExecuteParallel (Subtasks).  The limits it applies -- calls per tool,   *)
(* denials, facts stored, values the user has given -- last for the run.   *)
(***************************************************************************)
EXTENDS Naturals, Sequences, FiniteSets

CONSTANTS Tools,
          Kind,             \* what a tool is routed as
          Allowed,          \* tools of the run (all, if empty)
          Rules,            \* per tool: the decisions its permission rules may give
          Destructive,      \* tools flagged as destructive
          Interactive,      \* in.Elicitation is wired
          Args,             \* facts to store, or questions to ask
          MaxToolRetries,   \* calls of one tool per run (3)
          DenialThreshold,  \* denials of one tool that end the run (3)
          Batches,          \* the batches of calls considered
          MaxTurns          \* bound: turns of the run

Kinds == {"regular", "agent", "mode", "ask_user", "manage", "memory_store",
          "memory_store_bulk", "local", "frontend"}

ASSUME ToolTurnAssumptions ==
  /\ Kind \in [Tools -> Kinds] /\ Allowed \subseteq Tools /\ Destructive \subseteq Tools
  /\ Rules \in [Tools -> SUBSET {"allow", "deny", "confirm"}]
  /\ Interactive \in BOOLEAN
  /\ MaxToolRetries \in Nat /\ DenialThreshold \in Nat \ {0}
  /\ MaxTurns \in Nat

(* What the permission rules say of a call depends on its arguments; so    *)
(* does whether a destructive tool only reads.                             *)
ACall == {c \in [tool : Tools, rule : {"allow", "deny", "confirm"}, reads : BOOLEAN,
                 args : SUBSET Args] : c.rule \in Rules[c.tool]}
ASSUME BatchesAssumption == \A calls \in Batches : calls \in Seq(ACall)

VARIABLES
  phase,       \* "model", "calls", "execute", "agents", "results", "escalated"
  batch,       \* the calls of the turn: [tool, rule, reads, args]
  outcome,     \* per call handled: [kind, ok, sent, flagged]
  hadErrors,   \* lastTurnHadToolErrors
  \* runState and DenialTracker.
  toolRetries, denials, escalations, collected, storedKeys,
  \* History.
  memory,      \* facts in agent_memory
  claimed,     \* facts the model was told are stored
  bulkFailed,  \* facts that a bulk store could not write
  executed,    \* the calls of the turn that had an effect, and who consented
  effects,     \* per tool: calls that had an effect in this run
  announced,   \* tools whose denial was announced as escalated, not run since
  turns

limitVars == <<toolRetries, denials, escalations, collected, storedKeys>>
memoryVars == <<memory, claimed, bulkFailed>>
doneVars == <<executed, effects>>
turnVars == <<phase, batch, outcome, hadErrors, limitVars, memoryVars, doneVars,
              announced, turns>>

TurnInit ==
  /\ phase = "model" /\ batch = <<>> /\ outcome = <<>> /\ hadErrors = FALSE
  /\ toolRetries = [t \in Tools |-> 0] /\ denials = [t \in Tools |-> 0]
  /\ escalations = {} /\ collected = {} /\ storedKeys = {}
  /\ memory = {} /\ claimed = {} /\ bulkFailed = {}
  /\ executed = {} /\ effects = [t \in Tools |-> 0] /\ announced = {} /\ turns = 0

Pos == Len(outcome) + 1
TheCall == batch[Pos]
Handling == phase = "calls" /\ Pos <= Len(batch)

ModelCalls(calls) ==
  /\ phase = "model" /\ turns < MaxTurns
  /\ phase' = "calls" /\ batch' = calls /\ outcome' = <<>>
  /\ executed' = {} /\ turns' = turns + 1
  /\ UNCHANGED <<hadErrors, limitVars, memoryVars, effects, announced>>

-----------------------------------------------------------------------------
(* The checks of a call, in their order.                                   *)
MemoryTool(c) == Kind[c.tool] \in {"memory_store", "memory_store_bulk"}
RetryLimit(c) == ~MemoryTool(c) /\ toolRetries[c.tool] >= MaxToolRetries
NotAllowed(c) == Allowed # {} /\ c.tool \notin Allowed
Frontend(c) == Kind[c.tool] = "frontend"
Refused(c, approved) == c.rule = "deny" \/ (c.rule = "confirm" /\ ~(Interactive /\ approved))
TooDestructive(c) == c.tool \in Destructive /\ ~c.reads
VerdictUnasked(c, approved) ==   \* mutant: the permission rules are skipped
  IF RetryLimit(c) THEN "retry limit"
  ELSE IF NotAllowed(c) THEN "not allowed"
  ELSE IF Frontend(c) THEN "frontend"
  ELSE IF TooDestructive(c) THEN "destructive"
  ELSE "permitted"
Verdict(c, approved) ==
  IF RetryLimit(c) THEN "retry limit"
  ELSE IF NotAllowed(c) THEN "not allowed"
  ELSE IF Frontend(c) THEN "frontend"
  ELSE IF Refused(c, approved) THEN "denied"
  ELSE IF TooDestructive(c) THEN "destructive"
  ELSE "permitted"
Permitted(approved) ==
  /\ Handling /\ Verdict(TheCall, approved) = "permitted"
  /\ approved => TheCall.rule = "confirm"

CountNothing(c) == UNCHANGED toolRetries   \* mutant
CountCall(c) ==
  toolRetries' = IF RetryLimit(c) THEN toolRetries
                 ELSE [toolRetries EXCEPT ![c.tool] = @ + 1]

(* What becomes of a call: its result, how many tool_result events its     *)
(* handling sent, and whether the result is flagged as sent.               *)
Outcome(kind, ok, sent, flagged) ==
  [kind |-> kind, ok |-> ok, sent |-> sent, flagged |-> flagged]
Answered(o) == outcome' = Append(outcome, o)
Ran(c, approved) ==
  /\ executed' = executed \cup {[call |-> c, approved |-> approved]}
  /\ effects' = [effects EXCEPT ![c.tool] = @ + 1]

(* RecordDenial: the denial that reaches the threshold escalates the tool. *)
RecordDenialLate(t) ==   \* mutant: one denial too many
  /\ denials' = [denials EXCEPT ![t] = @ + 1]
  /\ escalations' = escalations \cup (IF denials[t] + 1 > DenialThreshold THEN {t} ELSE {})
RecordDenial(t) ==
  /\ denials' = [denials EXCEPT ![t] = @ + 1]
  /\ escalations' = escalations \cup (IF denials[t] + 1 >= DenialThreshold THEN {t} ELSE {})

Reject(approved) ==
  LET c == TheCall
      verdict == Verdict(c, approved)
      events == IF verdict \in {"retry limit", "not allowed"} THEN 1 ELSE 0
  IN /\ Handling /\ verdict \in {"retry limit", "not allowed", "denied", "destructive"}
     /\ approved => c.rule = "confirm"
     /\ CountCall(c)
     /\ Answered(Outcome(verdict, FALSE, events, FALSE))
     /\ IF verdict = "denied" THEN RecordDenial(c.tool)
        ELSE UNCHANGED <<denials, escalations>>
     /\ announced' = announced \cup (IF c.rule = "deny" THEN escalations' \ escalations ELSE {})
     /\ UNCHANGED <<phase, batch, hadErrors, collected, storedKeys, memoryVars, doneVars, turns>>

(* A client's own action: no permission is asked.                          *)
FrontendAction(ok) ==
  LET c == TheCall
  IN /\ Handling /\ Verdict(c, FALSE) = "frontend"
     /\ CountCall(c)
     /\ Answered(Outcome("frontend", ok, 1, FALSE))
     /\ Ran(c, FALSE)
     /\ UNCHANGED <<phase, batch, hadErrors, denials, escalations, collected, storedKeys,
                    memoryVars, announced, turns>>

(* A skill with a context mode other than fork, or without sub-agents.     *)
UnsupportedMode(approved) ==
  LET c == TheCall
  IN /\ Permitted(approved) /\ Kind[c.tool] = "mode"
     /\ CountCall(c)
     /\ Answered(Outcome("mode", FALSE, 1, FALSE))
     /\ UNCHANGED <<phase, batch, hadErrors, denials, escalations, collected, storedKeys,
                    memoryVars, doneVars, announced, turns>>

(* ask_user: cancelled after a turn with errors, answered from what the    *)
(* user has said already, or put to the user, who accepts or declines.     *)
Known(c) == collected # {} /\ c.args \subseteq collected
AskUser(approved, answers) ==
  LET c == TheCall
      asks == ~hadErrors /\ ~Known(c)
  IN /\ Permitted(approved) /\ Kind[c.tool] = "ask_user" /\ (hadErrors \/ Interactive)
     /\ answers # {} => asks
     /\ answers \subseteq c.args
     /\ CountCall(c)
     /\ Answered(Outcome("ask_user", TRUE, 0, FALSE))
     /\ IF asks THEN Ran(c, approved) ELSE UNCHANGED doneVars
     /\ collected' = collected \cup answers
     /\ UNCHANGED <<phase, batch, hadErrors, denials, escalations, storedKeys, memoryVars,
                    announced, turns>>

(* memory_store: one fact, once per run.                                   *)
MemoryStore(approved, ok) ==
  LET c == TheCall
      known == c.args \subseteq storedKeys
  IN /\ Permitted(approved) /\ Kind[c.tool] = "memory_store"
     /\ known => ok
     /\ CountCall(c)
     /\ Answered(Outcome("memory_store", TRUE, 0, FALSE))
     /\ claimed' = claimed \cup (IF ok THEN c.args ELSE {})
     /\ storedKeys' = storedKeys \cup (IF ok THEN c.args ELSE {})
     /\ memory' = memory \cup (IF ok /\ ~known THEN c.args ELSE {})
     /\ IF known THEN UNCHANGED doneVars ELSE Ran(c, approved)
     /\ UNCHANGED <<phase, batch, hadErrors, denials, escalations, collected, bulkFailed,
                    announced, turns>>

(* memory_store_bulk: skipped if every fact is marked; otherwise all facts *)
(* are written again and marked, the ones that failed too.                 *)
MemoryStoreBulk(approved, written) ==
  LET c == TheCall
      known == c.args \subseteq storedKeys
  IN /\ Permitted(approved) /\ Kind[c.tool] = "memory_store_bulk"
     /\ written \subseteq c.args /\ (known => written = {})
     /\ CountCall(c)
     /\ Answered(Outcome("memory_store_bulk", TRUE, 0, FALSE))
     /\ claimed' = claimed \cup (IF known THEN c.args ELSE written)
     /\ bulkFailed' = bulkFailed \cup (IF known THEN {} ELSE c.args \ written)
     /\ storedKeys' = storedKeys \cup c.args
     /\ memory' = memory \cup written
     /\ IF known THEN UNCHANGED doneVars ELSE Ran(c, approved)
     /\ UNCHANGED <<phase, batch, hadErrors, denials, escalations, collected, announced, turns>>

(* agenthub_manage sends its own events; memory_recall, tool_search, the   *)
(* canvas tools and send_message leave the tool_result to the loop.        *)
Builtin(approved, ok) ==
  LET c == TheCall
      manages == Kind[c.tool] = "manage"
  IN /\ Permitted(approved) /\ Kind[c.tool] \in {"manage", "local"}
     /\ CountCall(c)
     /\ Answered(Outcome(Kind[c.tool], ok, IF manages THEN 1 ELSE 0, manages))
     /\ Ran(c, approved)
     /\ UNCHANGED <<phase, batch, hadErrors, denials, escalations, collected, storedKeys,
                    memoryVars, announced, turns>>

(* Everything else waits for the executors: sub-agents, and regular tools, *)
(* ask_user without a user among them.                                     *)
Route(approved) ==
  LET c == TheCall
      asksNobody == Kind[c.tool] = "ask_user" /\ ~hadErrors /\ ~Interactive
  IN /\ Permitted(approved) /\ (Kind[c.tool] \in {"regular", "agent"} \/ asksNobody)
     /\ CountCall(c)
     /\ Answered(Outcome(IF Kind[c.tool] = "agent" THEN "agent" ELSE "regular", FALSE, 0, FALSE))
     /\ Ran(c, approved)
     /\ UNCHANGED <<phase, batch, hadErrors, denials, escalations, collected, storedKeys,
                    memoryVars, announced, turns>>

-----------------------------------------------------------------------------
(* ExecuteAll, then ExecuteParallel.  A tool that succeeds loses its       *)
(* denials (RecordAllow).                                                  *)
Waiting(kind) == {i \in DOMAIN outcome : outcome[i].kind = kind}
ToolOf(i) == batch[i].tool
ExecuteAll(good, aborted) ==
  LET waiting == Waiting("regular")
      allowed == {ToolOf(i) : i \in good}
  IN /\ phase = "calls" /\ Pos > Len(batch)
     /\ good \subseteq waiting /\ aborted \subseteq waiting \ good
     /\ outcome' = [i \in DOMAIN outcome |->
                      IF i \notin waiting THEN outcome[i]
                      ELSE IF i \in aborted THEN Outcome("regular", FALSE, 0, FALSE)
                      ELSE Outcome("regular", i \in good, 1, TRUE)]
     /\ denials' = [t \in Tools |-> IF t \in allowed THEN 0 ELSE denials[t]]
     /\ escalations' = escalations \ allowed
     /\ announced' = announced \ allowed
     /\ phase' = "agents"
     /\ UNCHANGED <<batch, hadErrors, toolRetries, collected, storedKeys, memoryVars,
                    doneVars, turns>>
ExecuteParallel(good) ==
  /\ phase = "agents" /\ good \subseteq Waiting("agent")
  /\ outcome' = [i \in DOMAIN outcome |->
                   IF i \in good THEN [outcome[i] EXCEPT !.ok = TRUE] ELSE outcome[i]]
  /\ phase' = "results"
  /\ UNCHANGED <<batch, hadErrors, limitVars, memoryVars, doneVars, announced, turns>>

(* An escalated denial ends the run before the results are stored or sent. *)
(* Otherwise the loop sends the tool_result of every call not flagged.     *)
DenialEscalation ==
  /\ phase = "results" /\ escalations # {}
  /\ phase' = "escalated"
  /\ UNCHANGED <<batch, outcome, hadErrors, limitVars, memoryVars, doneVars, announced, turns>>
StoreResults ==
  /\ phase = "results" /\ escalations = {}
  /\ outcome' = [i \in DOMAIN outcome |->
                   IF outcome[i].flagged THEN outcome[i]
                   ELSE [outcome[i] EXCEPT !.sent = @ + 1]]
  /\ hadErrors' = (\E i \in DOMAIN outcome : ~outcome[i].ok)
  /\ phase' = "model"
  /\ UNCHANGED <<batch, limitVars, memoryVars, doneVars, announced, turns>>

HandleCall ==
  \E approved, ok \in BOOLEAN, some \in SUBSET Args :
    \/ Reject(approved) \/ FrontendAction(ok) \/ UnsupportedMode(approved)
    \/ AskUser(approved, some) \/ MemoryStore(approved, ok)
    \/ MemoryStoreBulk(approved, some) \/ Builtin(approved, ok) \/ Route(approved)
TurnNext ==
  \/ \E calls \in Batches : ModelCalls(calls)
  \/ HandleCall
  \/ \E good, aborted \in SUBSET DOMAIN batch : ExecuteAll(good, aborted)
  \/ \E good \in SUBSET DOMAIN batch : ExecuteParallel(good)
  \/ DenialEscalation
  \/ StoreResults

TurnSpec == TurnInit /\ [][TurnNext]_turnVars

-----------------------------------------------------------------------------
TurnTypeOK ==
  /\ phase \in {"model", "calls", "agents", "results", "escalated"}
  /\ Len(outcome) <= Len(batch)
  /\ hadErrors \in BOOLEAN
  /\ toolRetries \in [Tools -> Nat] /\ denials \in [Tools -> Nat]
  /\ \A t \in Tools : t \in escalations <=> denials[t] >= DenialThreshold
  /\ collected \subseteq Args /\ storedKeys \subseteq Args
  /\ memory \subseteq Args /\ claimed \subseteq Args /\ bulkFailed \subseteq Args
  /\ announced \subseteq escalations

(* Nothing has an effect in a run that its rules forbid: not a tool that   *)
(* is not bound to the agent, was denied, needed a consent nobody gave, or *)
(* is destructive.  Client actions are exempt from all but the first.      *)
OnlyPermittedExecute ==
  \A e \in executed :
    /\ Allowed = {} \/ e.call.tool \in Allowed
    /\ ~Frontend(e.call) => /\ e.call.rule # "deny"
                            /\ e.call.rule = "confirm" => e.approved
                            /\ ~TooDestructive(e.call)

(* A tool does not run more often in a run than the limit, however its     *)
(* calls spread over turns and batches; memory stores are exempt.          *)
EffectsBounded ==
  \A t \in Tools : Kind[t] \notin {"memory_store", "memory_store_bulk"} =>
    effects[t] <= MaxToolRetries

(* A denial announced to the client as escalated ends the run with its     *)
(* turn, unless a later call of the same tool succeeds in that turn.       *)
EscalationEndsRun == phase \in {"model", "calls"} /\ outcome = <<>> => announced = {}

(* What the model is told is in memory is in memory, whichever mixture of  *)
(* single and bulk stores fails -- but for a fact of a bulk store that     *)
(* failed, which is marked all the same and later reported as stored.      *)
MemoryClaimsTrue == claimed \subseteq memory \cup bulkFailed

(* When a turn is over the client has got one tool_result for every call,  *)
(* whichever of the paths it took; four paths send it twice.               *)
SentTwice == {"retry limit", "not allowed", "frontend", "mode"}
OneResultPerCall ==
  phase = "model" => \A i \in DOMAIN outcome :
    outcome[i].sent = 1 \/ (outcome[i].kind \in SentTwice /\ outcome[i].sent = 2)

(* The accounts of a run agree, whatever its calls met: an escalation ends *)
(* it, what it claims to have stored is stored, and the client hears of    *)
(* every call.                                                             *)
TurnSafe == TurnTypeOK /\ EscalationEndsRun /\ MemoryClaimsTrue /\ OneResultPerCall
=============================================================================
