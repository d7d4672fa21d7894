----------------------------- MODULE AgentLoop ------------------------------
(***************************************************************************)
(* The agentic loop of one chat session (agentic/runner.go): runs that     *)
(* follow each other, each loading the stored history, calling the model,  *)
(* executing the tools it asks for and storing what happened, until the    *)
(* model stops, something fails, or the context of the run ends.           *)
(*                                                                         *)
(* Every stored row is a step of its own, so a failure or a crash may come *)
(* between any two of them.  The model's replies, the hooks' notes and the *)
(* pressure on the context window are arbitrary.  How a turn's calls are   *)
(* executed is the subject of ToolTurn and ToolBatches: here they succeed, *)
(* fail, or end in an escalated denial.                                    *)
(***************************************************************************)
EXTENDS Conversation, FiniteSets

CONSTANTS Batches,             \* tool names a reply may call together, in order
          MaxIterations,       \* r.config.MaxIterations
          MaxRecoveries,       \* maxMaxTokensRecoveries (3)
          DuplicateStreak,     \* maxDuplicateToolCallStreak (3)
          MaxRuns,             \* bound: runs of the session
          MaxReplies,          \* bound: replies of the model, one less with each run
          MaxExtras            \* bound: failed writes, fallbacks, replies without a
                               \* response id, crashes, and notes that hooks and
                               \* mailboxes inject

ASSUME AgentLoopAssumptions ==
  /\ \A b \in Batches : b \in Seq(STRING)
  /\ MaxIterations \in Nat /\ MaxRecoveries \in Nat
  /\ DuplicateStreak \in Nat \ {0}
  /\ MaxRuns \in Nat /\ MaxReplies \in Nat /\ MaxExtras \in Nat

VARIABLES
  rows,       \* chat_message rows of the session
  \* runLoop's locals.
  pc,
  ctx,        \* "live" or "ended" (cancelled, or past TotalTimeout)
  stored,     \* in.UserMessageID is set: the service stored the user message
  msgs,       \* messages
  turn,       \* turnIndex
  recoveries, \* maxTokensRecoveryCount
  empties,    \* emptyResponseRetries
  streak,     \* duplicateToolCallStreak
  lastSig,    \* lastToolCallSignature
  hadErrors,  \* lastTurnHadToolErrors
  reply,      \* the reply of this turn: [finish, text, names, calls, rid]
  next,       \* the next call whose result is stored
  chained,    \* lastResponseID # ""
  sent,       \* lastSentIndex
  lastError,  \* lastRunError # nil
  completed,  \* runCompleted
  \* History.
  covered,    \* the messages that the response chained to has seen
  lapsed,     \* a later reply brought no response id
  completes,  \* run_complete events of this run
  crashed,    \* the last run was cut off by a crash
  causes,     \* what may have left the history without matching results
  replies, runs, extras

convVars == <<rows, msgs>>
localVars == <<recoveries, empties, streak, lastSig, hadErrors>>
chainVars == <<chained, sent, covered, lapsed>>
endVars == <<lastError, completed, completes, crashed>>
countVars == <<replies, runs, extras>>
vars == <<convVars, pc, ctx, stored, turn, localVars, reply, next, chainVars,
          endVars, causes, countVars>>

Finishes == {"stop", "tool_calls", "length", "other"}
NoReply == [finish |-> "stop", text |-> FALSE, names |-> <<>>, calls |-> <<>>,
            rid |-> FALSE]
Steps == {"idle", "setup", "loop", "call", "reply", "tools", "results", "nudge",
          "turnEnd", "length", "stop", "runEnd", "finalize"}

Init ==
  /\ rows = <<>> /\ msgs = <<>>
  /\ pc = "idle" /\ ctx = "live" /\ stored = FALSE
  /\ turn = 0 /\ recoveries = 0 /\ empties = 0
  /\ streak = 0 /\ lastSig = <<>> /\ hadErrors = FALSE
  /\ reply = NoReply /\ next = 1
  /\ chained = FALSE /\ sent = 0 /\ covered = 0 /\ lapsed = FALSE
  /\ lastError = FALSE /\ completed = FALSE /\ completes = 1 /\ crashed = FALSE
  /\ causes = {}
  /\ replies = 0 /\ runs = 0 /\ extras = 0

(* runLoop returns: its locals are gone.                                   *)
Return ==
  /\ pc' = "idle" /\ ctx' = "live" /\ stored' = FALSE
  /\ msgs' = <<>>
  /\ turn' = 0 /\ recoveries' = 0 /\ empties' = 0
  /\ streak' = 0 /\ lastSig' = <<>> /\ hadErrors' = FALSE
  /\ reply' = NoReply /\ next' = 1
  /\ chained' = FALSE /\ sent' = 0 /\ covered' = 0 /\ lapsed' = FALSE
  /\ lastError' = FALSE /\ completed' = FALSE

-----------------------------------------------------------------------------
(* A write with the run's context fails once the context has ended, and    *)
(* may fail before; one with a detached context only fails by itself.      *)
Persist(ok) ==
  /\ IF ok THEN ctx = "live" ELSE ctx = "ended" \/ extras < MaxExtras
  /\ extras' = extras + (IF ~ok /\ ctx = "live" THEN 1 ELSE 0)
PersistDetached(ok) ==
  /\ ok \/ extras < MaxExtras
  /\ extras' = extras + (IF ok THEN 0 ELSE 1)

(* Notes of hooks, mailboxes and warnings: user messages, some also stored.*)
Notes == 0 .. (IF extras < MaxExtras THEN 1 ELSE 0)
Times(n, m) == [i \in 1 .. n |-> m]

(* localEmitError records the error for the deferred cleanup, emitError    *)
(* only sends it to the client.                                            *)
localEmitError == pc' = "finalize" /\ lastError' = TRUE
emitError == pc' = "finalize" /\ UNCHANGED lastError

(* A finished run announces its end and notes that it has.                 *)
AnnounceUnmarked == completes' = completes + 1 /\ UNCHANGED completed   \* mutant
AnnounceEnd == completes' = completes + 1 /\ completed' = TRUE

(* The service stores the user's message and starts the runner, or (for a  *)
(* run from the queue) leaves the message to it.                           *)
StartRun(pre) ==
  /\ pc = "idle" /\ runs < MaxRuns
  /\ pc' = "setup" /\ stored' = pre
  /\ rows' = IF pre THEN Append(rows, UserMessage) ELSE rows
  /\ completes' = 0 /\ crashed' = FALSE
  /\ runs' = runs + 1
  /\ UNCHANGED <<ctx, msgs, turn, localVars, reply, next, chainVars, lastError,
                 completed, causes, replies, extras>>

(* Slash commands are answered without the model: n of the two rows are    *)
(* stored.  The user's message is one of them even if the service has      *)
(* stored it already.                                                      *)
SlashRows == <<UserMessage, AssistantMessage(TRUE, <<>>, FALSE)>>
SlashCommand(n) ==
  /\ pc = "setup"
  /\ Persist(n = 2)
  /\ n = 1 => ctx = "live"
  /\ rows' = rows \o SubSeq(SlashRows, 1, n)
  /\ IF n = 2
     THEN pc' = "finalize" /\ AnnounceEnd /\ UNCHANGED lastError
     ELSE localEmitError /\ UNCHANGED <<completed, completes>>
  /\ UNCHANGED <<msgs, ctx, stored, turn, localVars, reply, next, chainVars, crashed,
                 causes, replies, runs>>

(* Building the tools or the prompt, or loading the history, fails.        *)
SetupFails ==
  /\ pc = "setup"
  /\ Persist(FALSE)
  /\ localEmitError
  /\ UNCHANGED <<convVars, ctx, stored, turn, localVars, reply, next, chainVars,
                 completed, completes, crashed, causes, replies, runs>>

(* loadHistory, the hooks of a first run, and the user's message.          *)
Window == HistoryWindow(rows)
History == SanitizeMessages(filterUnresolvedToolUses(
             IF stored THEN Front(Window) ELSE Window))
SessionStart(n, noted, ok) ==
  /\ pc = "setup" /\ ctx = "live"
  /\ n \in Notes /\ (noted => n = 1 /\ History = <<>>)
  /\ stored => ok
  /\ extras' = extras + n + (IF ok THEN 0 ELSE 1)
  /\ extras' <= MaxExtras
  /\ msgs' = History \o Times(n, UserMessage) \o <<UserMessage>>
  /\ rows' = rows \o Times(IF noted THEN 1 ELSE 0, UserMessage)
                  \o Times(IF ok /\ ~stored THEN 1 ELSE 0, UserMessage)
  /\ chained' = (\E i \in DOMAIN Window : Window[i].rid)
  /\ causes' = causes \cup (IF Len(rows) > MaxHistoryMessages /\ Window[1].role = "tool"
                            THEN {"window"} ELSE {})
  /\ IF ok THEN pc' = "loop" /\ UNCHANGED lastError ELSE localEmitError
  /\ UNCHANGED <<ctx, stored, turn, localVars, reply, next, sent, covered, lapsed,
                 completed, completes, crashed, replies, runs>>

-----------------------------------------------------------------------------
(* The top of the loop: the context and the iteration limit are checked,   *)
(* and a sub-agent's mailbox is drained.                                   *)
ContextIgnored == FALSE   \* mutant: the context is not checked
ContextDone == ctx = "ended"
LoopTop(n) ==
  /\ pc = "loop" /\ n \in Notes
  /\ \/ /\ ContextDone /\ turn < MaxIterations /\ n = 0
        /\ emitError
     \/ /\ turn >= MaxIterations /\ n = 0
        /\ localEmitError
     \/ /\ ~ContextDone /\ turn < MaxIterations
        /\ pc' = "call" /\ UNCHANGED lastError
  /\ msgs' = msgs \o Times(n, UserMessage)
  /\ extras' = extras + n
  /\ UNCHANGED <<rows, ctx, stored, turn, localVars, reply, next, chainVars,
                 completed, completes, crashed, causes, replies, runs>>

KeepChain == UNCHANGED <<chained, sent, lapsed>> /\ covered' = 0   \* mutant
ResetChain == chained' = FALSE /\ sent' = 0 /\ covered' = 0 /\ lapsed' = FALSE
Compacted(stage) ==
  /\ msgs' = ReactiveCompact(stage, msgs)
  /\ causes' = causes \cup (IF \E i \in DOMAIN msgs : msgs[i].role = "tool"
                            THEN {"compaction"} ELSE {})
  /\ ResetChain

(* The call fails.  Three kinds of error are retried within the turn: the  *)
(* output limit is reduced, the messages are compacted, or the chain of    *)
(* responses is dropped.                                                   *)
ContextOverflow ==
  /\ pc = "call" /\ recoveries < MaxRecoveries
  /\ recoveries' = recoveries + 1
  /\ pc' = "loop"
  /\ UNCHANGED <<convVars, ctx, stored, turn, empties, streak, lastSig, hadErrors,
                 reply, next, chainVars, endVars, causes, countVars>>
PromptTooLong(stage) ==
  /\ pc = "call"
  /\ Compacted(stage)
  /\ pc' = "loop"
  /\ UNCHANGED <<rows, ctx, stored, turn, localVars, reply, next, endVars, countVars>>
InvalidResponseId ==
  /\ pc = "call" /\ chained
  /\ ResetChain
  /\ pc' = "loop"
  /\ UNCHANGED <<convVars, ctx, stored, turn, localVars, reply, next, endVars,
                 causes, countVars>>
CallFails ==
  /\ pc = "call"
  /\ localEmitError
  /\ UNCHANGED <<convVars, ctx, stored, turn, localVars, reply, next, chainVars,
                 completed, completes, crashed, causes, countVars>>

(* A reply arrives.  Calls the model writes as JSON text get ids made of   *)
(* their position and name, others come with fresh ids.  Not every reply   *)
(* brings a response id (rid): the non-streaming fallback never does, and  *)
(* a provider without server-side history continues the chain of another.  *)
(* The index of what was sent moves in any case.  The first empty reply is *)
(* answered with a nudge; a second one is stored as "(no content)".        *)
CallIds(names, textual) ==
  [i \in DOMAIN names |-> IF textual THEN <<0, i, names[i]>> ELSE <<replies + 1, i, "">>]
ChainReply(rid) ==
  /\ sent' = Len(msgs)
  /\ chained' = (chained \/ rid)
  /\ covered' = IF rid THEN Len(msgs) ELSE covered
  /\ lapsed' = (chained /\ ~rid)
Reply(finish, text, names, textual, fallback, rid) ==
  LET empty == finish = "stop" /\ ~text /\ names = <<>>
  IN /\ pc = "call" /\ ctx = "live"
     /\ text \/ names = <<>>    \* next to calls, text makes no difference
     /\ textual => finish = "tool_calls" /\ names # <<>>
     /\ replies + runs <= MaxReplies /\ replies' = replies + 1
     /\ extras' = extras + (IF fallback \/ ~rid THEN 1 ELSE 0)
     /\ extras' <= MaxExtras
     /\ IF fallback THEN ResetChain ELSE ChainReply(rid)
     /\ IF empty /\ empties < 1
        THEN /\ empties' = empties + 1
             /\ msgs' = Append(msgs, UserMessage)
             /\ turn' = turn + 1
             /\ pc' = "loop"
             /\ UNCHANGED <<reply, causes>>
        ELSE /\ reply' = [finish |-> finish, text |-> text \/ empty, names |-> names,
                          calls |-> CallIds(names, textual), rid |-> rid]
             /\ empties' = IF empty THEN empties ELSE 0
             /\ pc' = "reply"
             /\ causes' = causes \cup (IF textual THEN {"textual"} ELSE {})
             /\ UNCHANGED <<msgs, turn>>
     /\ UNCHANGED <<rows, ctx, stored, recoveries, streak, lastSig, hadErrors, next,
                    endVars, runs>>

(* The cost is checked against the budget before the reply is stored.      *)
BudgetExceeded ==
  /\ pc = "reply"
  /\ localEmitError
  /\ UNCHANGED <<convVars, ctx, stored, turn, localVars, reply, next, chainVars,
                 completed, completes, crashed, causes, countVars>>
GoOnUnstored == pc' = "tools" /\ UNCHANGED <<convVars, lastError>>   \* mutant
ReplyNotStored == emitError /\ UNCHANGED convVars
StoreReply(ok) ==
  LET m == AssistantMessage(reply.text, reply.calls, reply.rid)
  IN /\ pc = "reply"
     /\ Persist(ok)
     /\ IF ok
        THEN /\ rows' = Append(rows, m) /\ msgs' = Append(msgs, m)
             /\ pc' = CASE reply.finish = "tool_calls" -> "tools"
                        [] reply.finish = "length" -> "length"
                        [] OTHER -> "stop"
             /\ UNCHANGED lastError
        ELSE ReplyNotStored
     /\ UNCHANGED <<ctx, stored, turn, localVars, reply, next, chainVars, completed,
                    completes, crashed, causes, replies, runs>>

-----------------------------------------------------------------------------
(* finish_reason "tool_calls".  A batch repeated too often is not executed *)
(* but answered with a nudge per call; once calls fail, one repetition is  *)
(* too often.  An empty batch that repeats indexes an empty slice.         *)
NewStreak == IF reply.names = lastSig THEN streak + 1 ELSE 0
Repeated == NewStreak >= (IF hadErrors THEN 1 ELSE DuplicateStreak)
RepeatedBatch ==
  /\ pc = "tools" /\ Repeated /\ reply.names # <<>>
  /\ streak' = 0 /\ lastSig' = reply.names
  /\ pc' = "nudge" /\ next' = 1
  /\ UNCHANGED <<convVars, ctx, stored, turn, recoveries, empties, hadErrors, reply,
                 chainVars, endVars, causes, countVars>>
ExecuteBatch(failed, escalated) ==
  /\ pc = "tools" /\ ~Repeated
  /\ reply.names = <<>> => ~failed /\ ~escalated
  /\ escalated => failed
  /\ streak' = NewStreak /\ lastSig' = reply.names
  /\ IF escalated
     THEN emitError /\ UNCHANGED <<hadErrors, next>>
     ELSE /\ hadErrors' = failed
          /\ pc' = (IF reply.names = <<>> THEN "turnEnd" ELSE "results") /\ next' = 1
          /\ UNCHANGED lastError
  /\ UNCHANGED <<convVars, ctx, stored, turn, recoveries, empties, reply, chainVars,
                 completed, completes, crashed, causes, countVars>>

(* One result row.  The results of executed calls are stored even if the   *)
(* context has ended meanwhile, nudges are not.                            *)
Torn == IF next > 1 THEN {"torn"} ELSE {}
StoreResult(ok) ==
  /\ pc \in {"results", "nudge"}
  /\ IF pc = "results" THEN PersistDetached(ok) ELSE Persist(ok)
  /\ IF ok
     THEN /\ rows' = Append(rows, ToolMessage(reply.calls[next]))
          /\ msgs' = Append(msgs, ToolMessage(reply.calls[next]))
          /\ next' = next + 1
          /\ IF next < Len(reply.calls) THEN UNCHANGED <<pc, turn>>
             ELSE IF pc = "results" THEN pc' = "turnEnd" /\ UNCHANGED turn
             ELSE pc' = "loop" /\ turn' = turn + 1
          /\ UNCHANGED <<lastError, causes>>
     ELSE /\ emitError
          /\ causes' = causes \cup Torn
          /\ UNCHANGED <<convVars, next, turn>>
  /\ UNCHANGED <<ctx, stored, localVars, reply, chainVars, completed, completes, crashed,
                 replies, runs>>

(* The notes of tool and turn-end hooks, then compaction if the window is  *)
(* filling up.                                                             *)
EndToolTurn(n, noted, stage) ==
  /\ pc = "turnEnd" /\ n \in Notes
  /\ noted => n = 1 /\ ctx = "live"
  /\ extras' = extras + n
  /\ rows' = rows \o Times(IF noted THEN 1 ELSE 0, UserMessage)
  /\ IF stage = "none"
     THEN /\ msgs' = msgs \o Times(n, UserMessage)
          /\ UNCHANGED <<chainVars, causes, recoveries>>
     ELSE /\ msgs' = ReactiveCompact(stage, msgs \o Times(n, UserMessage))
          /\ causes' = causes \cup {"compaction"}
          /\ ResetChain
          /\ recoveries' = 0
  /\ turn' = turn + 1
  /\ pc' = "loop"
  /\ UNCHANGED <<ctx, stored, empties, streak, lastSig, hadErrors, reply, next, endVars,
                 replies, runs>>

(* finish_reason "length": the turn is retried with a larger limit; the    *)
(* truncated reply, with its calls, stays in the conversation.             *)
Truncated == IF reply.calls # <<>> THEN {"truncated"} ELSE {}
LengthRetry ==
  /\ pc = "length" /\ recoveries < MaxRecoveries
  /\ recoveries' = recoveries + 1
  /\ causes' = causes \cup Truncated
  /\ pc' = "loop"
  /\ UNCHANGED <<convVars, ctx, stored, turn, empties, streak, lastSig, hadErrors,
                 reply, next, chainVars, endVars, countVars>>
LengthGivesUp ==
  /\ pc = "length" /\ recoveries >= MaxRecoveries
  /\ emitError
  /\ UNCHANGED <<convVars, ctx, stored, turn, localVars, reply, next, chainVars,
                 completed, completes, crashed, causes, countVars>>

(* finish_reason "stop" (and unknown ones): below the output token budget  *)
(* the model is told to go on; otherwise the run is complete.              *)
BudgetNudge ==
  /\ pc = "stop" /\ reply.finish = "stop"
  /\ msgs' = Append(msgs, UserMessage)
  /\ turn' = turn + 1
  /\ hadErrors' = FALSE
  /\ causes' = causes \cup Truncated
  /\ pc' = "loop"
  /\ UNCHANGED <<rows, ctx, stored, recoveries, empties, streak, lastSig, reply, next,
                 chainVars, endVars, countVars>>
CompleteRun(n, noted) ==
  /\ pc = "stop" /\ n \in Notes
  /\ noted => n = 1 /\ ctx = "live"
  /\ extras' = extras + n
  /\ msgs' = msgs \o Times(n, UserMessage)
  /\ rows' = rows \o Times(IF noted THEN 1 ELSE 0, UserMessage)
  /\ hadErrors' = (hadErrors /\ reply.finish # "stop")
  /\ AnnounceEnd
  /\ pc' = "runEnd"
  /\ UNCHANGED <<ctx, stored, turn, recoveries, empties, streak, lastSig, reply, next,
                 chainVars, lastError, crashed, causes, replies, runs>>

(* The run-end hooks, after run_complete: each note of theirs is stored.   *)
RunEndHooks(noted) ==
  /\ pc = "runEnd"
  /\ IF noted
     THEN /\ ctx = "live" /\ extras < MaxExtras /\ extras' = extras + 1
          /\ rows' = Append(rows, UserMessage)
          /\ UNCHANGED pc
     ELSE pc' = "finalize" /\ UNCHANGED <<rows, extras>>
  /\ UNCHANGED <<msgs, ctx, stored, turn, localVars, reply, next, chainVars, endVars,
                 causes, replies, runs>>

(* The deferred cleanup: a recorded error becomes an assistant message,    *)
(* and a run that has not announced its end does so now.                   *)
Finalize(ok) ==
  /\ pc = "finalize"
  /\ IF lastError THEN PersistDetached(ok) ELSE ok /\ UNCHANGED extras
  /\ rows' = IF lastError /\ ok
             THEN Append(rows, AssistantMessage(TRUE, <<>>, FALSE)) ELSE rows
  /\ completes' = completes + (IF completed THEN 0 ELSE 1)
  /\ Return
  /\ UNCHANGED <<crashed, causes, replies, runs>>

(* The process dies, by itself or by the panic of a repeated empty batch.  *)
Dies ==
  /\ Return
  /\ crashed' = TRUE
  /\ causes' = causes \cup (IF pc \in {"results", "nudge"} THEN Torn ELSE {})
  /\ UNCHANGED <<rows, completes, replies, runs>>
Crash == pc # "idle" /\ extras < MaxExtras /\ extras' = extras + 1 /\ Dies
EmptyBatchPanics ==
  pc = "tools" /\ Repeated /\ reply.names = <<>> /\ Dies /\ UNCHANGED extras

ContextEnds ==
  /\ pc # "idle" /\ ctx = "live"
  /\ ctx' = "ended"
  /\ UNCHANGED <<convVars, pc, stored, turn, localVars, reply, next, chainVars, endVars,
                 causes, countVars>>

Step ==
  \/ \E n \in 0 .. 2 : SlashCommand(n)
  \/ SetupFails
  \/ \E n \in 0 .. 1, noted, ok \in BOOLEAN : SessionStart(n, noted, ok)
  \/ \E n \in 0 .. 1 : LoopTop(n)
  \/ ContextOverflow
  \/ \E stage \in Stages : PromptTooLong(stage)
  \/ InvalidResponseId
  \/ CallFails
  \/ \E finish \in Finishes, text, textual, fallback, rid \in BOOLEAN, names \in Batches :
        Reply(finish, text, names, textual, fallback, rid)
  \/ BudgetExceeded
  \/ \E ok \in BOOLEAN : StoreReply(ok)
  \/ RepeatedBatch
  \/ \E failed, escalated \in BOOLEAN : ExecuteBatch(failed, escalated)
  \/ \E ok \in BOOLEAN : StoreResult(ok)
  \/ \E n \in 0 .. 1, noted \in BOOLEAN, stage \in Stages : EndToolTurn(n, noted, stage)
  \/ LengthRetry \/ LengthGivesUp
  \/ BudgetNudge
  \/ \E n \in 0 .. 1, noted \in BOOLEAN : CompleteRun(n, noted)
  \/ \E noted \in BOOLEAN : RunEndHooks(noted)
  \/ \E ok \in BOOLEAN : Finalize(ok)
  \/ EmptyBatchPanics

Done == pc = "idle" /\ runs = MaxRuns /\ UNCHANGED vars

Next == (\E pre \in BOOLEAN : StartRun(pre)) \/ Step \/ ContextEnds \/ Crash \/ Done

(* The goroutine keeps running, and TotalTimeout ends every context.       *)
Fairness == WF_vars(Step) /\ WF_vars(ContextEnds)
Spec == Init /\ [][Next]_vars /\ Fairness

-----------------------------------------------------------------------------
MessageOK(m) ==
  /\ m.role \in {"user", "assistant", "tool"}
  /\ m.text \in BOOLEAN /\ m.rid \in BOOLEAN
  /\ m.calls # <<>> => m.role = "assistant"
LoopTypeOK ==
  /\ \A i \in DOMAIN rows : MessageOK(rows[i])
  /\ \A i \in DOMAIN msgs : MessageOK(msgs[i])
  /\ pc \in Steps /\ ctx \in {"live", "ended"} /\ stored \in BOOLEAN
  /\ turn \in 0 .. MaxIterations /\ recoveries \in 0 .. MaxRecoveries
  /\ empties \in 0 .. 1 /\ streak \in 0 .. DuplicateStreak
  /\ lastSig \in Batches \cup {<<>>} /\ hadErrors \in BOOLEAN
  /\ reply.finish \in Finishes /\ Len(reply.calls) = Len(reply.names)
  /\ reply.rid \in BOOLEAN
  /\ next \in Nat \ {0} /\ (pc \in {"results", "nudge"} => next <= Len(reply.calls))
  /\ chained \in BOOLEAN /\ sent \in Nat /\ covered \in Nat /\ lapsed \in BOOLEAN
  /\ lastError \in BOOLEAN /\ completed \in BOOLEAN /\ crashed \in BOOLEAN
  /\ replies \in 0 .. MaxReplies /\ runs \in 0 .. MaxRuns
  /\ extras \in 0 .. MaxExtras

(* A conversation is sent to the model with a result for every call, and a *)
(* call for every result, whatever failed, was cancelled or crashed        *)
(* before, with five exceptions: a batch whose results were stored only in *)
(* part, a truncated reply that makes calls, a window that starts in the   *)
(* middle of a turn, a compaction, and calls written as text.  So a crash  *)
(* before the first result, repeated batches, and denials are repaired.    *)
RequestsWellFormed == pc = "call" => WellFormed(msgs) \/ causes # {}

(* Every stored result directly follows the reply that asked for it: no    *)
(* error, crash or cancel stores a result without its call.                *)
StoredResultsGrounded == AllGrounded(rows)

(* With a response chain, what the loop leaves out of a request            *)
(* (runner.go, messagesToSend) was seen by some response, and the chained  *)
(* one has seen exactly that, unless a reply without a response id came    *)
(* after it: then the index of what was sent is past what it has seen.  No *)
(* recovered error, other model or compaction makes the model miss a       *)
(* message in any further way.                                             *)
ChainCoversOmitted ==
  pc = "call" /\ chained /\ sent > 0 =>
    covered <= sent /\ sent <= Len(msgs) /\ (covered = sent \/ lapsed)

(* Every run that is not cut off by a crash announces its end exactly once.*)
OneRunComplete ==
  /\ completes <= 1
  /\ pc = "idle" /\ ~crashed => completes = 1

(* The loop keeps the session's log as SessionLog promises (runner.go,     *)
(* runLoop): calls are pending from the moment their reply is stored until *)
(* their results are, or the loop returns.                                 *)
Pending ==
  CASE pc = "tools" -> reply.calls
    [] pc \in {"results", "nudge"} -> SubSeq(reply.calls, next, Len(reply.calls))
    [] OTHER -> <<>>
Phase ==
  CASE pc = "idle" -> IF crashed THEN "crashed" ELSE "ready"
    [] pc \in {"runEnd", "finalize"} -> IF completed THEN "announced" ELSE "ending"
    [] OTHER -> "running"
Session == INSTANCE SessionLog WITH log <- rows, pending <- Pending, phase <- Phase,
                                    announced <- completes
KeepsSessionLog == Session!Spec

(* Every run ends, although recoveries do not count as iterations.         *)
RunEnds == pc # "idle" ~> pc = "idle"
=============================================================================
