---------------------------- MODULE Conversation ----------------------------
(***************************************************************************)
(* The messages of a chat session and the functions that repair or shrink  *)
(* them before they are sent to the model (agentic/runner.go, context.go). *)
(* A message is abstracted to what the provider's protocol looks at: its   *)
(* role, whether it has text, the ids of the tool calls it makes, the id   *)
(* of the call it answers, and whether a response id is stored with it.    *)
(***************************************************************************)
EXTENDS Naturals, Sequences, SequencesExt

CONSTANTS MaxHistoryMessages,  \* the window of loadHistory (200)
          TailSize             \* messages a compaction preserves (4)

ASSUME ConversationAssumptions ==
  /\ MaxHistoryMessages \in Nat \ {0}
  /\ TailSize \in Nat \ {0}

NoId == <<>>
Message(role, text, calls, id, rid) ==
  [role |-> role, text |-> text, calls |-> calls, id |-> id, rid |-> rid]
UserMessage == Message("user", TRUE, <<>>, NoId, FALSE)
AssistantMessage(text, calls, rid) == Message("assistant", text, calls, NoId, rid)
ToolMessage(id) == Message("tool", TRUE, <<>>, id, FALSE)

(* What the provider accepts: every call is answered, and every tool       *)
(* message answers a call, with nothing but tool messages in between.      *)
OnlyToolsBetween(ms, i, j) == \A k \in i + 1 .. j - 1 : ms[k].role = "tool"
Answers(ms, i, j) ==
  /\ i < j
  /\ ms[i].role = "assistant" /\ ms[j].role = "tool"
  /\ ms[j].id \in ToSet(ms[i].calls)
  /\ OnlyToolsBetween(ms, i, j)
AllAnswered(ms) ==
  \A i \in DOMAIN ms : \A c \in ToSet(ms[i].calls) :
    \E j \in DOMAIN ms : Answers(ms, i, j) /\ ms[j].id = c
AllGrounded(ms) ==
  \A j \in DOMAIN ms : ms[j].role = "tool" => \E i \in DOMAIN ms : Answers(ms, i, j)
WellFormed(ms) == AllAnswered(ms) /\ AllGrounded(ms)

-----------------------------------------------------------------------------
(* loadHistory: what of the stored rows a run starts from.                 *)

HistoryWindow(rows) ==
  SubSeq(rows, IF Len(rows) > MaxHistoryMessages
               THEN Len(rows) - MaxHistoryMessages + 1 ELSE 1, Len(rows))

(* An assistant message goes when none of its calls has a result anywhere. *)
(* Tool messages that answer no call stay.                                 *)
ResultIds(ms) == {ms[i].id : i \in {j \in DOMAIN ms : ms[j].role = "tool"}} \ {NoId}
KeepUnresolved(ms) == ms   \* mutant: the filter is forgotten
Unresolved(m, ids) ==
  m.role = "assistant" /\ m.calls # <<>> /\ ToSet(m.calls) \cap ids = {}
filterUnresolvedToolUses(ms) ==
  LET ids == ResultIds(ms)
      kept[n \in 0 .. Len(ms)] ==
        IF n = 0 THEN <<>>
        ELSE IF Unresolved(ms[n], ids) THEN kept[n - 1]
        ELSE Append(kept[n - 1], ms[n])
  IN  kept[Len(ms)]

Plain(m) == m.role = "assistant" /\ m.calls = <<>>
Collapses(m, n) == \/ m.role = "user" /\ n.role = "user"
                   \/ Plain(m) /\ Plain(n)
Sanitized(kept, m) ==
  IF Plain(m) /\ ~m.text THEN kept
  ELSE IF kept # <<>> /\ Collapses(Last(kept), m) THEN Append(Front(kept), m)
  ELSE Append(kept, m)
SanitizeMessages(ms) ==
  LET kept[n \in 0 .. Len(ms)] ==
        IF n = 0 THEN <<>> ELSE Sanitized(kept[n - 1], ms[n])
  IN  kept[Len(ms)]

-----------------------------------------------------------------------------
(* Compaction.  The messages of a run are converted to chat rows and back: *)
(* aiMessagesToChatMessages copies neither the id of the answered call nor *)
(* the message type, so no tool message keeps its id, and the functions    *)
(* that look for tool_result rows (truncateOldToolResults and              *)
(* adjustSplitForToolPairs) find none.                                     *)

aiMessagesToChatMessages(ms) ==
  [i \in DOMAIN ms |-> [ms[i] EXCEPT !.id = NoId]]

snipOldHistory(ms) ==
  SubSeq(ms, IF Len(ms) > 2 * TailSize THEN Len(ms) - 2 * TailSize + 1 ELSE 1, Len(ms))

microcompact(ms) ==
  [i \in DOMAIN ms |-> IF i + TailSize <= Len(ms) THEN [ms[i] EXCEPT !.calls = <<>>]
                                                   ELSE ms[i]]

(* The stage follows from the estimated share of the context window: below *)
(* 75%, then steps of 5%.  Without a summarizer, and the loop passes none, *)
(* the last stage returns the messages as they are.  VerifyCompaction, if  *)
(* the share is still in the stage's range, applies the same stage again:  *)
(* nothing grows, and each stage is idempotent.                            *)
Stages == {"none", "tool_result_truncation", "history_snip", "microcompact",
           "full_summarization"}
ReactiveCompact(stage, ms) ==
  LET rows == aiMessagesToChatMessages(ms)
  IN CASE stage = "history_snip" -> snipOldHistory(rows)
       [] stage = "microcompact" -> microcompact(rows)
       [] OTHER -> rows
=============================================================================
