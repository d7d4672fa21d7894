----------------------------- MODULE ToolProofs -------------------------------
(***************************************************************************)
(* The tool calls of a run.                                                *)
(*                                                                         *)
(* ToolTurn, for any tools, rules, limits and batches: no call has an      *)
(* effect that the rules of its run forbid, no tool has more effects than  *)
(* its limit, and the accounts of a run (escalations, stored facts, results*)
(* sent) agree.                                                            *)
(*                                                                         *)
(* ToolBatches, for any number of calls, any turns, any semaphore and any  *)
(* cache size: a turn of tool calls is safe however its goroutines         *)
(* interleave.                                                             *)
(***************************************************************************)
EXTENDS ToolTurn, ToolBatches, FiniteSetTheorems, SequenceTheorems, TLAPS

-----------------------------------------------------------------------------
(* The inductive invariant of the tool calls of a run.                     *)

OutcomeRec == [kind : Kinds \cup {"retry limit", "not allowed", "denied", "destructive"},
               ok : BOOLEAN, sent : Nat, flagged : BOOLEAN]

(* What TurnTypeOK leaves open: the sequences, and the histories.          *)
TurnTypes ==
  /\ batch \in Seq(ACall) /\ outcome \in Seq(OutcomeRec)
  /\ Len(outcome) <= Len(batch)
  /\ phase \in {"model", "calls", "agents", "results", "escalated"}
  /\ hadErrors \in BOOLEAN
  /\ toolRetries \in [Tools -> Nat] /\ denials \in [Tools -> Nat]
  /\ effects \in [Tools -> Nat] /\ escalations \subseteq Tools

(* A call is counted before it has an effect, and counting stops at the    *)
(* limit.                                                                  *)
CountedFirst ==
  \A t \in Tools : Kind[t] \notin {"memory_store", "memory_store_bulk"} =>
    effects[t] <= toolRetries[t] /\ toolRetries[t] <= MaxToolRetries

(* The escalated tools are those whose denials have reached the threshold; *)
(* a turn begins without any.                                              *)
EscalationsExact ==
  /\ \A t \in Tools : t \in escalations <=> denials[t] >= DenialThreshold
  /\ announced \subseteq escalations
  /\ phase = "model" \/ (phase = "calls" /\ outcome = <<>>) => escalations = {}

(* A fact that is marked as stored is in memory, or was given up by a bulk *)
(* store.                                                                  *)
MarkedIsStored ==
  /\ storedKeys \subseteq memory \cup bulkFailed
  /\ claimed \subseteq memory \cup bulkFailed

(* Every fact is one the calls may be about.                               *)
FactsTyped ==
  /\ collected \subseteq Args /\ storedKeys \subseteq Args
  /\ memory \subseteq Args /\ claimed \subseteq Args /\ bulkFailed \subseteq Args

(* Until a turn ends, a flagged result has been sent once and another one  *)
(* not at all, or once by a path that sends it itself.                     *)
SentSoFar ==
  phase # "model" => \A i \in DOMAIN outcome :
    IF outcome[i].flagged THEN outcome[i].sent = 1
    ELSE outcome[i].sent = 0 \/ (outcome[i].kind \in SentTwice /\ outcome[i].sent = 1)

TurnInv ==
  /\ TurnTypes /\ OnlyPermittedExecute /\ CountedFirst /\ EscalationsExact
  /\ MarkedIsStored /\ FactsTyped /\ SentSoFar /\ OneResultPerCall

-----------------------------------------------------------------------------
(* The call being handled is one of the batch.                             *)
LEMMA TheCallType ==
  ASSUME TurnTypes, Handling
  PROVE  /\ TheCall \in ACall /\ TheCall.tool \in Tools /\ Kind[TheCall.tool] \in Kinds
         /\ TheCall.args \subseteq Args
  <1>1. Pos \in 1 .. Len(batch)
    BY DEF TurnTypes, Handling, Pos
  <1>2. TheCall \in ACall
    BY <1>1, ElementOfSeq DEF TurnTypes, TheCall
  <1> QED
    BY <1>2, ToolTurnAssumptions DEF ACall

(* One more result: it keeps what is known of the results of the turn.     *)
LEMMA AnswerStep ==
  ASSUME TurnInv, Handling, NEW o \in OutcomeRec, Answered(o),
         UNCHANGED <<phase, batch>>,
         IF o.flagged THEN o.sent = 1
         ELSE o.sent = 0 \/ (o.kind \in SentTwice /\ o.sent = 1)
  PROVE  /\ outcome' \in Seq(OutcomeRec) /\ Len(outcome') <= Len(batch')
         /\ outcome' # <<>> /\ SentSoFar' /\ OneResultPerCall' /\ phase' = "calls"
  <1>1. /\ outcome \in Seq(OutcomeRec) /\ phase = "calls" /\ phase' = "calls"
        /\ outcome' = Append(outcome, o) /\ Len(outcome) + 1 <= Len(batch)
    BY DEF TurnInv, TurnTypes, Handling, Answered, Pos
  <1>2. /\ outcome' \in Seq(OutcomeRec) /\ Len(outcome') = Len(outcome) + 1
        /\ DOMAIN outcome' = 1 .. Len(outcome) + 1 /\ DOMAIN outcome = 1 .. Len(outcome)
        /\ \A i \in 1 .. Len(outcome) : outcome'[i] = outcome[i]
        /\ outcome'[Len(outcome) + 1] = o /\ Len(outcome) \in Nat
    BY <1>1
  <1>3. SentSoFar'
    BY <1>1, <1>2 DEF TurnInv, SentSoFar
  <1> QED
    BY <1>1, <1>2, <1>3 DEF OneResultPerCall

(* Counting a call, which has an effect only below the limit.              *)
LEMMA CountStep ==
  ASSUME TurnInv, NEW c \in ACall, c.tool \in Tools, CountCall(c),
         UNCHANGED effects \/ (~RetryLimit(c) /\ effects' = [effects EXCEPT ![c.tool] = @ + 1])
  PROVE  toolRetries' \in [Tools -> Nat] /\ effects' \in [Tools -> Nat] /\ CountedFirst'
  <1>1. toolRetries \in [Tools -> Nat] /\ effects \in [Tools -> Nat] /\ CountedFirst
    BY DEF TurnInv, TurnTypes
  <1>2. toolRetries' \in [Tools -> Nat] /\ effects' \in [Tools -> Nat]
    BY <1>1 DEF CountCall
  <1> QED
    BY <1>1, <1>2, ToolTurnAssumptions DEF CountCall, CountedFirst, RetryLimit, MemoryTool

(* A permitted call passes all checks.                                     *)
LEMMA PermittedCall ==
  ASSUME NEW approved \in BOOLEAN, Permitted(approved)
  PROVE  /\ Handling /\ ~RetryLimit(TheCall) /\ ~NotAllowed(TheCall) /\ ~Frontend(TheCall)
         /\ ~Refused(TheCall, approved) /\ ~TooDestructive(TheCall)
         /\ approved => TheCall.rule = "confirm"
  BY DEF Permitted, Verdict

(* So its effect is one that the rules allow.                              *)
LEMMA PermittedEffect ==
  ASSUME TurnInv, NEW approved \in BOOLEAN, Permitted(approved),
         UNCHANGED executed \/ executed' = executed \cup {[call |-> TheCall, approved |-> approved]}
  PROVE  OnlyPermittedExecute'
  <1> DEFINE Fine(e) == /\ Allowed = {} \/ e.call.tool \in Allowed
                        /\ ~Frontend(e.call) => /\ e.call.rule # "deny"
                                                /\ e.call.rule = "confirm" => e.approved
                                                /\ ~TooDestructive(e.call)
  <1>1. \A e \in executed : Fine(e)
    BY DEF TurnInv, OnlyPermittedExecute
  <1>2. Fine([call |-> TheCall, approved |-> approved])
    BY PermittedCall DEF NotAllowed, Refused
  <1>3. \A e \in executed' : Fine(e)
    BY <1>1, <1>2
  <1> QED
    BY <1>3 DEF OnlyPermittedExecute, Frontend, TooDestructive

-----------------------------------------------------------------------------
(* Every way of handling a call keeps the invariant.                       *)
LEMMA HandleCallStep ==
  ASSUME TurnInv, HandleCall
  PROVE  TurnInv'
  <1>1. PICK approved \in BOOLEAN, ok \in BOOLEAN, some \in SUBSET Args :
          \/ Reject(approved) \/ FrontendAction(ok) \/ UnsupportedMode(approved)
          \/ AskUser(approved, some) \/ MemoryStore(approved, ok)
          \/ MemoryStoreBulk(approved, some) \/ Builtin(approved, ok) \/ Route(approved)
    BY DEF HandleCall
  <1> DEFINE c == TheCall
  <1>2. /\ Handling /\ c \in ACall /\ c.tool \in Tools /\ Kind[c.tool] \in Kinds
        /\ c.args \subseteq Args
    BY <1>1, TheCallType
    DEF TurnInv, Reject, FrontendAction, UnsupportedMode, AskUser, MemoryStore,
        MemoryStoreBulk, Builtin, Route, Permitted
  <1>3. CASE Reject(approved)
    <2> DEFINE verdict == Verdict(c, approved)
               events == IF verdict \in {"retry limit", "not allowed"} THEN 1 ELSE 0
               o == Outcome(verdict, FALSE, events, FALSE)
    <2>1. /\ verdict \in {"retry limit", "not allowed", "denied", "destructive"}
          /\ CountCall(c) /\ Answered(o)
          /\ UNCHANGED <<phase, batch, hadErrors, collected, storedKeys, memoryVars, doneVars>>
          /\ IF verdict = "denied" THEN RecordDenial(c.tool) ELSE UNCHANGED <<denials, escalations>>
          /\ announced' = announced \cup (IF c.rule = "deny" THEN escalations' \ escalations ELSE {})
      BY <1>3 DEF Reject
    <2> HIDE DEF c, verdict
    <2>2. o \in OutcomeRec
      BY <2>1 DEF Outcome, OutcomeRec
    <2>3. o.flagged = FALSE /\ (o.sent = 0 \/ (o.kind \in SentTwice /\ o.sent = 1))
      BY <2>1 DEF Outcome, SentTwice
    <2>4. /\ outcome' \in Seq(OutcomeRec) /\ Len(outcome') <= Len(batch')
          /\ outcome' # <<>> /\ SentSoFar' /\ OneResultPerCall' /\ phase' = "calls"
      BY <1>2, <2>1, <2>2, <2>3, AnswerStep
    <2>5. toolRetries' \in [Tools -> Nat] /\ effects' \in [Tools -> Nat] /\ CountedFirst'
      BY <1>2, <2>1, CountStep DEF doneVars
    <2>6. denials' \in [Tools -> Nat] /\ escalations' \subseteq Tools /\ EscalationsExact'
      <3>1. CASE verdict # "denied"
        BY <2>1, <2>4, <3>1 DEF TurnInv, TurnTypes, EscalationsExact
      <3>2. CASE verdict = "denied"
        <4>1. /\ denials' = [denials EXCEPT ![c.tool] = denials[c.tool] + 1]
              /\ escalations' = escalations \cup
                   (IF denials[c.tool] + 1 >= DenialThreshold THEN {c.tool} ELSE {})
          BY <2>1, <3>2 DEF RecordDenial
        <4>2. denials \in [Tools -> Nat] /\ denials[c.tool] \in Nat
          BY <1>2 DEF TurnInv, TurnTypes
        <4>3. denials' \in [Tools -> Nat] /\ escalations' \subseteq Tools
          BY <1>2, <4>1, <4>2 DEF TurnInv, TurnTypes
        <4>4. \A t \in Tools : t \in escalations' <=> denials'[t] >= DenialThreshold
          BY <1>2, <4>1, <4>2, ToolTurnAssumptions DEF TurnInv, EscalationsExact
        <4>5. announced' \subseteq escalations'
          BY <2>1, <4>1 DEF TurnInv, EscalationsExact
        <4> QED
          BY <2>4, <4>3, <4>4, <4>5 DEF EscalationsExact
      <3> QED
        BY <3>1, <3>2
    <2>7. TurnTypes' /\ OnlyPermittedExecute'
      BY <2>1, <2>4, <2>5, <2>6 DEF TurnInv, TurnTypes, OnlyPermittedExecute, doneVars, Frontend, TooDestructive
    <2>8. MarkedIsStored' /\ FactsTyped'
      BY <2>1 DEF TurnInv, MarkedIsStored, FactsTyped, memoryVars
    <2> QED
      BY <2>4, <2>5, <2>6, <2>7, <2>8 DEF TurnInv
  <1>4. CASE FrontendAction(ok)
    <2> DEFINE o == Outcome("frontend", ok, 1, FALSE)
    <2>1. /\ Verdict(c, FALSE) = "frontend" /\ CountCall(c) /\ Answered(o) /\ Ran(c, FALSE)
          /\ UNCHANGED <<phase, batch, hadErrors, denials, escalations, collected, storedKeys,
                         memoryVars, announced>>
      BY <1>4 DEF FrontendAction
    <2>2. Frontend(c) /\ ~RetryLimit(c) /\ ~NotAllowed(c)
      BY <2>1 DEF Verdict
    <2> HIDE DEF c
    <2>3. o \in OutcomeRec /\ ~o.flagged /\ o.kind \in SentTwice /\ o.sent = 1
      BY DEF Outcome, OutcomeRec, Kinds, SentTwice
    <2>4. /\ outcome' \in Seq(OutcomeRec) /\ Len(outcome') <= Len(batch')
          /\ outcome' # <<>> /\ SentSoFar' /\ OneResultPerCall' /\ phase' = "calls"
      BY <1>2, <2>1, <2>3, AnswerStep
    <2>5. toolRetries' \in [Tools -> Nat] /\ effects' \in [Tools -> Nat] /\ CountedFirst'
      BY <1>2, <2>1, <2>2, CountStep DEF Ran
    <2>6. EscalationsExact' /\ TurnTypes'
      BY <2>1, <2>4, <2>5 DEF TurnInv, TurnTypes, EscalationsExact
    <2>7. OnlyPermittedExecute'
      BY <2>1, <2>2 DEF TurnInv, OnlyPermittedExecute, Ran, NotAllowed, Frontend, TooDestructive
    <2>8. MarkedIsStored' /\ FactsTyped'
      BY <2>1 DEF TurnInv, MarkedIsStored, FactsTyped, memoryVars
    <2> QED
      BY <2>4, <2>5, <2>6, <2>7, <2>8 DEF TurnInv
  <1>5. ASSUME Permitted(approved), CountCall(c),
               UNCHANGED <<phase, batch, hadErrors, denials, escalations, announced>>,
               NEW o \in OutcomeRec, Answered(o),
               IF o.flagged THEN o.sent = 1
               ELSE o.sent = 0 \/ (o.kind \in SentTwice /\ o.sent = 1),
               UNCHANGED doneVars \/ Ran(c, approved),
               MarkedIsStored', FactsTyped'
        PROVE  TurnInv'
    <2>1. ~RetryLimit(c)
      BY <1>5, PermittedCall
    <2>2. OnlyPermittedExecute'
      BY <1>5, PermittedEffect DEF doneVars, Ran
    <2>3. /\ outcome' \in Seq(OutcomeRec) /\ Len(outcome') <= Len(batch')
          /\ outcome' # <<>> /\ SentSoFar' /\ OneResultPerCall' /\ phase' = "calls"
      BY <1>2, <1>5, AnswerStep
    <2> HIDE DEF c
    <2>4. toolRetries' \in [Tools -> Nat] /\ effects' \in [Tools -> Nat] /\ CountedFirst'
      BY <1>2, <1>5, <2>1, CountStep DEF Ran, doneVars
    <2>5. EscalationsExact' /\ TurnTypes'
      BY <1>5, <2>3, <2>4 DEF TurnInv, TurnTypes, EscalationsExact
    <2> QED
      BY <1>5, <2>2, <2>3, <2>4, <2>5 DEF TurnInv
  <1>6. UNCHANGED <<collected, storedKeys, memoryVars>> => MarkedIsStored' /\ FactsTyped'
    BY DEF TurnInv, MarkedIsStored, FactsTyped, memoryVars
  <1>7. ASSUME NEW kind \in Kinds, NEW good \in BOOLEAN
        PROVE  /\ Outcome(kind, good, 0, FALSE) \in OutcomeRec
               /\ Outcome(kind, good, 0, FALSE).flagged = FALSE
               /\ Outcome(kind, good, 0, FALSE).sent = 0
    BY DEF Outcome, OutcomeRec
  <1>8. CASE UnsupportedMode(approved)
    <2>1. /\ Outcome("mode", FALSE, 1, FALSE) \in OutcomeRec
          /\ Outcome("mode", FALSE, 1, FALSE).flagged = FALSE
          /\ Outcome("mode", FALSE, 1, FALSE).sent = 1
          /\ Outcome("mode", FALSE, 1, FALSE).kind \in SentTwice
      BY DEF Outcome, OutcomeRec, Kinds, SentTwice
    <2> QED
      BY <1>5, <1>6, <1>8, <2>1 DEF UnsupportedMode
  <1>9. CASE AskUser(approved, some)
    <2>1. MarkedIsStored' /\ FactsTyped'
      BY <1>2, <1>9 DEF AskUser, TurnInv, MarkedIsStored, FactsTyped, memoryVars
    <2> QED
      BY <1>5, <1>7, <1>9, <2>1 DEF AskUser, Kinds
  <1>10. CASE MemoryStore(approved, ok)
    <2>1. MarkedIsStored' /\ FactsTyped'
      BY <1>2, <1>10 DEF MemoryStore, TurnInv, MarkedIsStored, FactsTyped
    <2> QED
      BY <1>5, <1>7, <1>10, <2>1 DEF MemoryStore, Kinds
  <1>11. CASE MemoryStoreBulk(approved, some)
    <2>1. MarkedIsStored' /\ FactsTyped'
      BY <1>2, <1>11 DEF MemoryStoreBulk, TurnInv, MarkedIsStored, FactsTyped
    <2> QED
      BY <1>5, <1>7, <1>11, <2>1 DEF MemoryStoreBulk, Kinds
  <1>12. CASE Builtin(approved, ok)
    <2> DEFINE manages == Kind[c.tool] = "manage"
               o == Outcome(Kind[c.tool], ok, IF manages THEN 1 ELSE 0, manages)
    <2>1. o \in OutcomeRec /\ (IF o.flagged THEN o.sent = 1 ELSE o.sent = 0)
      BY <1>2 DEF Outcome, OutcomeRec
    <2> QED
      BY <1>5, <1>6, <1>12, <2>1 DEF Builtin
  <1>13. CASE Route(approved)
    BY <1>5, <1>6, <1>7, <1>13 DEF Route, Kinds
  <1> QED
    BY <1>1, <1>3, <1>4, <1>8, <1>9, <1>10, <1>11, <1>12, <1>13

-----------------------------------------------------------------------------
(* A sequence whose elements are replaced one for one.                     *)
LEMMA Replaced ==
  ASSUME outcome \in Seq(OutcomeRec), NEW f,
         f = [i \in DOMAIN outcome |-> f[i]],
         \A i \in DOMAIN outcome : f[i] \in OutcomeRec
  PROVE  f \in Seq(OutcomeRec) /\ Len(f) = Len(outcome) /\ DOMAIN f = DOMAIN outcome
  <1>1. DOMAIN outcome = 1 .. Len(outcome) /\ Len(outcome) \in Nat
    BY LenProperties
  <1>2. f \in [1 .. Len(outcome) -> OutcomeRec]
    BY <1>1
  <1>3. f \in Seq(OutcomeRec)
    BY <1>1, <1>2, IsASeq
  <1> QED
    BY <1>1, <1>2, <1>3, LenProperties

(* The executors only fill in the results of the calls that wait for them, *)
(* and a tool that succeeds loses its denials with its escalation.         *)
LEMMA ExecuteAllStep ==
  ASSUME TurnInv, NEW good, NEW stopped, ExecuteAll(good, stopped)
  PROVE  TurnInv'
  <1> DEFINE waiting == Waiting("regular")
             allowed == {ToolOf(i) : i \in good}
  <1>1. /\ phase = "calls" /\ phase' = "agents" /\ good \subseteq waiting
        /\ outcome' = [i \in DOMAIN outcome |->
                         IF i \notin waiting THEN outcome[i]
                         ELSE IF i \in stopped THEN Outcome("regular", FALSE, 0, FALSE)
                         ELSE Outcome("regular", i \in good, 1, TRUE)]
        /\ denials' = [t \in Tools |-> IF t \in allowed THEN 0 ELSE denials[t]]
        /\ escalations' = escalations \ allowed /\ announced' = announced \ allowed
        /\ UNCHANGED <<batch, hadErrors, toolRetries, collected, storedKeys, memoryVars, doneVars>>
    BY DEF ExecuteAll
  <1> HIDE DEF waiting, allowed
  <1>2. \A i \in DOMAIN outcome :
          /\ outcome'[i] \in OutcomeRec
          /\ IF outcome'[i].flagged THEN outcome'[i].sent = 1
             ELSE outcome'[i].sent = 0 \/ (outcome'[i].kind \in SentTwice /\ outcome'[i].sent = 1)
    <2>1. \A i \in DOMAIN outcome :
            /\ outcome[i] \in OutcomeRec
            /\ IF outcome[i].flagged THEN outcome[i].sent = 1
               ELSE outcome[i].sent = 0 \/ (outcome[i].kind \in SentTwice /\ outcome[i].sent = 1)
      BY <1>1, ElementOfSeq DEF TurnInv, TurnTypes, SentSoFar
    <2>2. \A ok \in BOOLEAN :
            /\ Outcome("regular", ok, 0, FALSE) \in OutcomeRec
            /\ Outcome("regular", ok, 0, FALSE).flagged = FALSE
            /\ Outcome("regular", ok, 0, FALSE).sent = 0
            /\ Outcome("regular", ok, 1, TRUE) \in OutcomeRec
            /\ Outcome("regular", ok, 1, TRUE).flagged = TRUE
            /\ Outcome("regular", ok, 1, TRUE).sent = 1
      BY DEF Outcome, OutcomeRec, Kinds
    <2> TAKE i \in DOMAIN outcome
    <2>3. CASE i \notin waiting
      <3>1. outcome'[i] = outcome[i]
        BY <1>1, <2>3
      <3> QED
        BY <2>1, <3>1
    <2>4. CASE i \in waiting /\ i \in stopped
      <3>1. outcome'[i] = Outcome("regular", FALSE, 0, FALSE)
        BY <1>1, <2>4
      <3> QED
        BY <2>2, <3>1
    <2>5. CASE i \in waiting /\ i \notin stopped
      <3>1. outcome'[i] = Outcome("regular", i \in good, 1, TRUE)
        BY <1>1, <2>5
      <3>2. (i \in good) \in BOOLEAN
        OBVIOUS
      <3> QED
        BY <2>2, <3>1, <3>2
    <2> QED
      BY <2>3, <2>4, <2>5
  <1>3. /\ outcome' \in Seq(OutcomeRec) /\ Len(outcome') = Len(outcome)
        /\ DOMAIN outcome' = DOMAIN outcome
    BY <1>1, <1>2, Replaced DEF TurnInv, TurnTypes
  <1>4. denials' \in [Tools -> Nat]
    BY <1>1 DEF TurnInv, TurnTypes
  <1>5. TurnTypes' /\ SentSoFar' /\ OneResultPerCall'
    BY <1>1, <1>2, <1>3, <1>4 DEF TurnInv, TurnTypes, SentSoFar, OneResultPerCall, doneVars
  <1>6. EscalationsExact'
    BY <1>1, ToolTurnAssumptions DEF TurnInv, TurnTypes, EscalationsExact
  <1>7. CountedFirst' /\ OnlyPermittedExecute'
    BY <1>1 DEF TurnInv, CountedFirst, OnlyPermittedExecute, doneVars, Frontend, TooDestructive
  <1>8. MarkedIsStored' /\ FactsTyped'
    BY <1>1 DEF TurnInv, MarkedIsStored, FactsTyped, memoryVars
  <1> QED
    BY <1>5, <1>6, <1>7, <1>8 DEF TurnInv

(* ExecuteParallel: every call of the batch that is to run gets one        *)
(* result, whatever fails.                                                 *)
LEMMA ExecuteParallelStep ==
  ASSUME TurnInv, NEW good, ExecuteParallel(good)
  PROVE  TurnInv'
  <1>1. /\ phase = "agents" /\ phase' = "results"
        /\ outcome' = [i \in DOMAIN outcome |->
                         IF i \in good THEN [outcome[i] EXCEPT !.ok = TRUE] ELSE outcome[i]]
        /\ UNCHANGED <<batch, hadErrors, limitVars, memoryVars, doneVars, announced>>
    BY DEF ExecuteParallel
  <1>2. \A i \in DOMAIN outcome :
          /\ outcome[i] \in OutcomeRec
          /\ IF outcome[i].flagged THEN outcome[i].sent = 1
             ELSE outcome[i].sent = 0 \/ (outcome[i].kind \in SentTwice /\ outcome[i].sent = 1)
    BY <1>1, ElementOfSeq DEF TurnInv, TurnTypes, SentSoFar
  <1>3. \A i \in DOMAIN outcome :
          /\ outcome'[i] \in OutcomeRec /\ outcome'[i].flagged = outcome[i].flagged
          /\ outcome'[i].kind = outcome[i].kind /\ outcome'[i].sent = outcome[i].sent
    BY <1>1, <1>2 DEF OutcomeRec
  <1>4. /\ outcome' \in Seq(OutcomeRec) /\ Len(outcome') = Len(outcome)
        /\ DOMAIN outcome' = DOMAIN outcome
    BY <1>1, <1>3, Replaced DEF TurnInv, TurnTypes
  <1>5. TurnTypes' /\ SentSoFar' /\ OneResultPerCall'
    BY <1>1, <1>2, <1>3, <1>4
    DEF TurnInv, TurnTypes, SentSoFar, OneResultPerCall, doneVars, limitVars
  <1>6. EscalationsExact' /\ CountedFirst' /\ OnlyPermittedExecute'
    BY <1>1 DEF TurnInv, EscalationsExact, CountedFirst, OnlyPermittedExecute, doneVars,
                limitVars, Frontend, TooDestructive
  <1>7. MarkedIsStored' /\ FactsTyped'
    BY <1>1 DEF TurnInv, MarkedIsStored, FactsTyped, memoryVars, limitVars
  <1> QED
    BY <1>5, <1>6, <1>7 DEF TurnInv

(* Sending a result once more changes nothing else of it.                  *)
LEMMA SendOnce ==
  ASSUME NEW x \in OutcomeRec
  PROVE  LET y == [x EXCEPT !.sent = x.sent + 1]
         IN  y \in OutcomeRec /\ y.kind = x.kind /\ y.sent = x.sent + 1
  <1>1. x.sent \in Nat
    BY DEF OutcomeRec
  <1>2. ASSUME NEW n \in Nat
        PROVE  LET y == [x EXCEPT !.sent = n]
               IN  y \in OutcomeRec /\ y.kind = x.kind /\ y.sent = n
    BY DEF OutcomeRec
  <1>3. x.sent + 1 \in Nat
    BY <1>1
  <1> QED
    BY <1>2, <1>3

(* The end of a turn sends what has not been sent.                         *)
LEMMA StoreResultsStep ==
  ASSUME TurnInv, StoreResults
  PROVE  TurnInv'
  <1>1. /\ phase = "results" /\ phase' = "model" /\ escalations = {}
        /\ outcome' = [i \in DOMAIN outcome |->
                         IF outcome[i].flagged THEN outcome[i]
                         ELSE [outcome[i] EXCEPT !.sent = @ + 1]]
        /\ hadErrors' \in BOOLEAN
        /\ UNCHANGED <<batch, limitVars, memoryVars, doneVars, announced>>
    BY DEF StoreResults
  <1>2. \A i \in DOMAIN outcome :
          /\ outcome[i] \in OutcomeRec
          /\ IF outcome[i].flagged THEN outcome[i].sent = 1
             ELSE outcome[i].sent = 0 \/ (outcome[i].kind \in SentTwice /\ outcome[i].sent = 1)
    BY <1>1, ElementOfSeq DEF TurnInv, TurnTypes, SentSoFar
  <1>3. \A i \in DOMAIN outcome :
          /\ outcome'[i] \in OutcomeRec
          /\ outcome'[i].sent = 1 \/ (outcome'[i].kind \in SentTwice /\ outcome'[i].sent = 2)
    <2> TAKE i \in DOMAIN outcome
    <2>1. CASE outcome[i].flagged
      BY <1>1, <1>2, <2>1
    <2>2. CASE ~outcome[i].flagged
      <3>1. outcome'[i] = [outcome[i] EXCEPT !.sent = outcome[i].sent + 1]
        BY <1>1, <2>2
      <3>2. outcome[i] \in OutcomeRec
        BY <1>2
      <3>3. /\ outcome'[i] \in OutcomeRec /\ outcome'[i].kind = outcome[i].kind
            /\ outcome'[i].sent = outcome[i].sent + 1
        BY <3>1, <3>2, SendOnce
      <3> QED
        BY <1>2, <2>2, <3>3
    <2> QED
      BY <2>1, <2>2
  <1>4. /\ outcome' \in Seq(OutcomeRec) /\ Len(outcome') = Len(outcome)
        /\ DOMAIN outcome' = DOMAIN outcome
    <2>1. outcome' = [i \in DOMAIN outcome |-> outcome'[i]]
      BY <1>1
    <2> QED
      BY <1>3, <2>1, Replaced DEF TurnInv, TurnTypes
  <1>5. TurnTypes' /\ SentSoFar' /\ OneResultPerCall'
    BY <1>1, <1>3, <1>4 DEF TurnInv, TurnTypes, SentSoFar, OneResultPerCall, doneVars, limitVars
  <1>6. EscalationsExact' /\ CountedFirst' /\ OnlyPermittedExecute'
    BY <1>1 DEF TurnInv, EscalationsExact, CountedFirst, OnlyPermittedExecute, doneVars,
                limitVars, Frontend, TooDestructive
  <1>7. MarkedIsStored' /\ FactsTyped'
    BY <1>1 DEF TurnInv, MarkedIsStored, FactsTyped, memoryVars, limitVars
  <1> QED
    BY <1>5, <1>6, <1>7 DEF TurnInv

-----------------------------------------------------------------------------
(* A run begins without calls.                                             *)
LEMMA InitTurnInv == TurnInit => TurnInv
  <1> SUFFICES ASSUME TurnInit PROVE TurnInv
    OBVIOUS
  <1>1. <<>> \in Seq(ACall) /\ <<>> \in Seq(OutcomeRec) /\ Len(<<>>) = 0
    OBVIOUS
  <1>2. TurnTypes
    <2>1. /\ batch \in Seq(ACall) /\ outcome \in Seq(OutcomeRec)
          /\ Len(outcome) <= Len(batch) /\ phase = "model"
      BY <1>1 DEF TurnInit
    <2>2. /\ toolRetries \in [Tools -> Nat] /\ denials \in [Tools -> Nat]
          /\ effects \in [Tools -> Nat] /\ escalations \subseteq Tools
      BY DEF TurnInit
    <2>3. hadErrors \in BOOLEAN
      BY DEF TurnInit
    <2> QED
      BY <2>1, <2>2, <2>3 DEF TurnTypes
  <1> QED
    BY <1>2, ToolTurnAssumptions
    DEF TurnInit, TurnInv, OnlyPermittedExecute, CountedFirst, EscalationsExact,
        MarkedIsStored, FactsTyped, SentSoFar, OneResultPerCall

(* Every step of a run keeps the invariant.                                *)
LEMMA StepTurnInv == TurnInv /\ [TurnNext]_turnVars => TurnInv'
  <1> SUFFICES ASSUME TurnInv, [TurnNext]_turnVars PROVE TurnInv'
    OBVIOUS
  <1>1. ASSUME NEW turn \in Batches, ModelCalls(turn)
        PROVE  TurnInv'
    <2>1. /\ phase = "model" /\ phase' = "calls" /\ batch' = turn /\ outcome' = <<>>
          /\ executed' = {}
          /\ UNCHANGED <<hadErrors, limitVars, memoryVars, effects, announced>>
      BY <1>1 DEF ModelCalls
    <2>2. /\ turn \in Seq(ACall) /\ outcome' \in Seq(OutcomeRec) /\ Len(outcome') = 0
          /\ DOMAIN outcome' = {}
      BY <2>1, BatchesAssumption
    <2>3. TurnTypes'
      BY <2>1, <2>2 DEF TurnInv, TurnTypes, limitVars
    <2>4. EscalationsExact' /\ CountedFirst' /\ OnlyPermittedExecute'
      BY <2>1 DEF TurnInv, EscalationsExact, CountedFirst, OnlyPermittedExecute, limitVars
    <2>5. MarkedIsStored' /\ FactsTyped' /\ SentSoFar' /\ OneResultPerCall'
      BY <2>1, <2>2
      DEF TurnInv, MarkedIsStored, FactsTyped, memoryVars, limitVars, SentSoFar, OneResultPerCall
    <2> QED
      BY <2>3, <2>4, <2>5 DEF TurnInv
  <1>2. ASSUME DenialEscalation
        PROVE  TurnInv'
    <2>1. /\ phase = "results" /\ phase' = "escalated"
          /\ UNCHANGED <<batch, outcome, hadErrors, limitVars, memoryVars, doneVars, announced>>
      BY <1>2 DEF DenialEscalation
    <2> QED
      BY <2>1
      DEF TurnInv, TurnTypes, EscalationsExact, CountedFirst, OnlyPermittedExecute,
          MarkedIsStored, FactsTyped, SentSoFar, OneResultPerCall, limitVars, memoryVars,
          doneVars, Frontend, TooDestructive
  <1>3. CASE UNCHANGED turnVars
    BY <1>3
    DEF TurnInv, TurnTypes, EscalationsExact, CountedFirst, OnlyPermittedExecute,
        MarkedIsStored, FactsTyped, SentSoFar, OneResultPerCall, turnVars, limitVars,
        memoryVars, doneVars, Frontend, TooDestructive
  <1> QED
    BY <1>1, <1>2, <1>3, HandleCallStep, ExecuteAllStep, ExecuteParallelStep, StoreResultsStep
    DEF TurnNext

(* The invariant in every behaviour.                                       *)
LEMMA TurnInvariant == TurnSpec => []TurnInv
  BY InitTurnInv, StepTurnInv, PTL DEF TurnSpec

(* In no run, whatever its batches, has a call an effect that the rules    *)
(* forbid: executeWithPermissions never executes a tool that is not bound, *)
(* was denied or lacks a consent, or a destructive call.                   *)
THEOREM PermittedOnly == TurnSpec => []OnlyPermittedExecute
  <1>1. TurnInv => OnlyPermittedExecute
    BY DEF TurnInv
  <1> QED
    BY <1>1, TurnInvariant, PTL

(* In no run does a tool have more effects than MaxToolRetries, over all   *)
(* its turns.                                                              *)
THEOREM BoundedEffects == TurnSpec => []EffectsBounded
  <1>1. TurnInv => EffectsBounded
    BY ToolTurnAssumptions DEF TurnInv, TurnTypes, CountedFirst, EffectsBounded
  <1> QED
    BY <1>1, TurnInvariant, PTL

(* Escalations end the run, what is claimed to be stored is stored or was  *)
(* given up by a bulk store, and a turn that is over has sent the result   *)
(* of every call.                                                          *)
THEOREM AccountsAgree == TurnSpec => []TurnSafe
  <1>1. TurnInv => TurnSafe
    BY DEF TurnInv, TurnTypes, EscalationsExact, MarkedIsStored, FactsTyped,
           TurnSafe, TurnTypeOK, EscalationEndsRun, MemoryClaimsTrue
  <1> QED
    BY <1>1, TurnInvariant, PTL

-----------------------------------------------------------------------------
(* The inductive invariant of the goroutines of a turn.                    *)

(* The calls of earlier batches have ended, those of later batches have    *)
(* not begun: this, and not the calls themselves, keeps writes in order.   *)
BatchesInOrder ==
  /\ \A i \in Calls : i < cur => Ended(i)
  /\ Running => \A i \in Calls : i >= cur /\ i \notin Batch => tool[i] = "queued"

(* The goroutines of a parallel batch that hold the semaphore.             *)
HeldBounded == Running /\ Parallel => Cardinality(Held) <= ConcurrentReadTools

(* The batch is aborted by a call of its own.                              *)
AbortedByBatch ==
  aborted => Running /\ Parallel /\ \E j \in Batch : result[j] \in {"failed", "interrupted"}

(* Until the runner sends the rest, the executor has sent the result of    *)
(* each call that ended, except of an aborted one.                         *)
EmittedSoFar ==
  cur <= N + 1 => \A i \in Calls :
    emitted[i] = IF Ended(i) /\ result[i] # "aborted" THEN 1 ELSE 0

(* The LRU list names every key of the map exactly once.                   *)
OrderListsEntries ==
  /\ order \in Seq(Keys)
  /\ \A m, n \in 1 .. Len(order) : order[m] = order[n] => m = n
  /\ \A k \in Keys : k \in entries <=> \E n \in 1 .. Len(order) : order[n] = k
  /\ Len(order) <= ToolCacheCapacity

BatchesInv ==
  /\ BatchesTypeOK /\ emitted \in [Calls -> Nat]
  /\ BatchesInOrder /\ HeldBounded /\ AbortedByBatch /\ EmittedSoFar
  /\ BlockingCallsFinish /\ AbortsHaveCause /\ OrderListsEntries /\ OneToolResult

-----------------------------------------------------------------------------
(* Batches.                                                                *)

(* PartitionToolCalls: a batch is an interval of calls that starts at the  *)
(* first one, and all calls of a batch of several are safe.                *)
LEMMA BatchIsInterval ==
  ASSUME calls \in [Calls -> Call], cur \in Calls
  PROVE  /\ Batch = cur .. (cur + Cardinality(Batch) - 1)
         /\ IsFiniteSet(Batch) /\ Cardinality(Batch) \in Nat \ {0}
         /\ cur + Cardinality(Batch) - 1 \in Calls
         /\ Parallel => \A i \in Batch : calls[i].safe
<1> DEFINE B == Batch
           c == Cardinality(B)
<1>n. N \in Nat /\ cur \in Int /\ cur >= 1 /\ cur <= N
  BY ToolBatchesAssumptions DEF Calls
<1>1. B \subseteq cur .. N /\ cur \in B
  BY <1>n DEF Batch, PartitionToolCalls, SafeRun
<1>2. IsFiniteSet(B)
  <2>1. IsFiniteSet(cur .. N)  BY <1>n, FS_Interval
  <2> QED  BY <2>1, <1>1, FS_Subset
<1>3. c \in Nat /\ c # 0
  BY <1>1, <1>2, FS_CardinalityType, FS_EmptySet
<1>4. \A j \in B : cur .. j \subseteq B
  <2>1. CASE calls[cur].safe
    BY <2>1, <1>n DEF Batch, PartitionToolCalls, SafeRun
  <2>2. CASE ~calls[cur].safe
    BY <2>2, <1>n DEF Batch, PartitionToolCalls
  <2> QED  BY <2>1, <2>2
<1>5. ASSUME NEW j \in B  PROVE  j - cur + 1 <= c
  <2>1. j \in Int /\ j >= cur  BY <1>1, <1>n
  <2>2. Cardinality(cur .. j) = j - cur + 1
    BY <2>1, <1>n, FS_Interval
  <2>3. Cardinality(cur .. j) <= c
    BY <1>2, <1>4, FS_Subset
  <2> QED  BY <2>2, <2>3
<1>6. B \subseteq cur .. (cur + c - 1)
  BY <1>1, <1>3, <1>5, <1>n
<1>7. IsFiniteSet(cur .. (cur + c - 1)) /\ Cardinality(cur .. (cur + c - 1)) = c
  <2> HIDE DEF B
  <2>1. cur + c - 1 \in Int /\ ~(cur > cur + c - 1)  BY <1>3, <1>n
  <2>2. (cur + c - 1) - cur + 1 = c  BY <1>3, <1>n
  <2> HIDE DEF c
  <2> QED  BY <2>1, <2>2, <1>n, FS_Interval
<1>8. B = cur .. (cur + c - 1)
  BY <1>6, <1>7, FS_Subset
<1>9. cur + c - 1 \in Calls
  <2>1. cur + c - 1 \in B  BY <1>8, <1>3, <1>n
  <2>2. cur + c - 1 >= 1 /\ cur + c - 1 \in Int
    <3> HIDE DEF c
    <3> QED  BY <1>3, <1>n
  <2>3. cur + c - 1 \in cur .. N  BY <2>1, <1>1
  <2> HIDE DEF c
  <2> QED  BY <2>2, <2>3, <1>n, <1>3 DEF Calls
<1>10. Parallel => \A i \in B : calls[i].safe
  <2>1. CASE calls[cur].safe
    BY <2>1, <1>1, <1>n DEF Batch, PartitionToolCalls, SafeRun
  <2>2. CASE ~calls[cur].safe
    <3>1. Batch = {cur}  BY <2>2 DEF Batch, PartitionToolCalls
    <3>2. Cardinality(Batch) = 1  BY <3>1, FS_Singleton
    <3> QED  BY <3>2 DEF Parallel
  <2> QED  BY <2>1, <2>2
<1> QED  BY <1>2, <1>3, <1>8, <1>9, <1>10

(* A step that leaves the turn and its position alone leaves the batch.    *)
LEMMA SameBatch ==
  ASSUME UNCHANGED <<calls, cur>>
  PROVE  Batch' = Batch /\ (Parallel <=> Parallel') /\ (Running <=> Running')
BY DEF Batch, PartitionToolCalls, SafeRun, Parallel, Running

(* What a move of one call of the batch, from a state it has not ended in, *)
(* does to the calls: each action of a goroutine is one.                   *)
CallMoves(i, to, r) ==
  /\ Running /\ i \in Batch /\ tool[i] # "done"
  /\ to \in ToolStates /\ r \in Results /\ (to = "done" <=> r # "none")
  /\ tool' = [tool EXCEPT ![i] = to]
  /\ result' = [result EXCEPT ![i] = r]
  /\ emitted' = IF to = "done" /\ r # "aborted" THEN [emitted EXCEPT ![i] = @ + 1] ELSE emitted
  /\ aborted' = (aborted \/ (Parallel /\ r \in {"failed", "interrupted"}))
  /\ r = "aborted" => aborted \/ parent # "live"
  /\ r = "interrupted" => ExecutionCtxEnded(i)
  /\ Parallel /\ to \in {"recheck", "lookup", "executing"} =>
       i \in Held \/ Cardinality(Held) < ConcurrentReadTools
  /\ UNCHANGED <<calls, cur, parent>>
  /\ entries' \subseteq Keys

(* A move of one call keeps the invariant, if it keeps the cache.          *)
LEMMA CallMovesInv ==
  ASSUME BatchesInv, NEW i, NEW to, NEW r, CallMoves(i, to, r), OrderListsEntries'
  PROVE  BatchesInv'
<1>0. /\ N \in Nat /\ cur \in Calls /\ calls \in [Calls -> Call]
      /\ tool \in [Calls -> ToolStates] /\ result \in [Calls -> Results]
      /\ emitted \in [Calls -> Nat]
  BY ToolBatchesAssumptions DEF BatchesInv, BatchesTypeOK, CallMoves, Running, Calls
<1>1. /\ Batch = cur .. (cur + Cardinality(Batch) - 1)
      /\ IsFiniteSet(Batch) /\ Cardinality(Batch) \in Nat \ {0}
      /\ cur + Cardinality(Batch) - 1 \in Calls
      /\ Parallel => \A k \in Batch : calls[k].safe
  BY <1>0, BatchIsInterval
<1>2. Batch \subseteq Calls
  BY <1>0, <1>1 DEF Calls
<1>3. i \in Calls /\ tool[i] # "done" /\ result[i] = "none"
  BY <1>2 DEF CallMoves, BatchesInv, BatchesTypeOK, Ended
<1>4. Batch' = Batch /\ (Parallel <=> Parallel') /\ (Running <=> Running')
  BY SameBatch DEF CallMoves
<1>5. /\ \A k \in Calls : tool'[k] = IF k = i THEN to ELSE tool[k]
      /\ \A k \in Calls : result'[k] = IF k = i THEN r ELSE result[k]
      /\ tool' \in [Calls -> ToolStates] /\ result' \in [Calls -> Results]
  BY <1>0, <1>3 DEF CallMoves
<1>6. BatchesTypeOK'
  <2>1. \A k \in Calls : Ended(k)' <=> result'[k] # "none"
    BY <1>5, <1>3 DEF CallMoves, BatchesInv, BatchesTypeOK, Ended
  <2>2. aborted' \in BOOLEAN
    BY DEF CallMoves
  <2> QED  BY <1>5, <2>1, <2>2 DEF CallMoves, BatchesInv, BatchesTypeOK
<1>7. emitted' \in [Calls -> Nat] /\ EmittedSoFar'
  <2>1. \A k \in Calls : emitted'[k] =
          IF k = i /\ to = "done" /\ r # "aborted" THEN emitted[k] + 1 ELSE emitted[k]
    BY <1>0, <1>3 DEF CallMoves
  <2>2. emitted' \in [Calls -> Nat]
    BY <1>0, <1>3 DEF CallMoves
  <2>3. cur' = cur
    BY DEF CallMoves
  <2>4. ASSUME cur <= N + 1, NEW k \in Calls
        PROVE  emitted'[k] = IF tool'[k] = "done" /\ result'[k] # "aborted" THEN 1 ELSE 0
    <3>1. emitted[k] = IF tool[k] = "done" /\ result[k] # "aborted" THEN 1 ELSE 0
      BY <2>4 DEF BatchesInv, EmittedSoFar, Ended
    <3>2. CASE k = i
      BY <3>1, <3>2, <2>1, <1>3, <1>5
    <3>3. CASE k # i
      BY <3>1, <3>3, <2>1, <1>5
    <3> QED  BY <3>2, <3>3
  <2> QED  BY <2>2, <2>3, <2>4 DEF EmittedSoFar, Ended
<1>8. BatchesInOrder'
  <2>1. ASSUME NEW k \in Calls, k < cur  PROVE tool'[k] = "done"
    <3>1. k # i  BY <2>1, <1>0, <1>1, <1>2 DEF CallMoves, Calls
    <3> QED  BY <3>1, <2>1, <1>5 DEF BatchesInv, BatchesInOrder, Ended
  <2>2. ASSUME Running, NEW k \in Calls, k >= cur, k \notin Batch  PROVE tool'[k] = "queued"
    <3>1. k # i  BY <2>2 DEF CallMoves
    <3> QED  BY <3>1, <2>2, <1>5 DEF BatchesInv, BatchesInOrder
  <2> QED  BY <2>1, <2>2, <1>4 DEF BatchesInOrder, Ended, CallMoves
<1>9. HeldBounded'
  <2> SUFFICES ASSUME Parallel  PROVE Cardinality(Held') <= ConcurrentReadTools
    BY <1>4 DEF HeldBounded
  <2>1. IsFiniteSet(Held) /\ Cardinality(Held) \in Nat
    <3>1. Held \in SUBSET Batch  BY DEF Held
    <3>2. IsFiniteSet(Held)  BY <3>1, <1>1, FS_Subset
    <3> QED  BY <3>2, FS_CardinalityType
  <2>2. ConcurrentReadTools \in Nat /\ Cardinality(Held) <= ConcurrentReadTools
    BY ToolBatchesAssumptions DEF BatchesInv, HeldBounded, CallMoves
  <2>3. CASE to \in {"recheck", "lookup", "executing"}
    <3>1. Held' = Held \cup {i}
      BY <1>4, <1>5, <1>2, <2>3 DEF Held, CallMoves
    <3>2. i \in Held \/ Cardinality(Held) < ConcurrentReadTools
      BY <2>3 DEF CallMoves
    <3>3. Cardinality(Held') = IF i \in Held THEN Cardinality(Held) ELSE Cardinality(Held) + 1
      BY <3>1, <2>1, FS_AddElement
    <3> QED  BY <3>2, <3>3, <2>1, <2>2
  <2>4. CASE to \notin {"recheck", "lookup", "executing"}
    <3>1. Held' \in SUBSET Held
      BY <1>4, <1>5, <1>2, <2>4 DEF Held
    <3>2. Cardinality(Held') <= Cardinality(Held) /\ IsFiniteSet(Held')
      BY <3>1, <2>1, FS_Subset
    <3>3. Cardinality(Held') \in Nat  BY <3>2, FS_CardinalityType
    <3> QED  BY <3>2, <3>3, <2>1, <2>2
  <2> QED  BY <2>3, <2>4
<1>10. AbortedByBatch'
  <2> SUFFICES ASSUME aborted'
               PROVE  Running /\ Parallel /\ \E j \in Batch : result'[j] \in {"failed", "interrupted"}
    BY <1>4 DEF AbortedByBatch
  <2>1. CASE aborted
    <3>1. Running /\ Parallel /\ \E j \in Batch : result[j] \in {"failed", "interrupted"}
      BY <2>1 DEF BatchesInv, AbortedByBatch
    <3>2. PICK j \in Batch : result[j] \in {"failed", "interrupted"}
      BY <3>1
    <3>3. j # i /\ j \in Calls  BY <3>2, <1>3, <1>2
    <3> QED  BY <3>1, <3>2, <3>3, <1>5
  <2>2. CASE ~aborted
    <3>1. Parallel /\ r \in {"failed", "interrupted"}  BY <2>2 DEF CallMoves
    <3> QED  BY <3>1, <1>3, <1>5 DEF CallMoves
  <2> QED  BY <2>1, <2>2
<1>11. BlockingCallsFinish'
  BY <1>3, <1>5 DEF BatchesInv, BlockingCallsFinish, CallMoves, ExecutionCtxEnded
<1>12. AbortsHaveCause'
  <2>1. calls' = calls /\ parent' = parent  BY DEF CallMoves
  <2>2. ASSUME NEW k \in Calls, result'[k] = "aborted", parent = "live"
        PROVE  \E j \in Calls : /\ result'[j] \in {"failed", "interrupted"}
                               /\ SafeRun(IF k < j THEN k ELSE j, IF k < j THEN j ELSE k)
    <3>1. CASE k # i
      <4>1. result[k] = "aborted"  BY <3>1, <2>2, <1>5
      <4>2. PICK j \in Calls : /\ result[j] \in {"failed", "interrupted"}
                               /\ SafeRun(IF k < j THEN k ELSE j, IF k < j THEN j ELSE k)
        BY <4>1, <2>2 DEF BatchesInv, AbortsHaveCause
      <4>3. result'[j] = result[j]  BY <4>2, <1>3, <1>5
      <4> QED  BY <4>2, <4>3
    <3>2. CASE k = i
      <4>1. aborted /\ r = "aborted"  BY <3>2, <2>2, <1>5 DEF CallMoves
      <4>2. Parallel /\ \E j \in Batch : result[j] \in {"failed", "interrupted"}
        BY <4>1 DEF BatchesInv, AbortedByBatch
      <4>3. PICK j \in Batch : result[j] \in {"failed", "interrupted"}
        BY <4>2
      <4>4. j \in Calls /\ result'[j] = result[j]  BY <4>3, <1>2, <1>3, <1>5
      <4>5. k \in Batch  BY <3>2 DEF CallMoves
      <4>6. \A m \in Batch : calls[m].safe  BY <4>2, <1>1
      <4>7. SafeRun(IF k < j THEN k ELSE j, IF k < j THEN j ELSE k)
        <5> DEFINE e == cur + Cardinality(Batch) - 1
        <5>1. Batch = cur .. e /\ e \in Int /\ cur \in Int
          BY <1>0, <1>1 DEF Calls
        <5> HIDE DEF e
        <5>2. k \in Int /\ j \in Int  BY <5>1, <4>3, <4>5
        <5>3. \A m \in k .. j : m \in Batch  BY <5>1, <5>2, <4>3, <4>5
        <5>4. \A m \in j .. k : m \in Batch  BY <5>1, <5>2, <4>3, <4>5
        <5> QED  BY <5>2, <5>3, <5>4, <4>6 DEF SafeRun
      <4> QED  BY <4>3, <4>4, <4>7
    <3> QED  BY <3>1, <3>2
  <2> QED  BY <2>1, <2>2 DEF AbortsHaveCause, SafeRun
<1>13. OneToolResult'
  <2>1. cur' \in Calls  BY <1>0 DEF CallMoves
  <2>2. cur' # N + 2  BY <2>1, <1>0 DEF Calls
  <2> QED  BY <2>2 DEF OneToolResult
<1> QED
  BY <1>6, <1>7, <1>8, <1>9, <1>10, <1>11, <1>12, <1>13 DEF BatchesInv

-----------------------------------------------------------------------------
(* The cache.                                                              *)

(* moveToEnd leaves the list with the same keys, in another order.         *)
LEMMA MoveToEndShape ==
  ASSUME order \in Seq(Keys), NEW k \in Keys, \E n \in 1 .. Len(order) : order[n] = k
  PROVE  LET p == Place(k)
             L == Len(order)
         IN  /\ p \in 1 .. L /\ order[p] = k
             /\ MoveToEnd(k) \in Seq(Keys) /\ Len(MoveToEnd(k)) = L
             /\ \A i \in 1 .. L : MoveToEnd(k)[i] =
                  IF i < p THEN order[i] ELSE IF i < L THEN order[i + 1] ELSE k
<1> DEFINE p == Place(k)
           L == Len(order)
           A == SubSeq(order, 1, p - 1)
           B == SubSeq(order, p + 1, L)
           C == A \o B
<1>1. L \in Nat /\ DOMAIN order = 1 .. L /\ \A i \in 1 .. L : order[i] \in Keys
  BY LenProperties, ElementOfSeq
<1>2. p \in 1 .. L /\ order[p] = k
  BY <1>1 DEF Place
<1> HIDE DEF p, L
<1>3. A \in Seq(Keys) /\ Len(A) = p - 1 /\ \A i \in 1 .. p - 1 : A[i] = order[i]
  <2>1. p - 1 \in Int /\ 1 \in Int /\ \A i \in 1 .. (p - 1) : order[i] \in Keys
    BY <1>1, <1>2
  <2>2. /\ A \in Seq(Keys) /\ Len(A) = (IF 1 <= p - 1 THEN (p - 1) - 1 + 1 ELSE 0)
        /\ \A i \in 1 .. ((p - 1) - 1 + 1) : A[i] = order[1 + i - 1]
    BY <2>1, SubSeqProperties
  <2> HIDE DEF A
  <2> QED  BY <2>2, <1>1, <1>2
<1>4. B \in Seq(Keys) /\ Len(B) = L - p /\ \A i \in 1 .. L - p : B[i] = order[p + i]
  <2>1. p + 1 \in Int /\ L \in Int /\ \A i \in (p + 1) .. L : order[i] \in Keys
    BY <1>1, <1>2
  <2>2. /\ B \in Seq(Keys) /\ Len(B) = (IF p + 1 <= L THEN L - (p + 1) + 1 ELSE 0)
        /\ \A i \in 1 .. (L - (p + 1) + 1) : B[i] = order[(p + 1) + i - 1]
    BY <2>1, SubSeqProperties
  <2> HIDE DEF B
  <2>3. \A i \in 1 .. L - p : (p + 1) + i - 1 = p + i
    BY <1>1, <1>2
  <2>4. L - (p + 1) + 1 = L - p
    BY <1>1, <1>2
  <2> QED  BY <2>2, <2>3, <2>4, <1>1, <1>2
<1> HIDE DEF A, B
<1>5. /\ C \in Seq(Keys) /\ Len(C) = L - 1
      /\ \A i \in 1 .. L - 1 : C[i] = IF i < p THEN order[i] ELSE order[i + 1]
  <2>1. /\ C \in Seq(Keys) /\ Len(C) = Len(A) + Len(B)
        /\ \A i \in 1 .. Len(A) + Len(B) : C[i] = IF i <= Len(A) THEN A[i] ELSE B[i - Len(A)]
    BY <1>3, <1>4, ConcatProperties
  <2> HIDE DEF C
  <2>2. Len(A) + Len(B) = L - 1
    BY <1>1, <1>2, <1>3, <1>4
  <2>3. ASSUME NEW i \in 1 .. L - 1  PROVE C[i] = IF i < p THEN order[i] ELSE order[i + 1]
    <3>1. CASE i < p
      BY <3>1, <2>1, <2>2, <1>1, <1>2, <1>3
    <3>2. CASE ~(i < p)
      <4>1. i - Len(A) \in 1 .. L - p /\ ~(i <= Len(A)) /\ p + (i - Len(A)) = i + 1
        BY <3>2, <1>1, <1>2, <1>3
      <4>2. C[i] = B[i - Len(A)]
        BY <4>1, <2>1, <2>2
      <4> QED  BY <3>2, <4>1, <4>2, <1>4
    <3> QED  BY <3>1, <3>2
  <2> QED  BY <2>1, <2>2, <2>3
<1>6. MoveToEnd(k) = Append(C, k)
  BY DEF MoveToEnd, p, L, A, B
<1> HIDE DEF C
<1>7. /\ Append(C, k) \in Seq(Keys) /\ Len(Append(C, k)) = L - 1 + 1
      /\ \A i \in 1 .. L - 1 : Append(C, k)[i] = C[i]
      /\ Append(C, k)[L - 1 + 1] = k
  BY <1>5, AppendProperties
<1>8. ASSUME NEW i \in 1 .. L
      PROVE  Append(C, k)[i] = IF i < p THEN order[i] ELSE IF i < L THEN order[i + 1] ELSE k
  <2>1. CASE i < L
    <3>1. i \in 1 .. L - 1  BY <2>1, <1>1
    <3> QED  BY <3>1, <2>1, <1>5, <1>7
  <2>2. CASE i = L
    BY <2>2, <1>1, <1>2, <1>7
  <2>3. i < L \/ i = L  BY <1>1
  <2> QED  BY <2>1, <2>2, <2>3
<1>9. L - 1 + 1 = L  BY <1>1
<1> QED  BY <1>2, <1>6, <1>7, <1>8, <1>9 DEF p, L

(* Get on a key of the map, and Put on one, keep the list.                 *)
LEMMA MoveToEndInv ==
  ASSUME OrderListsEntries, NEW k \in Keys, k \in entries,
         order' = MoveToEnd(k), entries' = entries
  PROVE  OrderListsEntries'
<1> DEFINE p == Place(k)
           L == Len(order)
<1>1. order \in Seq(Keys) /\ (\E n \in 1 .. Len(order) : order[n] = k)
  BY DEF OrderListsEntries
<1>2. /\ p \in 1 .. L /\ order[p] = k /\ L \in Nat
      /\ order' \in Seq(Keys) /\ Len(order') = L
      /\ \A i \in 1 .. L : order'[i] =
           IF i < p THEN order[i] ELSE IF i < L THEN order[i + 1] ELSE k
  BY <1>1, MoveToEndShape, LenProperties
<1>3. /\ \A m, n \in 1 .. L : order[m] = order[n] => m = n
      /\ \A q \in Keys : q \in entries <=> \E n \in 1 .. L : order[n] = q
      /\ L <= ToolCacheCapacity
  BY DEF OrderListsEntries
<1> HIDE DEF p, L
<1> DEFINE src(i) == IF i < p THEN i ELSE IF i < L THEN i + 1 ELSE p
<1>4. \A i \in 1 .. L : src(i) \in 1 .. L /\ order'[i] = order[src(i)]
  BY <1>2
<1>5. \A i, j \in 1 .. L : src(i) = src(j) => i = j
  BY <1>2
<1>6. \A m \in 1 .. L : \E i \in 1 .. L : src(i) = m
  <2> TAKE m \in 1 .. L
  <2>1. CASE m < p  BY <2>1, <1>2
  <2>2. CASE m = p
    <3>1. L \in 1 .. L /\ src(L) = p  BY <1>2
    <3> QED  BY <2>2, <3>1
  <2>3. CASE m > p
    <3>1. m - 1 \in 1 .. L /\ ~(m - 1 < p) /\ m - 1 < L /\ (m - 1) + 1 = m
      BY <2>3, <1>2
    <3> QED  BY <3>1
  <2> QED  BY <2>1, <2>2, <2>3, <1>2
<1> HIDE DEF src
<1>7. \A m, n \in 1 .. L : order'[m] = order'[n] => m = n
  BY <1>3, <1>4, <1>5
<1>8. \A q \in Keys : q \in entries <=> \E n \in 1 .. L : order'[n] = q
  BY <1>3, <1>4, <1>6
<1> QED  BY <1>2, <1>3, <1>7, <1>8 DEF OrderListsEntries

(* The list and the map have the same number of entries.                   *)
LEMMA OrderCounts ==
  ASSUME OrderListsEntries, entries \subseteq Keys
  PROVE  IsFiniteSet(entries) /\ Cardinality(entries) = Len(order) /\ Len(order) \in Nat
<1>1. /\ order \in Seq(Keys) /\ Len(order) \in Nat
      /\ order \in [1 .. Len(order) -> Keys]
  BY LenProperties DEF OrderListsEntries
<1>2. \A n \in 1 .. Len(order) : order[n] \in entries
  BY <1>1 DEF OrderListsEntries
<1>3. order \in Bijection(1 .. Len(order), entries)
  <2>1. order \in [1 .. Len(order) -> entries]
    BY <1>1, <1>2
  <2> QED  BY <2>1, <1>1 DEF OrderListsEntries, Bijection, Injection, Surjection, IsInjective
<1>4. ExistsBijection(1 .. Len(order), entries)
  BY <1>3 DEF ExistsBijection
<1>5. IsFiniteSet(1 .. Len(order)) /\ Cardinality(1 .. Len(order)) = Len(order)
  <2>1. Cardinality(1 .. Len(order)) = (IF 1 > Len(order) THEN 0 ELSE Len(order) - 1 + 1)
        /\ IsFiniteSet(1 .. Len(order))
    BY <1>1, FS_Interval
  <2> QED  BY <2>1, <1>1
<1> QED  BY <1>1, <1>4, <1>5, FS_Bijection

(* Put: a new key replaces the oldest one when the cache is full.          *)
LEMMA CachePutInv ==
  ASSUME OrderListsEntries, entries \subseteq Keys, NEW k \in Keys, CachePut(k)
  PROVE  OrderListsEntries' /\ entries' \subseteq Keys
<1> DEFINE L == Len(order)
<1>0. IsFiniteSet(entries) /\ Cardinality(entries) = L /\ L \in Nat
  BY OrderCounts
<1>1. /\ order \in Seq(Keys) /\ L <= ToolCacheCapacity
      /\ \A m, n \in 1 .. L : order[m] = order[n] => m = n
      /\ \A q \in Keys : q \in entries <=> \E n \in 1 .. L : order[n] = q
      /\ ToolCacheCapacity \in Nat \ {0}
  BY ToolBatchesAssumptions DEF OrderListsEntries
<1>2. CASE k \in entries
  BY <1>2, MoveToEndInv DEF CachePut
<1>3. CASE k \notin entries /\ Cardinality(entries) >= ToolCacheCapacity
  <2>1. entries' = (entries \ {Head(order)}) \cup {k} /\ order' = Append(Tail(order), k)
    BY <1>3 DEF CachePut
  <2>2. L >= 1 /\ order # <<>>
    <3>1. L >= 1  BY <1>0, <1>1, <1>3
    <3> QED  BY <3>1
  <2>3. /\ Tail(order) \in Seq(Keys) /\ Len(Tail(order)) = L - 1
        /\ \A i \in 1 .. L - 1 : Tail(order)[i] = order[i + 1]
        /\ Head(order) = order[1]
    BY <1>1, <2>2, HeadTailProperties
  <2>4. /\ order' \in Seq(Keys) /\ Len(order') = L
        /\ \A i \in 1 .. L - 1 : order'[i] = order[i + 1]
        /\ order'[L] = k
    <3> DEFINE T == Tail(order)
    <3>1. T \in Seq(Keys) /\ Len(T) = L - 1  BY <2>3
    <3> HIDE DEF T, L
    <3>2. /\ Append(T, k) \in Seq(Keys) /\ Len(Append(T, k)) = Len(T) + 1
          /\ \A i \in 1 .. Len(T) : Append(T, k)[i] = T[i]
          /\ Append(T, k)[Len(T) + 1] = k
      BY <3>1, AppendProperties
    <3>3. (L - 1) + 1 = L  BY <1>0
    <3>4. order' = Append(T, k)  BY <2>1 DEF T
    <3>5. \A i \in 1 .. L - 1 : T[i] = order[i + 1]  BY <2>3 DEF T
    <3> QED  BY <3>1, <3>2, <3>3, <3>4, <3>5
  <2> HIDE DEF L
  <2>5. \A n \in 1 .. L : order[n] # k
    BY <1>1, <1>3
  <2>6. \A m, n \in 1 .. L : order'[m] = order'[n] => m = n
    <3> SUFFICES ASSUME NEW m \in 1 .. L, NEW n \in 1 .. L, order'[m] = order'[n]
                 PROVE  m = n
      OBVIOUS
    <3>1. CASE m < L /\ n < L
      <4>1. m \in 1 .. L - 1 /\ n \in 1 .. L - 1 /\ m + 1 \in 1 .. L /\ n + 1 \in 1 .. L
        BY <3>1, <1>0
      <4>2. m + 1 = n + 1  BY <4>1, <2>4, <1>1
      <4> QED  BY <4>2
    <3>2. CASE m = L /\ n < L
      <4>1. n \in 1 .. L - 1 /\ n + 1 \in 1 .. L  BY <3>2, <1>0
      <4> QED  BY <4>1, <3>2, <2>4, <2>5
    <3>3. CASE m < L /\ n = L
      <4>1. m \in 1 .. L - 1 /\ m + 1 \in 1 .. L  BY <3>3, <1>0
      <4> QED  BY <4>1, <3>3, <2>4, <2>5
    <3>4. CASE m = L /\ n = L
      BY <3>4
    <3>5. (m < L \/ m = L) /\ (n < L \/ n = L)  BY <1>0
    <3> QED  BY <3>1, <3>2, <3>3, <3>4, <3>5
  <2>7. ASSUME NEW q \in Keys
        PROVE  q \in entries' <=> \E n \in 1 .. L : order'[n] = q
    <3>1. ASSUME q \in entries'  PROVE \E n \in 1 .. L : order'[n] = q
      <4>1. CASE q = k
        BY <4>1, <2>2, <2>4, <1>0
      <4>2. CASE q # k
        <5>1. q \in entries /\ q # order[1]  BY <4>2, <3>1, <2>1, <2>3
        <5>2. PICK n \in 1 .. L : order[n] = q  BY <5>1, <1>1
        <5>3. n - 1 \in 1 .. L - 1 /\ (n - 1) + 1 = n /\ n - 1 \in 1 .. L
          BY <5>1, <5>2, <1>0
        <5> QED  BY <5>2, <5>3, <2>4
      <4> QED  BY <4>1, <4>2
    <3>2. ASSUME NEW n \in 1 .. L, order'[n] = q  PROVE q \in entries'
      <4>1. CASE n = L
        BY <4>1, <3>2, <2>1, <2>4
      <4>2. CASE n < L
        <5>1. n \in 1 .. L - 1 /\ n + 1 \in 1 .. L /\ n + 1 # 1 /\ 1 \in 1 .. L
          BY <4>2, <1>0
        <5>2. q = order[n + 1]  BY <5>1, <3>2, <2>4
        <5>3. q \in entries /\ q # order[1]  BY <5>1, <5>2, <1>1
        <5> QED  BY <5>3, <2>1, <2>3
      <4>3. n < L \/ n = L  BY <1>0
      <4> QED  BY <4>1, <4>2, <4>3
    <3> QED  BY <3>1, <3>2
  <2>8. entries' \subseteq Keys
    BY <2>1
  <2> QED  BY <1>1, <2>4, <2>6, <2>7, <2>8 DEF OrderListsEntries
<1>4. CASE k \notin entries /\ ~(Cardinality(entries) >= ToolCacheCapacity)
  <2>1. entries' = entries \cup {k} /\ order' = Append(order, k)
    BY <1>4 DEF CachePut
  <2>2. /\ order' \in Seq(Keys) /\ Len(order') = L + 1
        /\ \A i \in 1 .. L : order'[i] = order[i]
        /\ order'[L + 1] = k
    BY <2>1, <1>1, AppendProperties
  <2> HIDE DEF L
  <2>3. L + 1 <= ToolCacheCapacity  BY <1>0, <1>1, <1>4
  <2>4. \A n \in 1 .. L : order[n] # k  BY <1>1, <1>4
  <2>5. \A n \in 1 .. L + 1 : n \in 1 .. L \/ n = L + 1  BY <1>0
  <2>6. \A m, n \in 1 .. L + 1 : order'[m] = order'[n] => m = n
    BY <2>2, <2>4, <2>5, <1>1
  <2>7. L + 1 \in 1 .. L + 1 /\ \A n \in 1 .. L : n \in 1 .. L + 1  BY <1>0
  <2>8. \A q \in Keys : q \in entries' <=> \E n \in 1 .. L + 1 : order'[n] = q
    <3> TAKE q \in Keys
    <3>1. q \in entries' => \E n \in 1 .. L + 1 : order'[n] = q
      BY <2>1, <2>2, <2>7, <1>1
    <3>2. (\E n \in 1 .. L + 1 : order'[n] = q) => q \in entries'
      BY <2>1, <2>2, <2>5, <1>1
    <3> QED  BY <3>1, <3>2
  <2>9. entries' \subseteq Keys  BY <2>1
  <2> QED  BY <2>2, <2>3, <2>6, <2>8, <2>9 DEF OrderListsEntries
<1> QED  BY <1>2, <1>3, <1>4 DEF CachePut

-----------------------------------------------------------------------------
(* The steps of a goroutine, and of the serial loop.                       *)

(* A call of the batch that has not ended has no result, and writing none  *)
(* leaves the results as they are.                                         *)
LEMMA NotEnded ==
  ASSUME BatchesInv, Running, NEW i \in Batch, tool[i] # "done"
  PROVE  /\ i \in Calls /\ cur \in Batch /\ result[i] = "none"
         /\ result = [result EXCEPT ![i] = "none"]
         /\ aborted \in BOOLEAN /\ entries \subseteq Keys /\ OrderListsEntries
<1>1. cur \in Calls /\ calls \in [Calls -> Call] /\ N \in Nat
  BY ToolBatchesAssumptions DEF BatchesInv, BatchesTypeOK, Running, Calls
<1> DEFINE e == cur + Cardinality(Batch) - 1
<1>2. Batch = cur .. e /\ e \in Calls
  BY <1>1, BatchIsInterval
<1> HIDE DEF e
<1>3. i \in Calls
  BY <1>1, <1>2 DEF Calls
<1>4. cur \in Batch
  BY <1>1, <1>2 DEF Calls
<1>5. result[i] = "none" /\ result \in [Calls -> Results]
  BY <1>3 DEF BatchesInv, BatchesTypeOK, Ended
<1> QED  BY <1>3, <1>4, <1>5 DEF BatchesInv, BatchesTypeOK

(* The cache is as it was.                                                 *)
LEMMA CacheKept ==
  ASSUME BatchesInv, UNCHANGED cacheVars
  PROVE  OrderListsEntries' /\ entries' \subseteq Keys
BY DEF BatchesInv, BatchesTypeOK, OrderListsEntries, cacheVars

(* StartGoroutine keeps the invariant.                                     *)
LEMMA StartGoroutineStep ==
  ASSUME BatchesInv, NEW i \in Calls, StartGoroutine(i)
  PROVE  BatchesInv'
<1>0. Running /\ i \in Batch /\ tool[i] = "queued" /\ UNCHANGED cacheVars
  BY DEF StartGoroutine
<1>1. result = [result EXCEPT ![i] = "none"] /\ aborted \in BOOLEAN
  BY <1>0, NotEnded
<1>2. OrderListsEntries' /\ entries' \subseteq Keys
  BY <1>0, CacheKept
<1>3. CASE AbortCtxEnded
  <2>1. CallMoves(i, "done", "aborted")
    BY <1>0, <1>1, <1>2, <1>3
       DEF StartGoroutine, CallMoves, Finish, AbortCtxEnded, ToolStates, Results
  <2> QED  BY <2>1, <1>2, CallMovesInv
<1>4. CASE ~AbortCtxEnded
  <2>1. CallMoves(i, "acquire", "none")
    BY <1>0, <1>1, <1>2, <1>4 DEF StartGoroutine, CallMoves, ToolStates, Results
  <2> QED  BY <2>1, <1>2, CallMovesInv
<1> QED  BY <1>3, <1>4

(* Acquire keeps the invariant: the semaphore has room.                    *)
LEMMA AcquireStep ==
  ASSUME BatchesInv, NEW i \in Calls, Acquire(i)
  PROVE  BatchesInv'
<1>0. Running /\ i \in Batch /\ tool[i] = "acquire" /\ UNCHANGED cacheVars
  BY DEF Acquire
<1>1. result = [result EXCEPT ![i] = "none"] /\ aborted \in BOOLEAN
  BY <1>0, NotEnded
<1>2. OrderListsEntries' /\ entries' \subseteq Keys
  BY <1>0, CacheKept
<1>3. CallMoves(i, "recheck", "none")
  BY <1>0, <1>1, <1>2 DEF Acquire, CallMoves, ToolStates, Results
<1> QED  BY <1>3, <1>2, CallMovesInv

(* Recheck keeps the invariant.                                            *)
LEMMA RecheckStep ==
  ASSUME BatchesInv, NEW i \in Calls, NEW valid \in BOOLEAN, Recheck(i, valid)
  PROVE  BatchesInv'
<1>0. Running /\ i \in Batch /\ tool[i] = "recheck" /\ UNCHANGED cacheVars
  BY DEF Recheck
<1>1. result = [result EXCEPT ![i] = "none"] /\ aborted \in BOOLEAN
  BY <1>0, NotEnded
<1>2. OrderListsEntries' /\ entries' \subseteq Keys
  BY <1>0, CacheKept
<1>3. CASE AbortCtxEnded
  <2>1. CallMoves(i, "done", "aborted")
    BY <1>0, <1>1, <1>2, <1>3
       DEF Recheck, CallMoves, Finish, AbortCtxEnded, ToolStates, Results
  <2> QED  BY <2>1, <1>2, CallMovesInv
<1>4. CASE ~AbortCtxEnded /\ ~valid
  <2>1. CallMoves(i, "done", "invalid")
    BY <1>0, <1>1, <1>2, <1>4 DEF Recheck, CallMoves, Finish, Emit, ToolStates, Results
  <2> QED  BY <2>1, <1>2, CallMovesInv
<1>5. CASE ~AbortCtxEnded /\ valid
  <2>1. i \in Held  BY <1>0 DEF Held
  <2>2. CallMoves(i, "lookup", "none")
    BY <1>0, <1>1, <1>2, <1>5, <2>1 DEF Recheck, CallMoves, ToolStates, Results
  <2> QED  BY <2>2, <1>2, CallMovesInv
<1> QED  BY <1>3, <1>4, <1>5

(* CacheGet keeps the invariant: a hit only moves the key to the end.      *)
LEMMA CacheGetStep ==
  ASSUME BatchesInv, NEW i \in Calls, CacheGet(i)
  PROVE  BatchesInv'
<1>0. Running /\ i \in Batch /\ tool[i] = "lookup" /\ entries' = entries
  BY DEF CacheGet
<1>1. /\ result = [result EXCEPT ![i] = "none"] /\ aborted \in BOOLEAN
      /\ entries \subseteq Keys /\ OrderListsEntries
  BY <1>0, NotEnded
<1>2. CASE calls[i].key \in entries
  <2>1. OrderListsEntries'
    BY <1>0, <1>1, <1>2, MoveToEndInv DEF CacheGet
  <2>2. CallMoves(i, "done", "cached")
    BY <1>0, <1>1, <1>2 DEF CacheGet, CallMoves, Finish, Emit, ToolStates, Results
  <2> QED  BY <2>1, <2>2, CallMovesInv
<1>3. CASE calls[i].key \notin entries
  <2>1. UNCHANGED cacheVars  BY <1>3 DEF CacheGet, cacheVars
  <2>2. OrderListsEntries'  BY <2>1, CacheKept
  <2>3. i \in Held  BY <1>0 DEF Held
  <2>4. CallMoves(i, "executing", "none")
    BY <1>0, <1>1, <1>3, <2>3 DEF CacheGet, CallMoves, ToolStates, Results
  <2> QED  BY <2>2, <2>4, CallMovesInv
<1> QED  BY <1>2, <1>3

(* StartSerial keeps the invariant.                                        *)
LEMMA StartSerialStep ==
  ASSUME BatchesInv, NEW valid \in BOOLEAN, StartSerial(valid), cur \in Calls
  PROVE  BatchesInv'
<1>0. Running /\ ~Parallel /\ tool[cur] = "queued" /\ UNCHANGED cacheVars
  BY DEF StartSerial
<1>i. cur \in Batch
  <2>1. calls \in [Calls -> Call]  BY DEF BatchesInv, BatchesTypeOK
  <2> DEFINE e == cur + Cardinality(Batch) - 1
  <2>2. Batch = cur .. e /\ Cardinality(Batch) \in Nat \ {0}  BY <2>1, BatchIsInterval
  <2> QED  BY <2>2, ToolBatchesAssumptions DEF Calls
<1>1. result = [result EXCEPT ![cur] = "none"] /\ aborted \in BOOLEAN
  BY <1>0, <1>i, NotEnded
<1>2. OrderListsEntries' /\ entries' \subseteq Keys
  BY <1>0, CacheKept
<1>3. CASE parent # "live"
  <2>1. CallMoves(cur, "done", "aborted")
    BY <1>0, <1>i, <1>1, <1>2, <1>3 DEF StartSerial, CallMoves, Finish, ToolStates, Results
  <2> QED  BY <2>1, <1>2, CallMovesInv
<1>4. CASE parent = "live" /\ ~valid
  <2>1. CallMoves(cur, "done", "invalid")
    BY <1>0, <1>i, <1>1, <1>2, <1>4
       DEF StartSerial, CallMoves, Finish, Emit, ToolStates, Results
  <2> QED  BY <2>1, <1>2, CallMovesInv
<1>5. CASE parent = "live" /\ valid
  <2>1. CallMoves(cur, "executing", "none")
    BY <1>0, <1>i, <1>1, <1>2, <1>5 DEF StartSerial, CallMoves, ToolStates, Results
  <2> QED  BY <2>1, <1>2, CallMovesInv
<1> QED  BY <1>3, <1>4, <1>5

(* Execute keeps the invariant: a result is stored and a failure aborts    *)
(* the batch, in one of any number of goroutines.                          *)
LEMMA ExecuteStep ==
  ASSUME BatchesInv, NEW i \in Calls, NEW r \in Results, Execute(i, r)
  PROVE  BatchesInv'
<1>0. /\ Running /\ i \in Batch /\ tool[i] = "executing"
      /\ r \in {"ok", "error", "failed", "interrupted"}
      /\ r = "interrupted" => ExecutionCtxEnded(i)
  BY DEF Execute
<1>1. /\ result[i] = "none" /\ aborted \in BOOLEAN
      /\ entries \subseteq Keys /\ OrderListsEntries
  BY <1>0, NotEnded
<1>2. OrderListsEntries' /\ entries' \subseteq Keys
  <2>1. CASE Parallel /\ r = "ok" /\ calls[i].key \in Keys
    BY <2>1, <1>1, CachePutInv DEF Execute
  <2>2. CASE ~(Parallel /\ r = "ok" /\ calls[i].key \in Keys)
    <3>1. UNCHANGED cacheVars  BY <2>2 DEF Execute
    <3> QED  BY <3>1, CacheKept
  <2> QED  BY <2>1, <2>2
<1>3. CallMoves(i, "done", r)
  BY <1>0, <1>1, <1>2 DEF Execute, CallMoves, Finish, Emit, ToolStates, Results
<1> QED  BY <1>2, <1>3, CallMovesInv

-----------------------------------------------------------------------------
(* The steps of the loop over the batches.                                 *)

(* NextBatch keeps the invariant: the next batch begins where the last one *)
(* has ended.                                                              *)
LEMMA NextBatchStep ==
  ASSUME BatchesInv, NextBatch
  PROVE  BatchesInv'
<1> DEFINE e == cur + Cardinality(Batch) - 1
<1>0. /\ Running /\ (\A i \in Batch : tool[i] = "done") /\ aborted' = FALSE
      /\ cur' = cur + Cardinality(Batch)
      /\ UNCHANGED <<calls, tool, result, emitted, parent, entries, order>>
  BY DEF NextBatch, Ended, cacheVars
<1>1. cur \in Calls /\ calls \in [Calls -> Call] /\ N \in Nat
  BY <1>0, ToolBatchesAssumptions DEF BatchesInv, BatchesTypeOK, Running, Calls
<1>2. /\ Batch = cur .. e /\ e \in Calls /\ Cardinality(Batch) \in Nat \ {0}
  BY <1>1, BatchIsInterval
<1>3. cur' = e + 1 /\ e >= cur
  BY <1>0, <1>1, <1>2 DEF Calls
<1> HIDE DEF e
<1>i. N \in Nat /\ e \in 1 .. N /\ cur \in 1 .. N
  BY <1>1, <1>2 DEF Calls
<1>4. cur' \in 1 .. N + 1
  BY <1>i, <1>3
<1>5. BatchesTypeOK'
  <2>1. cur' \in 1 .. N + 2  BY <1>4, <1>i
  <2> QED  BY <2>1, <1>0 DEF BatchesInv, BatchesTypeOK, Ended
<1>6. \A i \in Calls : i < cur' => tool[i] = "done"
  <2> TAKE i \in Calls
  <2>1. CASE i < cur  BY <2>1 DEF BatchesInv, BatchesInOrder, Ended
  <2>2. CASE ~(i < cur) /\ i < cur'
    <3>1. i \in Batch  BY <2>2, <1>2, <1>3, <1>i DEF Calls
    <3> QED  BY <3>1, <1>0
  <2> QED  BY <2>1, <2>2
<1>7. \A i \in Calls : i >= cur' => tool[i] = "queued"
  <2> TAKE i \in Calls
  <2>1. i >= cur' => i >= cur /\ i \notin Batch
    BY <1>2, <1>3, <1>i DEF Calls
  <2> QED  BY <2>1, <1>0 DEF BatchesInv, BatchesInOrder
<1>8. BatchesInOrder'
  BY <1>0, <1>6, <1>7 DEF BatchesInOrder, Ended
<1>9. HeldBounded'
  <2> SUFFICES ASSUME Running'  PROVE Cardinality(Held') <= ConcurrentReadTools
    BY DEF HeldBounded
  <2>1. cur' \in Calls /\ calls' \in [Calls -> Call]
    BY <1>0, <1>1, <1>4 DEF Running, Calls
  <2>2. Batch' \subseteq {i \in Calls : i >= cur'}
    BY <2>1, <1>i DEF Batch, PartitionToolCalls, Calls
  <2>3. Held' = {}
    BY <2>2, <1>0, <1>7 DEF Held
  <2>4. Cardinality(Held') = 0  BY <2>3, FS_EmptySet
  <2> QED  BY <2>4, ToolBatchesAssumptions
<1>10. AbortedByBatch'
  BY <1>0 DEF AbortedByBatch
<1>11. EmittedSoFar' /\ emitted' \in [Calls -> Nat]
  <2>1. cur <= N + 1  BY <1>i
  <2> QED  BY <2>1, <1>0 DEF BatchesInv, EmittedSoFar, Ended
<1>12. BlockingCallsFinish' /\ AbortsHaveCause'
  BY <1>0 DEF BatchesInv, BlockingCallsFinish, AbortsHaveCause, SafeRun
<1>13. OrderListsEntries'
  BY <1>0 DEF BatchesInv, OrderListsEntries
<1>14. OneToolResult'
  <2>1. cur' # N + 2  BY <1>4, <1>i
  <2> QED  BY <2>1 DEF OneToolResult
<1> QED
  BY <1>5, <1>8, <1>9, <1>10, <1>11, <1>12, <1>13, <1>14 DEF BatchesInv

(* EmitRest keeps the invariant, and gives each call its one result.       *)
LEMMA EmitRestStep ==
  ASSUME BatchesInv, EmitRest
  PROVE  BatchesInv'
<1>0. /\ cur = N + 1 /\ cur' = N + 2 /\ N \in Nat
      /\ emitted' = [i \in Calls |-> IF result[i] = "aborted" THEN emitted[i] + 1 ELSE emitted[i]]
      /\ UNCHANGED <<calls, tool, result, aborted, parent, entries, order>>
  BY ToolBatchesAssumptions DEF EmitRest, cacheVars
<1>1. ~Running /\ ~Running'
  BY <1>0 DEF Running
<1>2. BatchesTypeOK'
  BY <1>0 DEF BatchesInv, BatchesTypeOK, Ended
<1>3. \A i \in Calls : tool[i] = "done"
  BY <1>0 DEF BatchesInv, BatchesInOrder, Ended, Calls
<1>4. BatchesInOrder'
  BY <1>0, <1>1, <1>3 DEF BatchesInOrder, Ended
<1>5. HeldBounded' /\ AbortedByBatch'
  BY <1>0, <1>1 DEF BatchesInv, HeldBounded, AbortedByBatch
<1>6. EmittedSoFar'
  BY <1>0 DEF EmittedSoFar
<1>7. \A i \in Calls : emitted[i] = IF result[i] # "aborted" THEN 1 ELSE 0
  <2>1. cur <= N + 1  BY <1>0
  <2> QED  BY <2>1, <1>3 DEF BatchesInv, EmittedSoFar, Ended
<1>8. \A i \in Calls : emitted'[i] = 1
  BY <1>0, <1>7
<1>9. OneToolResult' /\ emitted' \in [Calls -> Nat]
  BY <1>0, <1>7, <1>8 DEF OneToolResult
<1>10. BlockingCallsFinish' /\ AbortsHaveCause'
  BY <1>0 DEF BatchesInv, BlockingCallsFinish, AbortsHaveCause, SafeRun
<1>11. OrderListsEntries'
  BY <1>0 DEF BatchesInv, OrderListsEntries
<1> QED
  BY <1>2, <1>4, <1>5, <1>6, <1>9, <1>10, <1>11 DEF BatchesInv

(* The end of the run's context keeps the invariant.                       *)
LEMMA ParentEndsStep ==
  ASSUME BatchesInv, NEW how \in {"cancelled", "expired"}, ParentEnds(how)
  PROVE  BatchesInv'
<1>0. /\ parent = "live" /\ parent' = how
      /\ UNCHANGED <<calls, cur, tool, result, aborted, emitted, entries, order>>
  BY DEF ParentEnds, cacheVars
<1>1. Batch' = Batch /\ (Parallel <=> Parallel') /\ (Running <=> Running')
  BY <1>0, SameBatch
<1>2. BatchesTypeOK' /\ emitted' \in [Calls -> Nat]
  BY <1>0 DEF BatchesInv, BatchesTypeOK, Ended
<1>3. BatchesInOrder' /\ AbortedByBatch'
  BY <1>0, <1>1 DEF BatchesInv, BatchesInOrder, AbortedByBatch, Ended
<1>4. HeldBounded'
  <2>1. Held' = Held  BY <1>0, <1>1 DEF Held
  <2> QED  BY <1>1, <2>1 DEF BatchesInv, HeldBounded
<1>5. EmittedSoFar' /\ OneToolResult'
  BY <1>0 DEF BatchesInv, EmittedSoFar, OneToolResult, Ended
<1>6. BlockingCallsFinish' /\ AbortsHaveCause'
  BY <1>0 DEF BatchesInv, BlockingCallsFinish, AbortsHaveCause, SafeRun
<1>7. OrderListsEntries'
  BY <1>0 DEF BatchesInv, OrderListsEntries
<1> QED  BY <1>2, <1>3, <1>4, <1>5, <1>6, <1>7 DEF BatchesInv

-----------------------------------------------------------------------------
(* The initial states satisfy the invariant.                               *)
LEMMA BatchesInitInv == BatchesInit => BatchesInv
<1> SUFFICES ASSUME BatchesInit  PROVE BatchesInv
  OBVIOUS
<1>0. N \in Nat /\ ConcurrentReadTools \in Nat /\ ToolCacheCapacity \in Nat
  BY ToolBatchesAssumptions
<1>1. BatchesTypeOK /\ emitted \in [Calls -> Nat]
  <2>1. calls \in [Calls -> Call]  BY TurnsAssumption DEF BatchesInit
  <2>2. cur \in 1 .. N + 2  BY <1>0 DEF BatchesInit
  <2> QED  BY <2>1, <2>2 DEF BatchesInit, BatchesTypeOK, ToolStates, Results, Ended
<1>2. BatchesInOrder
  BY <1>0 DEF BatchesInit, BatchesInOrder, Calls
<1>3. HeldBounded
  <2>1. Running => Batch \subseteq Calls
    BY <1>0 DEF BatchesInit, Running, Batch, PartitionToolCalls, Calls
  <2>2. Running => Held = {}  BY <2>1 DEF BatchesInit, Held
  <2> QED  BY <2>2, <1>0, FS_EmptySet DEF HeldBounded
<1>4. AbortedByBatch /\ EmittedSoFar /\ BlockingCallsFinish /\ AbortsHaveCause
  BY DEF BatchesInit, AbortedByBatch, EmittedSoFar, BlockingCallsFinish, AbortsHaveCause, Ended
<1>5. OrderListsEntries
  <2>1. order \in Seq(Keys) /\ Len(order) = 0 /\ entries = {}
    BY EmptySeq DEF BatchesInit
  <2> QED  BY <2>1, <1>0 DEF OrderListsEntries
<1>6. OneToolResult
  BY <1>0 DEF BatchesInit, OneToolResult
<1> QED  BY <1>1, <1>2, <1>3, <1>4, <1>5, <1>6 DEF BatchesInv

(* The invariant implies what a turn promises: the order of the writes and *)
(* the bound of the semaphore follow from the position of the batch.       *)
LEMMA BatchesInvSafe == BatchesInv => BatchesSafe
<1> SUFFICES ASSUME BatchesInv  PROVE BatchesSafe
  OBVIOUS
<1>0. N \in Nat /\ calls \in [Calls -> Call] /\ cur \in 1 .. N + 2
  BY ToolBatchesAssumptions DEF BatchesInv, BatchesTypeOK
<1>1. ASSUME Running
      PROVE  /\ Batch = cur .. (cur + Cardinality(Batch) - 1)
             /\ IsFiniteSet(Batch) /\ Cardinality(Batch) \in Nat \ {0}
             /\ cur + Cardinality(Batch) - 1 \in Calls
             /\ Parallel => \A k \in Batch : calls[k].safe
  <2>1. cur \in Calls  BY <1>0, <1>1 DEF Running, Calls
  <2> QED  BY <2>1, <1>0, BatchIsInterval
<1>2. WritesAreOrdered
  <2> SUFFICES ASSUME NEW i \in Calls, NEW j \in Calls, i < j,
                      ~(calls[i].safe /\ calls[j].safe), tool[j] # "queued"
               PROVE  tool[i] = "done"
    BY DEF WritesAreOrdered, Ended
  <2>1. CASE i < cur
    BY <2>1 DEF BatchesInv, BatchesInOrder, Ended
  <2>2. CASE ~(i < cur)
    <3>1. Running /\ j >= cur
      BY <2>2, <1>0 DEF Running, Calls
    <3>2. j \in Batch
      BY <3>1 DEF BatchesInv, BatchesInOrder
    <3> DEFINE e == cur + Cardinality(Batch) - 1
    <3>3. Batch = cur .. e /\ e \in Calls  BY <3>1, <1>1
    <3>4. i \in Batch /\ e > cur
      <4> HIDE DEF e
      <4> QED  BY <3>2, <3>3, <2>2, <1>0 DEF Calls
    <3>5. Parallel
      BY <3>1, <3>4, <1>0, <1>1 DEF Parallel
    <3> QED  BY <3>1, <3>2, <3>4, <3>5, <1>1
  <2> QED  BY <2>1, <2>2
<1>3. SemaphoreBound
  <2> DEFINE E == {i \in Calls : tool[i] = "executing"}
  <2> SUFFICES ASSUME Running
               PROVE  Cardinality(E) <= IF Parallel THEN ConcurrentReadTools ELSE 1
    BY DEF SemaphoreBound
  <2>1. E \in SUBSET Batch
    <3> SUFFICES ASSUME NEW i \in Calls, tool[i] = "executing"  PROVE i \in Batch
      OBVIOUS
    <3>1. i >= cur  BY <1>0 DEF BatchesInv, BatchesInOrder, Ended, Calls
    <3> QED  BY <3>1 DEF BatchesInv, BatchesInOrder
  <2>2. CASE Parallel
    <3>1. E \in SUBSET Held /\ Held \in SUBSET Batch  BY <2>1 DEF Held
    <3>2. IsFiniteSet(Held)  BY <3>1, <1>1, FS_Subset
    <3>3. IsFiniteSet(E) /\ Cardinality(E) <= Cardinality(Held)  BY <3>1, <3>2, FS_Subset
    <3>4. Cardinality(E) \in Nat /\ Cardinality(Held) \in Nat
      BY <3>2, <3>3, FS_CardinalityType
    <3>5. Cardinality(Held) <= ConcurrentReadTools  BY <2>2 DEF BatchesInv, HeldBounded
    <3> QED  BY <2>2, <3>3, <3>4, <3>5, ToolBatchesAssumptions
  <2>3. CASE ~Parallel
    <3>1. Cardinality(Batch) <= 1 /\ Cardinality(Batch) \in Nat  BY <2>3, <1>1 DEF Parallel
    <3>2. IsFiniteSet(E) /\ Cardinality(E) <= Cardinality(Batch)  BY <2>1, <1>1, FS_Subset
    <3>3. Cardinality(E) \in Nat  BY <3>2, FS_CardinalityType
    <3> QED  BY <2>3, <3>1, <3>2, <3>3
  <2> QED  BY <2>2, <2>3
<1>4. CacheConsistent
  <2>1. Cardinality(entries) = Len(order) /\ entries \subseteq Keys
    BY OrderCounts DEF BatchesInv, BatchesTypeOK
  <2>2. DOMAIN order = 1 .. Len(order) /\ \A n \in 1 .. Len(order) : order[n] \in Keys
    BY LenProperties, ElementOfSeq DEF BatchesInv, OrderListsEntries
  <2>3. {order[n] : n \in DOMAIN order} = entries
    BY <2>1, <2>2 DEF BatchesInv, OrderListsEntries
  <2> QED  BY <2>1, <2>3 DEF CacheConsistent, BatchesInv, OrderListsEntries
<1> QED  BY <1>2, <1>3, <1>4 DEF BatchesInv, BatchesSafe

(* ExecuteAll, for any number of calls, goroutines and cached results:     *)
(* writes never overlap, the semaphore is respected, blocking calls are    *)
(* not cut off, aborts have a cause, the cache stays consistent and the    *)
(* client gets one result per call.                                        *)
THEOREM BatchesAreSafe == BatchesSpec => []BatchesSafe
<1>1. BatchesInv /\ [BatchesNext]_batchVars => BatchesInv'
  <2> SUFFICES ASSUME BatchesInv, [BatchesNext]_batchVars  PROVE BatchesInv'
    OBVIOUS
  <2>1. ASSUME NEW i \in Calls, BatchStep(i)  PROVE BatchesInv'
    BY <2>1, StartGoroutineStep, AcquireStep, CacheGetStep, RecheckStep, StartSerialStep,
       ExecuteStep DEF BatchStep
  <2>2. CASE NextBatch
    BY <2>2, NextBatchStep
  <2>3. CASE EmitRest
    BY <2>3, EmitRestStep
  <2>4. ASSUME NEW how \in {"cancelled", "expired"}, ParentEnds(how)  PROVE BatchesInv'
    BY <2>4, ParentEndsStep
  <2>5. CASE UNCHANGED batchVars
    BY <2>5 DEF batchVars, cacheVars, BatchesInv, BatchesTypeOK, BatchesInOrder, HeldBounded,
       AbortedByBatch, EmittedSoFar, BlockingCallsFinish, AbortsHaveCause, OrderListsEntries,
       OneToolResult, Ended, Running, Parallel, Held, Batch, PartitionToolCalls, SafeRun
  <2> QED  BY <2>1, <2>2, <2>3, <2>4, <2>5 DEF BatchesNext
<1> QED  BY <1>1, BatchesInitInv, BatchesInvSafe, PTL DEF BatchesSpec
=============================================================================
