--------------------------- MODULE RunPartsProofs ---------------------------
(***************************************************************************)
(* Two parts of a run that wait for a service outside, and its sub-agents. *)
(*                                                                         *)
(* A model call, for any number of attempts, any list of fallback models   *)
(* and any errors in any order: a query makes no more requests than it is  *)
(* configured to, and the error the loop recovers from reaches it.         *)
(*                                                                         *)
(* The MCP client, for any runs, servers and thresholds: a server is       *)
(* tripped for a row of failures only, and after that only calls that were *)
(* on their way fail on it.                                                *)
(*                                                                         *)
(* The sub-agents of a turn, for any number of them, slots and costs, with *)
(* sub-agents of their own below them: when the turn is over they are      *)
(* accounted for, and what they count together is bounded by a multiple of *)
(* what was left of the budget.                                            *)
(***************************************************************************)
EXTENDS ModelCall, McpClient, Subtasks, SequenceTheorems, FiniteSetTheorems, TLAPS

-----------------------------------------------------------------------------
(* The inductive invariant of a model call.                                *)

Models == 0 .. Len(Fallbacks)
Trying == at \in {"attempt", "backoff"}

CallTypes ==
  /\ at \in {"attempt", "backoff", "nonStreaming", "returned"}
  /\ model \in Models /\ attempt \in Nat \ {0} /\ overloads \in Nat
  /\ primaryErr \in Errors \cup {"none"} /\ answer \in Errors \cup {"none", "stream"}
  /\ ctxOver \in BOOLEAN /\ streams \in [Models -> Nat] /\ chats \in Nat /\ inRow \in Nat

(* Models are tried in order, and each ChatStream call is an attempt: the  *)
(* one that is about to be made is not counted yet.                        *)
AttemptsCounted ==
  /\ attempt <= attemptsOf(model)
  /\ at = "backoff" => attempt < attemptsOf(model)
  /\ \A m \in Models : m > model => streams[m] = 0
  /\ \A m \in Models : m < model => streams[m] <= attemptsOf(m)
  /\ at = "attempt" => streams[model] + 1 <= attempt
  /\ streams[model] <= attempt

(* What retryStream counts is what the model answered: its consecutive     *)
(* overloads, never so many that it should have given up.                  *)
OverloadsCounted ==
  /\ at = "backoff" \/ (at = "attempt" /\ attempt > 1) => inRow = overloads
  /\ at = "attempt" /\ attempt = 1 => overloads = 0
  /\ Trying => overloads < max529Retries /\ (overloads > 0 => Foreground)
  /\ inRow <= (IF Foreground THEN max529Retries ELSE 1)

(* The request without streaming is made at most once, and only after an   *)
(* error of the primary model that calls for it.                           *)
OneChat ==
  /\ chats <= 1
  /\ (Trying /\ model = 0) \/ at = "nonStreaming" => chats = 0

(* An error of the primary model is known from the moment the primary is   *)
(* given up; fallbacks are tried for an error the configuration names.     *)
PrimaryError ==
  /\ at # "returned" => answer = "none"
  /\ Trying /\ model = 0 => primaryErr = "none"
  /\ at = "nonStreaming" => model = 0 /\ isStreamingFallbackEligible(primaryErr)
  /\ model > 0 => primaryErr \in Errors /\ shouldFallback(primaryErr)
  /\ primaryErr \in {"too_long", "media_size", "aborted"} =>
       at = "returned" /\ model = 0 /\ chats = 0 /\ answer = primaryErr
  /\ at = "returned" /\ model > 0 => answer \in {"stream", primaryErr}

CallInv ==
  CallTypes /\ AttemptsCounted /\ OverloadsCounted /\ OneChat /\ PrimaryError

-----------------------------------------------------------------------------
(* Facts about the configuration: every model is tried at least once.      *)
LEMMA AttemptsPositive ==
  /\ Len(Fallbacks) \in Nat
  /\ \A m \in Models : attemptsOf(m) \in Nat \ {0}
<1>1. Len(Fallbacks) \in Nat /\ MaxAttempts \in Nat
  BY ModelCallAssumption, LenProperties
<1>2. \A i \in 1 .. Len(Fallbacks) : Fallbacks[i] \in Nat
  BY ModelCallAssumption, ElementOfSeq
<1> QED
  BY <1>1, <1>2 DEF Models, attemptsOf, AtLeastOnce, fallbackAttempts

(* The errors the loop recovers from are none the configuration can fall   *)
(* back on, and none that is asked again without streaming.                *)
LEMMA RecoverableErrors ==
  ASSUME NEW e \in {"too_long", "media_size", "aborted"}
  PROVE  ~shouldFallback(e) /\ ~isStreamingFallbackEligible(e)
BY ModelCallAssumption DEF shouldFallback, classifyTransientError, isStreamingFallbackEligible

(* The models after the first ones have not been asked: the next fallback  *)
(* starts from nothing, or the primary's error is returned.                *)
LEMMA NextFallbackInv ==
  ASSUME CallTypes, streams' \in [Models -> Nat], NEW i \in 1 .. Len(Fallbacks) + 1,
         i = model + 1, NextFallback(i, primaryErr'),
         primaryErr' \in Errors, shouldFallback(primaryErr'),
         \A m \in Models : m > model => streams'[m] = 0,
         \A m \in Models : m <= model => streams'[m] <= attemptsOf(m),
         attempt <= attemptsOf(model), streams'[model] <= attempt,
         inRow' \in Nat, inRow' <= (IF Foreground THEN max529Retries ELSE 1),
         chats' \in Nat, chats' <= 1, ctxOver' \in BOOLEAN, answer = "none"
  PROVE  CallInv'
<1>0. /\ Len(Fallbacks) \in Nat /\ (\A m \in Models : attemptsOf(m) \in Nat \ {0})
      /\ model \in Nat
  BY AttemptsPositive DEF CallTypes, Models
<1>1. primaryErr' \notin {"too_long", "media_size", "aborted"}
  BY RecoverableErrors
<1>2. CASE i <= Len(Fallbacks)
  <2>1. at' = "attempt" /\ model' = i /\ attempt' = 1 /\ overloads' = 0 /\ answer' = "none"
    BY <1>2 DEF NextFallback, StartModel
  <2>2. CallTypes'
    BY <1>0, <1>2, <2>1 DEF CallTypes, Models
  <2>3. AttemptsCounted'
    <3>1. i \in Models /\ i > model /\ streams'[i] = 0  BY <1>0, <1>2 DEF Models
    <3>2. \A m \in Models : m < i => m <= model  BY <1>0 DEF Models
    <3>3. \A m \in Models : m > i => m > model  BY <1>0 DEF Models
    <3>4. attemptsOf(model') \in Nat \ {0}  BY <1>0, <2>1, <3>1
    <3> QED  BY <2>1, <3>1, <3>2, <3>3, <3>4 DEF AttemptsCounted, attemptsOf
  <2>4. OverloadsCounted'
    BY <2>1 DEF OverloadsCounted, Trying, max529Retries
  <2>5. OneChat'
    BY <1>0, <2>1 DEF OneChat, Trying
  <2>6. PrimaryError'
    BY <1>0, <1>1, <2>1 DEF PrimaryError, Trying, shouldFallback, classifyTransientError
  <2> QED  BY <2>2, <2>3, <2>4, <2>5, <2>6 DEF CallInv
<1>3. CASE ~(i <= Len(Fallbacks))
  <2>1. /\ at' = "returned" /\ answer' = primaryErr'
        /\ model' = model /\ attempt' = attempt /\ overloads' = overloads
    BY <1>3 DEF NextFallback, ReturnResult
  <2>2. CallTypes'
    BY <2>1 DEF CallTypes
  <2>3. AttemptsCounted'
    <3>1. \A m \in Models : m < model => streams'[m] <= attemptsOf(m)
      BY <1>0 DEF Models
    <3>2. attempt <= attemptsOf(model)  OBVIOUS
    <3> QED  BY <2>1, <3>1, <3>2 DEF AttemptsCounted, attemptsOf
  <2>4. OverloadsCounted' /\ OneChat'
    BY <2>1 DEF OverloadsCounted, OneChat, Trying
  <2>5. PrimaryError'
    BY <1>1, <2>1 DEF PrimaryError, Trying, shouldFallback, classifyTransientError
  <2> QED  BY <2>2, <2>3, <2>4, <2>5 DEF CallInv
<1> QED  BY <1>2, <1>3

(* What the end of a model leaves for the next one: the calls made so far  *)
(* are within their bounds.                                                *)
CallsBounded ==
  /\ streams' \in [Models -> Nat] /\ chats' \in Nat /\ chats' <= 1 /\ ctxOver' \in BOOLEAN
  /\ \A m \in Models : m > model => streams'[m] = 0
  /\ \A m \in Models : m <= model => streams'[m] <= attemptsOf(m)
  /\ streams'[model] <= attempt /\ attempt <= attemptsOf(model)
  /\ inRow' \in Nat /\ inRow' <= (IF Foreground THEN max529Retries ELSE 1)

(* The primary model is given up: the error is returned, or it is one the  *)
(* configuration falls back on.                                            *)
LEMMA AfterPrimaryInv ==
  ASSUME CallTypes, model = 0, answer = "none", CallsBounded, NEW err \in Errors,
         primaryErr' \in Errors, AfterPrimary(primaryErr', err),
         primaryErr' \in {"too_long", "media_size", "aborted"} =>
           err = primaryErr' /\ chats' = 0
  PROVE  CallInv'
<1>0. Len(Fallbacks) \in Nat
  BY AttemptsPositive
<1>1. CASE Len(Fallbacks) = 0 \/ ~shouldFallback(primaryErr')
  <2> DEFINE a == IF Len(Fallbacks) = 0 THEN err ELSE primaryErr'
  <2>1. /\ at' = "returned" /\ answer' = a
        /\ model' = model /\ attempt' = attempt /\ overloads' = overloads
    BY <1>1 DEF AfterPrimary, ReturnResult
  <2>2. CallTypes'
    BY <2>1 DEF CallTypes, CallsBounded
  <2>3. AttemptsCounted'
    <3>1. \A m \in Models : m < model => streams'[m] <= attemptsOf(m)
      BY <1>0 DEF Models, CallsBounded
    <3> QED  BY <2>1, <3>1 DEF AttemptsCounted, attemptsOf, CallsBounded
  <2>4. OverloadsCounted' /\ OneChat'
    BY <2>1 DEF OverloadsCounted, OneChat, Trying, CallsBounded
  <2>5. PrimaryError'
    BY <2>1 DEF PrimaryError, Trying
  <2> QED  BY <2>2, <2>3, <2>4, <2>5 DEF CallInv
<1>2. CASE ~(Len(Fallbacks) = 0 \/ ~shouldFallback(primaryErr'))
  <2>1. NextFallback(1, primaryErr') /\ shouldFallback(primaryErr')
    BY <1>2 DEF AfterPrimary
  <2>2. 1 \in 1 .. Len(Fallbacks) + 1 /\ 1 = model + 1
    BY <1>0
  <2> QED  BY <2>1, <2>2, NextFallbackInv DEF CallsBounded
<1> QED  BY <1>1, <1>2

(* retryStream gives up on a model: the next one, the request without      *)
(* streaming or the loop gets the error.                                   *)
LEMMA GiveUpInv ==
  ASSUME CallInv, Trying, CallsBounded, chats' = chats, NEW e \in Errors, GiveUp(e)
  PROVE  CallInv'
<1>0. CallTypes /\ PrimaryError /\ answer = "none" /\ Len(Fallbacks) \in Nat /\ model \in Models
  BY AttemptsPositive DEF CallInv, CallTypes, PrimaryError, Trying
<1>1. CASE model > 0
  <2>1. NextFallback(model + 1, primaryErr) /\ primaryErr' = primaryErr
    BY <1>1 DEF GiveUp
  <2>2. primaryErr \in Errors /\ shouldFallback(primaryErr)
    BY <1>0, <1>1 DEF PrimaryError
  <2>3. model + 1 \in 1 .. Len(Fallbacks) + 1
    BY <1>0 DEF Models
  <2>4. NextFallback(model + 1, primaryErr')
    BY <2>1
  <2> QED  BY <1>0, <2>1, <2>2, <2>3, <2>4, NextFallbackInv DEF CallsBounded
<1>2. CASE ~(model > 0)
  <2>0. model = 0 /\ chats = 0 /\ primaryErr' = e
    BY <1>0, <1>2 DEF CallInv, OneChat, Models, GiveUp
  <2>1. CASE isStreamingFallbackEligible(e)
    <3>1. at' = "nonStreaming" /\ UNCHANGED <<model, attempt, overloads, answer>>
      BY <1>2, <2>1 DEF GiveUp
    <3>2. CallTypes'
      BY <1>0, <2>0, <3>1 DEF CallTypes, CallsBounded
    <3>3. AttemptsCounted'
      <4>1. \A m \in Models : m < model => streams'[m] <= attemptsOf(m)
        BY <1>0 DEF Models, CallsBounded
      <4> QED  BY <3>1, <4>1 DEF AttemptsCounted, attemptsOf, CallsBounded
    <3>4. OverloadsCounted' /\ OneChat'
      BY <2>0, <3>1 DEF OverloadsCounted, OneChat, Trying, CallsBounded
    <3>5. e \notin {"too_long", "media_size", "aborted"}
      BY <2>1, RecoverableErrors
    <3>6. PrimaryError'
      BY <1>0, <2>0, <2>1, <3>1, <3>5
         DEF PrimaryError, Trying, isStreamingFallbackEligible
    <3> QED  BY <3>2, <3>3, <3>4, <3>6 DEF CallInv
  <2>2. CASE ~isStreamingFallbackEligible(e)
    <3>1. AfterPrimary(primaryErr', e)
      BY <1>2, <2>0, <2>2 DEF GiveUp
    <3>2. primaryErr' \in Errors /\ e = primaryErr' /\ chats' = 0
      BY <2>0
    <3> QED  BY <1>0, <2>0, <3>1, <3>2, AfterPrimaryInv
  <2> QED  BY <2>1, <2>2
<1> QED  BY <1>1, <1>2

-----------------------------------------------------------------------------
(* The steps.                                                              *)

(* ChatStream keeps the invariant.                                         *)
LEMMA ChatStreamStep ==
  ASSUME CallInv, NEW outcome \in Errors \cup {"stream"}, ChatStream(outcome)
  PROVE  CallInv'
<1> DEFINE row == IF isOverloadError(outcome) THEN overloads + 1 ELSE 0
<1>0. /\ at = "attempt" /\ Trying /\ ctxOver' = ctxOver /\ chats' = chats
      /\ streams' = [streams EXCEPT ![model] = @ + 1]
      /\ inRow' = IF isOverloadError(outcome) THEN (IF attempt = 1 THEN 1 ELSE inRow + 1) ELSE 0
  BY DEF ChatStream, Trying
<1>1. /\ model \in Models /\ Models \subseteq Nat /\ attempt \in Nat \ {0} /\ overloads \in Nat
      /\ streams \in [Models -> Nat] /\ inRow \in Nat /\ chats \in Nat
      /\ \A m \in Models : attemptsOf(m) \in Nat \ {0}
  BY AttemptsPositive DEF CallInv, CallTypes, Models
<1>2. /\ streams' \in [Models -> Nat]
      /\ \A m \in Models : streams'[m] = IF m = model THEN streams[m] + 1 ELSE streams[m]
      /\ \A m \in Models : m > model => streams'[m] = 0
      /\ \A m \in Models : m < model => streams'[m] <= attemptsOf(m)
      /\ streams'[model] <= attempt /\ attempt <= attemptsOf(model)
  <2>1. streams' \in [Models -> Nat]
    BY <1>0, <1>1
  <2>2. \A m \in Models : streams'[m] = IF m = model THEN streams[m] + 1 ELSE streams[m]
    BY <1>0, <1>1
  <2>3. /\ attempt <= attemptsOf(model) /\ streams[model] + 1 <= attempt
        /\ \A m \in Models : m > model => streams[m] = 0
        /\ \A m \in Models : m < model => streams[m] <= attemptsOf(m)
    BY <1>0 DEF CallInv, AttemptsCounted
  <2> QED  BY <2>1, <2>2, <2>3, <1>1
<1>3. \A m \in Models : m <= model => streams'[m] <= attemptsOf(m)
  <2> TAKE m \in Models
  <2>1. CASE m = model  BY <2>1, <1>1, <1>2
  <2>2. CASE m # model  BY <2>2, <1>1, <1>2
  <2> QED  BY <2>1, <2>2
<1>4. /\ overloads < 3 /\ (overloads > 0 => Foreground)
      /\ attempt = 1 => overloads = 0
      /\ attempt > 1 => inRow = overloads
  BY <1>0 DEF CallInv, OverloadsCounted, max529Retries
<1>5. /\ inRow' = row /\ inRow' \in Nat
      /\ inRow' <= (IF Foreground THEN max529Retries ELSE 1)
  <2>1. inRow' = row
    BY <1>0, <1>1, <1>4
  <2>2. row \in Nat
    BY <1>1
  <2>3. row <= (IF Foreground THEN max529Retries ELSE 1)
    <3>1. CASE Foreground  BY <3>1, <1>1, <1>4 DEF max529Retries
    <3>2. CASE ~Foreground  BY <3>2, <1>1, <1>4
    <3> QED  BY <3>1, <3>2
  <2> QED  BY <2>1, <2>2, <2>3
<1>6. CallsBounded
  BY <1>0, <1>1, <1>2, <1>3, <1>5 DEF CallsBounded, CallInv, CallTypes, OneChat
<1>7. CASE outcome = "stream"
  <2>1. /\ at' = "returned" /\ answer' = "stream" /\ primaryErr' = primaryErr
        /\ model' = model /\ attempt' = attempt /\ overloads' = overloads
    BY <1>7 DEF ChatStream, ReturnResult
  <2>2. CallTypes'
    BY <1>5, <1>6, <2>1 DEF CallsBounded, CallInv, CallTypes
  <2>3. AttemptsCounted'
    BY <1>2, <2>1 DEF AttemptsCounted, attemptsOf
  <2>4. OverloadsCounted' /\ OneChat'
    BY <1>0, <1>5, <2>1 DEF OverloadsCounted, OneChat, Trying, CallInv
  <2>5. PrimaryError'
    BY <1>0, <2>1 DEF CallInv, PrimaryError, Trying
  <2> QED  BY <2>2, <2>3, <2>4, <2>5 DEF CallInv
<1>8. CASE outcome # "stream" /\ Retries(outcome, row)
  <2>1. /\ at' = "backoff" /\ overloads' = row
        /\ UNCHANGED <<model, attempt, primaryErr, answer>>
    BY <1>8 DEF ChatStream
  <2>2. CallTypes'
    BY <1>5, <1>6, <2>1 DEF CallsBounded, CallInv, CallTypes
  <2>3. AttemptsCounted'
    <3>1. attempt < attemptsOf(model)  BY <1>8 DEF Retries
    <3> QED  BY <1>2, <2>1, <3>1 DEF AttemptsCounted, attemptsOf
  <2>4. row < max529Retries /\ (row > 0 => Foreground)
    <3>1. CASE isOverloadError(outcome)  BY <3>1, <1>8 DEF Retries
    <3>2. CASE ~isOverloadError(outcome)  BY <3>2 DEF max529Retries
    <3> QED  BY <3>1, <3>2
  <2>5. OverloadsCounted'
    BY <1>5, <2>1, <2>4 DEF OverloadsCounted, Trying
  <2>6. OneChat'
    BY <1>0, <2>1 DEF CallInv, OneChat, Trying
  <2>7. PrimaryError'
    BY <1>0, <2>1 DEF CallInv, PrimaryError, Trying, shouldFallback, classifyTransientError
  <2> QED  BY <2>2, <2>3, <2>5, <2>6, <2>7 DEF CallInv
<1>9. CASE outcome # "stream" /\ ~Retries(outcome, row)
  <2>1. GiveUp(outcome) /\ outcome \in Errors
    BY <1>9 DEF ChatStream
  <2> QED  BY <2>1, <1>0, <1>6, GiveUpInv
<1> QED  BY <1>7, <1>8, <1>9

(* Backoff keeps the invariant: the next attempt is one of those allowed.  *)
LEMMA BackoffStep ==
  ASSUME CallInv, Backoff
  PROVE  CallInv'
<1>0. at = "backoff" /\ Trying /\ UNCHANGED <<ctxOver, streams, chats, inRow>>
  BY DEF Backoff, Trying
<1>1. /\ model \in Models /\ Models \subseteq Nat /\ attempt \in Nat \ {0}
      /\ streams \in [Models -> Nat]
      /\ \A m \in Models : attemptsOf(m) \in Nat \ {0}
  BY AttemptsPositive DEF CallInv, CallTypes, Models
<1>2. /\ streams[model] <= attempt /\ attempt < attemptsOf(model)
      /\ \A m \in Models : m > model => streams[m] = 0
      /\ \A m \in Models : m < model => streams[m] <= attemptsOf(m)
  BY <1>0 DEF CallInv, AttemptsCounted
<1>3. CASE ctxOver /\ GiveUp("aborted")
  <2>1. \A m \in Models : m <= model => streams[m] <= attemptsOf(m)
    <3> TAKE m \in Models
    <3>1. CASE m = model  BY <3>1, <1>1, <1>2
    <3>2. CASE m # model  BY <3>2, <1>1, <1>2
    <3> QED  BY <3>1, <3>2
  <2>2. CallsBounded
    BY <1>0, <1>1, <1>2, <2>1
       DEF CallsBounded, CallInv, CallTypes, OneChat, OverloadsCounted
  <2>3. "aborted" \in Errors  BY DEF Errors
  <2> QED  BY <1>0, <1>3, <2>2, <2>3, GiveUpInv
<1>4. CASE /\ at' = "attempt" /\ attempt' = attempt + 1
           /\ UNCHANGED <<model, overloads, primaryErr, answer>>
  <2>1. CallTypes'
    BY <1>0, <1>1, <1>4 DEF CallInv, CallTypes
  <2>2. AttemptsCounted'
    BY <1>0, <1>1, <1>2, <1>4 DEF AttemptsCounted, attemptsOf
  <2>3. OverloadsCounted'
    BY <1>0, <1>1, <1>4 DEF CallInv, OverloadsCounted, Trying
  <2>4. OneChat'
    BY <1>0, <1>4 DEF CallInv, OneChat, Trying
  <2>5. PrimaryError'
    BY <1>0, <1>4 DEF CallInv, PrimaryError, Trying, shouldFallback, classifyTransientError
  <2> QED  BY <2>1, <2>2, <2>3, <2>4, <2>5 DEF CallInv
<1> QED  BY <1>3, <1>4 DEF Backoff

(* The request without streaming keeps the invariant.                      *)
LEMMA ChatStep ==
  ASSUME CallInv, NEW outcome \in Errors \cup {"stream"}, Chat(outcome)
  PROVE  CallInv'
<1>0. /\ at = "nonStreaming" /\ chats' = chats + 1
      /\ UNCHANGED <<primaryErr, ctxOver, streams, inRow>>
  BY DEF Chat
<1>1. /\ model = 0 /\ chats = 0 /\ isStreamingFallbackEligible(primaryErr) /\ answer = "none"
      /\ CallTypes
  BY <1>0 DEF CallInv, OneChat, PrimaryError
<1>2. /\ primaryErr \in Errors
      /\ primaryErr \notin {"too_long", "media_size", "aborted"}
  BY <1>1 DEF isStreamingFallbackEligible, Errors
<1>3. /\ Models \subseteq Nat /\ \A m \in Models : attemptsOf(m) \in Nat \ {0}
      /\ attempt \in Nat /\ streams \in [Models -> Nat] /\ 0 \in Models
  BY <1>1, AttemptsPositive DEF CallTypes, Models
<1>4. CallsBounded
  <2>1. \A m \in Models : m <= model => streams[m] <= attemptsOf(m)
    <3> TAKE m \in Models
    <3>1. CASE m = 0
      <4>1. streams[model] <= attempt /\ attempt <= attemptsOf(model)
        BY DEF CallInv, AttemptsCounted
      <4> QED  BY <3>1, <4>1, <1>1, <1>3
    <3>2. CASE m # 0  BY <3>2, <1>1, <1>3
    <3> QED  BY <3>1, <3>2
  <2>2. /\ streams[model] <= attempt /\ attempt <= attemptsOf(model)
        /\ \A m \in Models : m > model => streams[m] = 0
    BY DEF CallInv, AttemptsCounted
  <2>3. chats' \in Nat /\ chats' <= 1
    BY <1>0, <1>1
  <2>4. inRow \in Nat /\ inRow <= (IF Foreground THEN max529Retries ELSE 1) /\ ctxOver \in BOOLEAN
    BY <1>1 DEF CallInv, OverloadsCounted, CallTypes
  <2> QED  BY <1>0, <1>3, <2>1, <2>2, <2>3, <2>4 DEF CallsBounded
<1>5. CASE outcome = "stream"
  <2>1. /\ at' = "returned" /\ answer' = "stream"
        /\ model' = model /\ attempt' = attempt /\ overloads' = overloads
    BY <1>5 DEF Chat, ReturnResult
  <2>2. CallTypes'
    BY <1>0, <1>1, <1>4, <2>1 DEF CallsBounded, CallTypes
  <2>3. AttemptsCounted'
    BY <1>0, <1>4, <2>1 DEF CallInv, CallsBounded, AttemptsCounted, attemptsOf
  <2>4. OverloadsCounted' /\ OneChat'
    BY <1>4, <2>1 DEF CallsBounded, OverloadsCounted, OneChat, Trying
  <2>5. PrimaryError'
    BY <1>0, <1>1, <1>2, <2>1 DEF PrimaryError, Trying
  <2> QED  BY <2>2, <2>3, <2>4, <2>5 DEF CallInv
<1>6. CASE outcome # "stream"
  <2>1. AfterPrimary(primaryErr', outcome) /\ outcome \in Errors
    BY <1>0, <1>6 DEF Chat
  <2> QED  BY <1>0, <1>1, <1>2, <1>4, <2>1, AfterPrimaryInv
<1> QED  BY <1>5, <1>6

(* Every query, whatever its models answer and whenever its context ends,  *)
(* stays within its requests, and the errors the loop recovers from reach  *)
(* it as they are.                                                         *)
THEOREM CallIsSafe == CallSpec => []ModelCallSafe
<1>1. CallInit => CallInv
  <2> SUFFICES ASSUME CallInit  PROVE CallInv
    OBVIOUS
  <2>0. Len(Fallbacks) \in Nat /\ 0 \in Models /\ attemptsOf(0) \in Nat \ {0}
    <3>1. Len(Fallbacks) \in Nat  BY AttemptsPositive
    <3>2. 0 \in Models  BY <3>1 DEF Models
    <3> QED  BY <3>1, <3>2, AttemptsPositive
  <2>1. CallTypes
    BY <2>0 DEF CallInit, CallTypes, Models
  <2>2. AttemptsCounted
    <3>1. /\ \A m \in Models : streams[m] = 0 /\ m >= 0
          /\ model = 0 /\ attempt = 1 /\ at = "attempt"
      BY <2>0 DEF CallInit, Models
    <3>2. \A m \in Models : ~(m < 0)
      BY <2>0 DEF Models
    <3> QED  BY <2>0, <3>1, <3>2 DEF AttemptsCounted
  <2>3. OverloadsCounted /\ OneChat
    BY DEF CallInit, OverloadsCounted, OneChat, Trying, max529Retries
  <2>4. PrimaryError
    BY DEF CallInit, PrimaryError, Trying
  <2> QED  BY <2>1, <2>2, <2>3, <2>4 DEF CallInv
<1>2. CallInv /\ [CallNext]_callVars => CallInv'
  <2> SUFFICES ASSUME CallInv, [CallNext]_callVars  PROVE CallInv'
    OBVIOUS
  <2>1. ASSUME NEW o \in Errors \cup {"stream"}, ChatStream(o)  PROVE CallInv'
    BY <2>1, ChatStreamStep
  <2>2. ASSUME NEW o \in Errors \cup {"stream"}, Chat(o)  PROVE CallInv'
    BY <2>2, ChatStep
  <2>3. CASE Backoff
    BY <2>3, BackoffStep
  <2>4. ASSUME UNCHANGED <<at, model, attempt, overloads, primaryErr, answer, streams, chats, inRow>>,
               ctxOver' \in BOOLEAN
        PROVE  CallInv'
    <3>1. CallTypes' /\ AttemptsCounted'
      BY <2>4 DEF CallInv, CallTypes, AttemptsCounted, attemptsOf
    <3>2. OverloadsCounted' /\ OneChat'
      BY <2>4 DEF CallInv, OverloadsCounted, OneChat, Trying
    <3>3. PrimaryError'
      BY <2>4 DEF CallInv, PrimaryError, Trying, shouldFallback, classifyTransientError
    <3> QED  BY <3>1, <3>2, <3>3 DEF CallInv
  <2>5. CASE ContextEnds
    BY <2>4, <2>5 DEF ContextEnds
  <2>6. CASE UNCHANGED callVars
    BY <2>4, <2>6 DEF callVars, CallInv, CallTypes
  <2> QED  BY <2>1, <2>2, <2>3, <2>5, <2>6 DEF CallNext
<1>3. CallInv => ModelCallSafe
  <2> SUFFICES ASSUME CallInv  PROVE ModelCallSafe
    OBVIOUS
  <2>0. /\ model \in Models /\ Models \subseteq Nat /\ attempt \in Nat
        /\ streams \in [Models -> Nat] /\ DOMAIN streams = Models
        /\ \A m \in Models : attemptsOf(m) \in Nat \ {0}
        /\ Len(Fallbacks) \in Nat
    BY AttemptsPositive DEF CallInv, CallTypes, Models
  <2>1. \A m \in Models : streams[m] <= attemptsOf(m)
    <3> TAKE m \in Models
    <3>1. CASE m = model  BY <3>1, <2>0 DEF CallInv, AttemptsCounted
    <3>2. CASE m < model  BY <3>2, <2>0 DEF CallInv, AttemptsCounted
    <3>3. CASE m > model  BY <3>3, <2>0 DEF CallInv, AttemptsCounted
    <3> QED  BY <3>1, <3>2, <3>3, <2>0
  <2>2. RequestsBounded
    BY <2>0, <2>1 DEF RequestsBounded, CallInv, OneChat, OverloadsCounted
  <2>3. primaryErr \in {"too_long", "media_size", "aborted"} =>
          answer = primaryErr /\ chats = 0 /\ \A m \in 1 .. Len(Fallbacks) : streams[m] = 0
    <3>1. \A m \in 1 .. Len(Fallbacks) : m \in Models /\ m > 0  BY <2>0 DEF Models
    <3> QED  BY <3>1 DEF CallInv, PrimaryError, AttemptsCounted
  <2>4. ErrorsSurface
    BY <2>3 DEF ErrorsSurface, CallInv, PrimaryError
  <2> QED  BY <2>2, <2>4 DEF ModelCallSafe
<1> QED  BY <1>1, <1>2, <1>3, PTL DEF CallSpec

-----------------------------------------------------------------------------
(* The inductive invariant of the breaker of the MCP client.               *)

McpTypes ==
  /\ mcpAt \in [McpRuns -> {"idle", "listing"} \cup Servers]
  /\ failures \in [CircuitKeys -> Nat] /\ streak \in [CircuitKeys -> Nat]
  /\ longest \in [CircuitKeys -> Nat] /\ late \in [CircuitKeys -> Nat]
  /\ disabled \subseteq CircuitKeys

(* The counter is the streak, and trips the server when the streak has     *)
(* been long enough once.                                                  *)
FailuresCounted(k) ==
  /\ failures[k] = streak[k] /\ streak[k] <= longest[k]
  /\ k \in disabled <=> longest[k] >= MaxFailures
  /\ k \notin disabled => late[k] = 0

(* The calls on their way, of which each may still fail once.              *)
InFlight(t, s) == {r \in RunsOf(t) : mcpAt[r] = s}
LateBounded(t, s) ==
  late[<<t, s>>] + Cardinality(InFlight(t, s))
    <= Cardinality(RunsOf(t)) - (IF <<t, s>> \in disabled THEN 1 ELSE 0)

McpInv ==
  /\ McpTypes
  /\ \A k \in CircuitKeys : FailuresCounted(k)
  /\ \A t \in Tenants, s \in Servers : LateBounded(t, s)

(* The runs of a tenant, and those of them that call a server, are finite. *)
LEMMA FewRuns ==
  ASSUME NEW t, NEW A, A \subseteq RunsOf(t)
  PROVE  /\ IsFiniteSet(A) /\ Cardinality(A) \in Nat /\ Cardinality(RunsOf(t)) \in Nat
         /\ Cardinality(A) <= Cardinality(RunsOf(t))
  <1>1. IsFiniteSet(RunsOf(t))
    BY McpAssumption, FS_Subset DEF RunsOf
  <1>2. IsFiniteSet(A) /\ Cardinality(A) <= Cardinality(RunsOf(t))
    BY <1>1, FS_Subset
  <1> QED
    BY <1>1, <1>2, FS_CardinalityType

(* A step that starts or ends no call keeps the invariant.                 *)
LEMMA NoCallStep ==
  ASSUME McpInv, UNCHANGED breakerVars,
         mcpAt' \in [McpRuns -> {"idle", "listing"} \cup Servers],
         \A r \in McpRuns : mcpAt'[r] = mcpAt[r] \/ (mcpAt'[r] \notin Servers /\ mcpAt[r] \notin Servers)
  PROVE  McpInv'
  <1>1. McpTypes' /\ \A k \in CircuitKeys : FailuresCounted(k)'
    BY DEF McpInv, McpTypes, FailuresCounted, breakerVars
  <1>2. ASSUME NEW t \in Tenants, NEW s \in Servers PROVE LateBounded(t, s)'
    <2>1. InFlight(t, s)' = InFlight(t, s)
      BY DEF InFlight, RunsOf
    <2>2. LateBounded(t, s)
      BY DEF McpInv
    <2> QED
      BY <2>1, <2>2 DEF LateBounded, breakerVars
  <1> QED
    BY <1>1, <1>2 DEF McpInv

(* A call that starts finds its server not tripped.                        *)
LEMMA StartCallStep ==
  ASSUME McpInv, NEW r \in McpRuns, NEW s \in Servers, StartCall(r, s)
  PROVE  McpInv'
  <1>1. /\ mcpAt' = [mcpAt EXCEPT ![r] = s] /\ UNCHANGED breakerVars
        /\ <<TenantOf[r], s>> \notin disabled /\ mcpAt[r] = "idle"
    BY DEF StartCall, mcpCircuitKey
  <1>2. McpTypes' /\ \A k \in CircuitKeys : FailuresCounted(k)'
    BY <1>1 DEF McpInv, McpTypes, FailuresCounted, breakerVars
  <1>3. ASSUME NEW t \in Tenants, NEW u \in Servers PROVE LateBounded(t, u)'
    <2>1. CASE t = TenantOf[r] /\ u = s
      <3>1. <<t, u>> \in CircuitKeys /\ <<t, u>> \notin disabled
        BY <1>1, <2>1 DEF CircuitKeys
      <3>2. late[<<t, u>>] = 0
        BY <3>1 DEF McpInv, FailuresCounted
      <3>3. InFlight(t, u)' \subseteq RunsOf(t)
        BY DEF InFlight
      <3>4. /\ Cardinality(InFlight(t, u)') \in Nat /\ Cardinality(RunsOf(t)) \in Nat
            /\ Cardinality(InFlight(t, u)') <= Cardinality(RunsOf(t))
        BY <3>3, FewRuns DEF RunsOf
      <3>5. late'[<<t, u>>] = 0 /\ <<t, u>> \notin disabled' /\ RunsOf(t)' = RunsOf(t)
        BY <1>1, <3>1, <3>2 DEF breakerVars, RunsOf
      <3> QED
        BY <3>4, <3>5 DEF LateBounded
    <2>2. CASE ~(t = TenantOf[r] /\ u = s)
      <3>1. InFlight(t, u)' = InFlight(t, u)
        <4>1. ASSUME NEW q \in RunsOf(t) PROVE mcpAt'[q] = u <=> mcpAt[q] = u
          <5>1. q = r => t = TenantOf[r] /\ u # s
            BY <2>2 DEF RunsOf
          <5> QED
            BY <1>1, <5>1, McpAssumption DEF RunsOf, McpInv, McpTypes
        <4> QED
          BY <4>1 DEF InFlight, RunsOf
      <3>2. LateBounded(t, u)
        BY DEF McpInv
      <3> QED
        BY <1>1, <3>1, <3>2 DEF LateBounded, breakerVars, RunsOf
    <2> QED
      BY <2>1, <2>2
  <1> QED
    BY <1>2, <1>3 DEF McpInv

(* A call that fails late was on its way when the server was tripped.      *)
LEMMA EndCallStep ==
  ASSUME McpInv, NEW r \in McpRuns, NEW ok \in BOOLEAN, EndCall(r, ok)
  PROVE  McpInv'
  <1> DEFINE s == mcpAt[r]
             k == <<TenantOf[r], s>>
  <1>1. /\ s \in Servers /\ k \in CircuitKeys /\ TenantOf[r] \in Tenants
        /\ mcpAt' = [mcpAt EXCEPT ![r] = "idle"]
    BY DEF EndCall, CircuitKeys, Tenants
  <1>2. /\ failures' = [failures EXCEPT ![k] = IF ok THEN 0 ELSE @ + 1]
        /\ disabled' = IF ~ok /\ failures[k] + 1 >= MaxFailures THEN disabled \cup {k} ELSE disabled
        /\ streak' = [streak EXCEPT ![k] = IF ok THEN 0 ELSE @ + 1]
        /\ longest' = [longest EXCEPT ![k] = IF ~ok /\ streak[k] + 1 > @ THEN streak[k] + 1 ELSE @]
        /\ late' = [late EXCEPT ![k] = IF ~ok /\ k \in disabled THEN @ + 1 ELSE @]
    BY DEF EndCall, mcpCircuitKey, CountAnswer
  <1>3. McpTypes
    BY DEF McpInv
  <1> HIDE DEF k
  <1>4. McpTypes'
    BY <1>1, <1>2, <1>3 DEF McpTypes
  <1>5. /\ \A j \in CircuitKeys : j # k =>
             /\ failures'[j] = failures[j] /\ streak'[j] = streak[j] /\ longest'[j] = longest[j]
             /\ late'[j] = late[j] /\ (j \in disabled' <=> j \in disabled)
        /\ failures'[k] = (IF ok THEN 0 ELSE failures[k] + 1)
        /\ streak'[k] = (IF ok THEN 0 ELSE streak[k] + 1)
        /\ longest'[k] = (IF ~ok /\ streak[k] + 1 > longest[k] THEN streak[k] + 1 ELSE longest[k])
        /\ late'[k] = (IF ~ok /\ k \in disabled THEN late[k] + 1 ELSE late[k])
        /\ k \in disabled' <=> k \in disabled \/ (~ok /\ failures[k] + 1 >= MaxFailures)
        /\ failures[k] \in Nat /\ streak[k] \in Nat /\ longest[k] \in Nat /\ late[k] \in Nat
    BY <1>1, <1>2, <1>3 DEF McpTypes
  <1>6. ASSUME NEW j \in CircuitKeys PROVE FailuresCounted(j)'
    <2>1. FailuresCounted(j)
      BY DEF McpInv
    <2>2. CASE j = k
      BY <1>5, <2>1, <2>2, McpAssumption DEF FailuresCounted
    <2>3. CASE j # k
      BY <1>5, <2>1, <2>3 DEF FailuresCounted
    <2> QED
      BY <2>2, <2>3
  <1>7. ASSUME NEW t \in Tenants, NEW u \in Servers PROVE LateBounded(t, u)'
    <2>1. /\ LateBounded(t, u) /\ FailuresCounted(k)
          /\ RunsOf(t)' = RunsOf(t)
      BY <1>1 DEF McpInv, RunsOf
    <2>2. CASE <<t, u>> = k
      <3>1. t = TenantOf[r] /\ u = s
        BY <2>2 DEF k
      <3>2. InFlight(t, u)' = InFlight(t, u) \ {r} /\ r \in InFlight(t, u)
        BY <1>1, <1>3, <3>1, McpAssumption DEF InFlight, RunsOf, McpTypes
      <3>3. /\ IsFiniteSet(InFlight(t, u)) /\ Cardinality(InFlight(t, u)) \in Nat
            /\ Cardinality(RunsOf(t)) \in Nat
            /\ Cardinality(InFlight(t, u)) <= Cardinality(RunsOf(t))
        <4>1. InFlight(t, u) \subseteq RunsOf(t)
          BY DEF InFlight
        <4> QED
          BY <4>1, FewRuns
      <3>4. Cardinality(InFlight(t, u))' = Cardinality(InFlight(t, u)) - 1
        BY <3>2, <3>3, FS_RemoveElement
      <3> QED
        BY <1>5, <2>1, <2>2, <3>3, <3>4 DEF LateBounded, FailuresCounted
    <2>3. CASE <<t, u>> # k
      <3>1. InFlight(t, u)' = InFlight(t, u)
        <4>1. ASSUME NEW q \in RunsOf(t) PROVE mcpAt'[q] = u <=> mcpAt[q] = u
          <5>1. q = r => t = TenantOf[r] /\ u # s
            BY <2>3 DEF RunsOf, k
          <5> QED
            BY <1>1, <1>3, <5>1, McpAssumption DEF RunsOf, McpTypes
        <4> QED
          BY <2>1, <4>1 DEF InFlight
      <3>2. <<t, u>> \in CircuitKeys
        BY DEF CircuitKeys
      <3> QED
        BY <1>5, <2>1, <2>3, <3>1, <3>2 DEF LateBounded
    <2> QED
      BY <2>2, <2>3
  <1> QED
    BY <1>4, <1>6, <1>7 DEF McpInv

(* Nothing is tripped or on its way at first.                              *)
LEMMA McpStarts == McpInit => McpInv
  <1> SUFFICES ASSUME McpInit PROVE McpInv
    OBVIOUS
  <1>1. McpTypes /\ \A k \in CircuitKeys : FailuresCounted(k)
    BY McpAssumption DEF McpInit, McpTypes, FailuresCounted
  <1>2. ASSUME NEW t \in Tenants, NEW s \in Servers PROVE LateBounded(t, s)
    <2>1. InFlight(t, s) = {}
      BY McpAssumption DEF InFlight, RunsOf, McpInit
    <2>2. late[<<t, s>>] = 0 /\ disabled = {}
      BY DEF McpInit, CircuitKeys
    <2>3. Cardinality(RunsOf(t)) \in Nat
      BY FewRuns
    <2> QED
      BY <2>1, <2>2, <2>3, FS_EmptySet DEF LateBounded
  <1> QED
    BY <1>1, <1>2 DEF McpInv

(* Every step of a run of any tenant preserves it.                         *)
LEMMA McpSteps == McpInv /\ [McpNext]_mcpVars => McpInv'
  <1> SUFFICES ASSUME McpInv, [McpNext]_mcpVars PROVE McpInv'
    OBVIOUS
  <1>0. mcpAt \in [McpRuns -> {"idle", "listing"} \cup Servers]
    BY DEF McpInv, McpTypes
  <1>1. ASSUME NEW r \in McpRuns, ListCached(r) PROVE McpInv'
    BY <1>0, <1>1, NoCallStep DEF ListCached
  <1>2. ASSUME NEW r \in McpRuns, ListMiss(r) PROVE McpInv'
    BY <1>0, <1>2, NoCallStep, McpAssumption DEF ListMiss
  <1>3. ASSUME NEW r \in McpRuns, NEW servers \in SUBSET Servers, Listed(r, servers) PROVE McpInv'
    BY <1>0, <1>3, NoCallStep, McpAssumption DEF Listed
  <1>4. ASSUME McpTick \/ UNCHANGED mcpVars PROVE McpInv'
    BY <1>0, <1>4, NoCallStep DEF McpTick, mcpVars, breakerVars
  <1> QED
    BY <1>1, <1>2, <1>3, <1>4, StartCallStep, EndCallStep DEF McpNext

(* A server is taken from a tenant exactly when MaxFailures of its calls   *)
(* failed in a row, and later only calls that had passed the check before  *)
(* fail on it (mcpbridge.go, CircuitBreakerMCPClient.CallTool).            *)
THEOREM TrippedOnlyForCause == McpSpec => []TrippedForCause
  <1>1. McpInv => TrippedForCause
    <2> SUFFICES ASSUME McpInv, NEW t \in Tenants, NEW s \in Servers
                 PROVE  /\ <<t, s>> \in disabled <=> longest[<<t, s>>] >= MaxFailures
                        /\ LateBounded(t, s)
      BY DEF TrippedForCause, LateBounded, InFlight
    <2>1. <<t, s>> \in CircuitKeys
      BY DEF CircuitKeys
    <2> QED
      BY <2>1 DEF McpInv, FailuresCounted
  <1> QED
    BY <1>1, McpStarts, McpSteps, PTL DEF McpSpec

-----------------------------------------------------------------------------
(* Sums over sub-agents.  Facts about them are proved from a smallest set  *)
(* at which they would fail.                                               *)

(* The sum of f over a set, as the fold computes it: one element after     *)
(* another, in the order in which CHOOSE picks them.                       *)
First(s) == CHOOSE x \in s : TRUE
Sums(g, f, D) ==
  g = [s \in D |-> IF s = {} THEN 0 ELSE f[First(s)] + g[s \ {First(s)}]]
SumOver(f, s) == (CHOOSE g : Sums(g, f, SUBSET Subs))[s]
SubsUpTo(n) == {s \in SUBSET Subs : Cardinality(s) <= n}

(* Every set of numbers that is not empty has a least one.                 *)
LEMMA LeastNumber ==
  ASSUME NEW T, T \subseteq Nat, T # {}
  PROVE  \E m \in T : \A k \in T : m <= k
  <1> DEFINE R == OpToRel(<, Nat)
  <1>1. IsWellFoundedOn(R, Nat)
    BY NatLessThanWellFounded
  <1>2. \A y, x \in Nat : y < x => <<y, x>> \in R
    BY DEF OpToRel
  <1> HIDE DEF R
  <1>3. PICK m \in T : \A y \in T : ~(<<y, m>> \in R)
    BY <1>1, WFMin
  <1>4. \A y \in T : y \in Nat /\ m \in Nat /\ ~(y < m)
    BY <1>2, <1>3, Zenon
  <1> QED
    BY <1>3, <1>4

(* A set of subsets that is not empty has a smallest element.              *)
LEMMA SmallestSet ==
  ASSUME NEW T \in SUBSET SUBSET Subs, T # {}
  PROVE  \E s \in T : \A u \in T : Cardinality(s) <= Cardinality(u)
  <1> DEFINE N == {Cardinality(s) : s \in T}
  <1>1. N \subseteq Nat /\ N # {}
    BY FS_Subset, FS_CardinalityType, SubtasksAssumptions
  <1> HIDE DEF N
  <1>2. PICK n \in N : \A k \in N : n <= k
    BY <1>1, LeastNumber
  <1> QED
    BY <1>2 DEF N

(* What is left of a set without one of its elements.                      *)
LEMMA OneLess ==
  ASSUME NEW s \in SUBSET Subs, NEW x \in s
  PROVE  /\ s \ {x} \in SUBSET Subs
         /\ Cardinality(s) \in Nat /\ Cardinality(s \ {x}) \in Nat
         /\ Cardinality(s) = Cardinality(s \ {x}) + 1
  <1>1. IsFiniteSet(s)
    BY FS_Subset, SubtasksAssumptions
  <1>2. Cardinality(s) \in Nat /\ Cardinality(s \ {x}) = Cardinality(s) - 1
    BY <1>1, FS_CardinalityType, FS_RemoveElement
  <1>3. Cardinality(s \ {x}) \in Nat
    BY <1>1, FS_CardinalityType, FS_RemoveElement
  <1> QED
    BY <1>2, <1>3

(* The element that is taken first is one of the set.                      *)
LEMMA FirstIn ==
  ASSUME NEW s, s # {}
  PROVE  First(s) \in s
  BY DEF First

(* The recursion has a solution on the sets of up to n sub-agents: a least n *)
(* without one would have a predecessor to extend.                         *)
LEMMA SumsExist ==
  ASSUME NEW f, NEW n \in Nat
  PROVE  \E g : Sums(g, f, SubsUpTo(n))
  <1> DEFINE T == {m \in Nat : ~\E g : Sums(g, f, SubsUpTo(m))}
  <1> SUFFICES ASSUME T # {} PROVE FALSE
    OBVIOUS
  <1>1. PICK m \in T : \A k \in T : m <= k
    <2>1. T \subseteq Nat
      OBVIOUS
    <2> HIDE DEF T
    <2> QED
      BY <2>1, LeastNumber
  <1>2. m \in Nat /\ ~\E g : Sums(g, f, SubsUpTo(m))
    BY <1>1
  <1>3. CASE m = 0
    <2>1. SubsUpTo(0) = {{}}
      <3>1. ASSUME NEW s \in SubsUpTo(0), s # {} PROVE FALSE
        <4>1. s \in SUBSET Subs /\ Cardinality(s) <= 0
          BY DEF SubsUpTo
        <4>2. Cardinality(s) = Cardinality(s \ {First(s)}) + 1 /\ Cardinality(s \ {First(s)}) \in Nat
          BY <3>1, <4>1, FirstIn, OneLess
        <4> QED
          BY <4>1, <4>2
      <3>2. {} \in SubsUpTo(0)
        BY FS_EmptySet DEF SubsUpTo
      <3> QED
        BY <3>1, <3>2
    <2>2. Sums([s \in {{}} |-> 0], f, {{}})
      BY DEF Sums
    <2> QED
      BY <1>2, <1>3, <2>1, <2>2
  <1>4. CASE m # 0
    <2>1. m - 1 \in Nat /\ ~(m <= m - 1)
      BY <1>2, <1>4
    <2>2. PICK g : Sums(g, f, SubsUpTo(m - 1))
      BY <1>1, <2>1
    <2> DEFINE body(h, s) == IF s = {} THEN 0 ELSE f[First(s)] + h[s \ {First(s)}]
               more == [s \in SubsUpTo(m) |-> body(g, s)]
    <2>3. ASSUME NEW s \in SubsUpTo(m - 1)
          PROVE  s \in SubsUpTo(m) /\ more[s] = g[s]
      <3>1. s \in SUBSET Subs /\ Cardinality(s) \in Nat /\ Cardinality(s) <= m - 1
        BY FS_Subset, FS_CardinalityType, SubtasksAssumptions DEF SubsUpTo
      <3>2. s \in SubsUpTo(m)
        BY <1>2, <3>1 DEF SubsUpTo
      <3>3. g[s] = body(g, s)
        BY <2>2 DEF Sums
      <3> QED
        BY <3>2, <3>3
    <2>4. ASSUME NEW s \in SubsUpTo(m)
          PROVE  body(g, s) = body(more, s)
      <3>1. CASE s = {}
        BY <3>1
      <3>2. CASE s # {}
        <4>1. s \in SUBSET Subs /\ Cardinality(s) <= m
          BY DEF SubsUpTo
        <4>2. First(s) \in s
          BY <3>2, FirstIn
        <4>3. s \ {First(s)} \in SubsUpTo(m - 1)
          BY <1>2, <4>1, <4>2, OneLess DEF SubsUpTo
        <4> HIDE DEF more
        <4> QED
          BY <2>3, <4>3
      <3> QED
        BY <3>1, <3>2
    <2>5. Sums(more, f, SubsUpTo(m))
      <3>1. [s \in SubsUpTo(m) |-> body(g, s)] = [s \in SubsUpTo(m) |-> body(more, s)]
        <4> HIDE DEF more
        <4> QED
          BY <2>4
      <3>2. more = [s \in SubsUpTo(m) |-> body(more, s)]
        <4>1. more = [s \in SubsUpTo(m) |-> body(g, s)]
          OBVIOUS
        <4> HIDE DEF more, body
        <4> QED
          BY <3>1, <4>1
      <3> HIDE DEF more
      <3> QED
        BY <3>2 DEF Sums
    <2> QED
      BY <1>2, <2>5
  <1> QED
    BY <1>3, <1>4

(* The recursion that SumOver satisfies.                                   *)
LEMMA SumOverRec ==
  ASSUME NEW f, NEW s \in SUBSET Subs
  PROVE  SumOver(f, s) = IF s = {} THEN 0 ELSE f[First(s)] + SumOver(f, s \ {First(s)})
  <1>1. SubsUpTo(Cardinality(Subs)) = SUBSET Subs /\ Cardinality(Subs) \in Nat
    BY FS_Subset, FS_CardinalityType, SubtasksAssumptions DEF SubsUpTo
  <1>2. \E g : Sums(g, f, SUBSET Subs)
    BY <1>1, SumsExist
  <1>3. PICK g : g = CHOOSE h : Sums(h, f, SUBSET Subs)
    OBVIOUS
  <1>4. Sums(g, f, SUBSET Subs)
    BY <1>2, <1>3, Zenon
  <1>5. \A u : SumOver(f, u) = g[u]
    BY <1>3 DEF SumOver
  <1>6. g[s] = IF s = {} THEN 0 ELSE f[First(s)] + g[s \ {First(s)}]
    BY <1>4 DEF Sums
  <1> QED
    BY <1>5, <1>6

(* The fold of the model is this sum.                                      *)
LEMMA SumIsFold ==
  ASSUME NEW f
  PROVE  SumOf(f) = SumOver(f, Subs)
  BY Zenon DEF SumOf, MapThenSumSet, MapThenFoldSet, SumOver, Sums, First

(* Nothing sums up to nothing.                                             *)
LEMMA SumEmpty == \A f : SumOver(f, {}) = 0
  BY SumOverRec

(* A sum of numbers is a number.                                           *)
LEMMA SumIsNat ==
  ASSUME NEW f \in [Subs -> Nat], NEW s \in SUBSET Subs
  PROVE  SumOver(f, s) \in Nat
  <1> DEFINE T == {u \in SUBSET Subs : SumOver(f, u) \notin Nat}
  <1> SUFFICES ASSUME T # {} PROVE FALSE
    OBVIOUS
  <1>1. PICK u \in T : \A v \in T : Cardinality(u) <= Cardinality(v)
    <2>1. T \in SUBSET SUBSET Subs
      OBVIOUS
    <2> HIDE DEF T
    <2> QED
      BY <2>1, SmallestSet
  <1>2. u \in SUBSET Subs /\ SumOver(f, u) \notin Nat
    BY <1>1
  <1>3. u # {}
    BY <1>2, SumEmpty
  <1>4. First(u) \in u /\ SumOver(f, u) = f[First(u)] + SumOver(f, u \ {First(u)})
    BY <1>2, <1>3, FirstIn, SumOverRec
  <1>5. SumOver(f, u \ {First(u)}) \in Nat
    BY <1>1, <1>2, <1>4, OneLess
  <1> QED
    BY <1>2, <1>4, <1>5

(* Any element can be taken first.                                         *)
LEMMA SumRemove ==
  ASSUME NEW f \in [Subs -> Nat], NEW s \in SUBSET Subs, NEW x \in s
  PROVE  SumOver(f, s) = f[x] + SumOver(f, s \ {x})
  <1> DEFINE T == {u \in SUBSET Subs :
                     \E y \in u : SumOver(f, u) # f[y] + SumOver(f, u \ {y})}
  <1> SUFFICES ASSUME T # {} PROVE FALSE
    OBVIOUS
  <1>1. PICK u \in T : \A v \in T : Cardinality(u) <= Cardinality(v)
    <2>1. T \in SUBSET SUBSET Subs
      OBVIOUS
    <2> HIDE DEF T
    <2> QED
      BY <2>1, SmallestSet
  <1>2. PICK y \in u : u \in SUBSET Subs /\ SumOver(f, u) # f[y] + SumOver(f, u \ {y})
    BY <1>1
  <1>3. PICK c \in u : c = First(u)
    BY <1>2, FirstIn
  <1>4. SumOver(f, u) = f[c] + SumOver(f, u \ {c})
    BY <1>2, <1>3, SumOverRec
  <1>5. c # y
    BY <1>2, <1>4
  <1>6. ASSUME NEW a \in u, NEW b \in u, a # b
        PROVE  SumOver(f, u \ {a}) = f[b] + SumOver(f, (u \ {a}) \ {b})
    <2>1. u \ {a} \in SUBSET Subs /\ ~(Cardinality(u) <= Cardinality(u \ {a}))
      BY <1>2, OneLess
    <2>2. u \ {a} \notin T
      <3> HIDE DEF T
      <3> QED
        BY <1>1, <2>1
    <2>3. b \in u \ {a}
      BY <1>6
    <2> QED
      BY <2>1, <2>2, <2>3
  <1>7. (u \ {c}) \ {y} = (u \ {y}) \ {c}
    OBVIOUS
  <1>8. SumOver(f, (u \ {c}) \ {y}) \in Nat
    BY <1>2, SumIsNat
  <1>9. f[c] \in Nat /\ f[y] \in Nat
    BY <1>2
  <1> QED
    BY <1>2, <1>4, <1>5, <1>6, <1>7, <1>8, <1>9

(* The sum over a set depends on the elements of that set only.            *)
LEMMA SumAgree ==
  ASSUME NEW f \in [Subs -> Nat], NEW h \in [Subs -> Nat], NEW s \in SUBSET Subs,
         \A x \in s : f[x] = h[x]
  PROVE  SumOver(f, s) = SumOver(h, s)
  <1> DEFINE T == {u \in SUBSET s : SumOver(f, u) # SumOver(h, u)}
  <1> SUFFICES ASSUME T # {} PROVE FALSE
    OBVIOUS
  <1>1. PICK u \in T : \A v \in T : Cardinality(u) <= Cardinality(v)
    <2>1. T \in SUBSET SUBSET Subs
      OBVIOUS
    <2> HIDE DEF T
    <2> QED
      BY <2>1, SmallestSet
  <1>2. u \in SUBSET Subs /\ u \subseteq s /\ SumOver(f, u) # SumOver(h, u)
    BY <1>1
  <1>3. u # {}
    BY <1>2, SumEmpty
  <1>4. PICK c \in u : c = First(u)
    BY <1>3, FirstIn
  <1>5. /\ SumOver(f, u) = f[c] + SumOver(f, u \ {c})
        /\ SumOver(h, u) = h[c] + SumOver(h, u \ {c})
    BY <1>2, <1>3, <1>4, SumOverRec
  <1>6. SumOver(f, u \ {c}) = SumOver(h, u \ {c})
    BY <1>1, <1>2, <1>4, OneLess
  <1> QED
    BY <1>2, <1>4, <1>5, <1>6

(* Sums are compared element by element: if f exceeds h on A only, and by  *)
(* at most K, its sum exceeds that of h by at most K for each element of A.*)
LEMMA SumExceeds ==
  ASSUME NEW f \in [Subs -> Nat], NEW h \in [Subs -> Nat],
         NEW A \in SUBSET Subs, NEW K \in Nat,
         \A x \in Subs : f[x] <= h[x] \/ (x \in A /\ f[x] <= h[x] + K)
  PROVE  SumOver(f, Subs) <= SumOver(h, Subs) + Cardinality(A) * K
  <1> DEFINE More(u) == Cardinality(u \cap A) * K
             T == {u \in SUBSET Subs : ~(SumOver(f, u) <= SumOver(h, u) + More(u))}
  <1>1. T = {}
    <2> SUFFICES ASSUME T # {} PROVE FALSE
      OBVIOUS
    <2>1. PICK u \in T : \A v \in T : Cardinality(u) <= Cardinality(v)
      <3>1. T \in SUBSET SUBSET Subs
        OBVIOUS
      <3> HIDE DEF T
      <3> QED
        BY <3>1, SmallestSet
    <2>2. u \in SUBSET Subs /\ ~(SumOver(f, u) <= SumOver(h, u) + More(u))
      BY <2>1
    <2>3. CASE u = {}
      <3>1. SumOver(f, u) = 0 /\ SumOver(h, u) = 0
        BY <2>2, <2>3, SumOverRec
      <3>2. Cardinality(u \cap A) = 0
        BY <2>3, FS_EmptySet
      <3> QED
        BY <2>2, <3>1, <3>2
    <2>4. CASE u # {}
      <3>1. PICK x \in u : TRUE
        BY <2>4
      <3>2. PICK v \in SUBSET Subs : v = u \ {x}
        BY <2>2
      <3>3. SumOver(f, u) = f[x] + SumOver(f, v) /\ SumOver(h, u) = h[x] + SumOver(h, v)
        BY <2>2, <3>1, <3>2, SumRemove
      <3>4. SumOver(f, v) <= SumOver(h, v) + More(v)
        BY <2>1, <2>2, <3>1, <3>2, OneLess
      <3>5. SumOver(f, v) \in Nat /\ SumOver(h, v) \in Nat /\ f[x] \in Nat /\ h[x] \in Nat
        BY <2>2, <3>1, <3>2, SumIsNat
      <3>6. Cardinality(v \cap A) \in Nat
        BY <3>2, FS_Subset, FS_CardinalityType, SubtasksAssumptions
      <3>7. CASE x \in A
        <4>1. (u \cap A) \ {x} = v \cap A /\ x \in u \cap A /\ u \cap A \in SUBSET Subs
          BY <2>2, <3>1, <3>2, <3>7
        <4>2. Cardinality(u \cap A) = Cardinality(v \cap A) + 1
          BY <4>1, OneLess
        <4>3. PICK n \in Nat : n = Cardinality(v \cap A)
          BY <3>6
        <4>4. More(u) = n * K + K /\ More(v) = n * K
          BY <4>2, <4>3
        <4>5. PICK m \in Nat : m = n * K
          BY <4>3
        <4>6. f[x] <= h[x] + K
          <5>1. x \in Subs /\ K \in Nat
            BY <2>2, <3>1
          <5> QED
            BY <3>5, <5>1
        <4>7. SumOver(f, v) <= SumOver(h, v) + m
          BY <3>4, <4>4, <4>5
        <4>8. ~(f[x] + SumOver(f, v) <= h[x] + SumOver(h, v) + (m + K))
          BY <2>2, <3>3, <4>4, <4>5
        <4> QED
          BY <3>5, <4>5, <4>6, <4>7, <4>8
      <3>8. CASE x \notin A
        <4>1. u \cap A = v \cap A
          BY <3>2, <3>8
        <4>2. PICK m \in Nat : m = More(u)
          <5>1. PICK n \in Nat : n = Cardinality(v \cap A)
            BY <3>6
          <5>2. n * K \in Nat
            OBVIOUS
          <5>3. More(u) = n * K
            BY <4>1, <5>1
          <5> QED
            BY <5>2, <5>3
        <4>3. f[x] <= h[x]
          BY <2>2, <3>1, <3>8
        <4>4. SumOver(f, v) <= SumOver(h, v) + m
          BY <3>4, <4>1, <4>2
        <4>5. ~(f[x] + SumOver(f, v) <= h[x] + SumOver(h, v) + m)
          BY <2>2, <3>3, <4>2
        <4> QED
          BY <3>5, <4>2, <4>3, <4>4, <4>5
      <3> QED
        BY <3>7, <3>8
    <2> QED
      BY <2>3, <2>4
  <1>2. Subs \cap A = A
    OBVIOUS
  <1>3. Subs \notin T
    BY <1>1
  <1> QED
    BY <1>2, <1>3

(* Hence a sum does not exceed another if no element does.                 *)
LEMMA SumAtMost ==
  ASSUME NEW f \in [Subs -> Nat], NEW h \in [Subs -> Nat],
         \A x \in Subs : f[x] <= h[x]
  PROVE  SumOver(f, Subs) <= SumOver(h, Subs)
  <1>1. SumOver(f, Subs) <= SumOver(h, Subs) + Cardinality({}) * 0
    BY SumExceeds
  <1> QED
    BY <1>1, SumIsNat, FS_EmptySet

(* Zeros sum up to zero.                                                   *)
LEMMA SumZero ==
  ASSUME NEW f \in [Subs -> Nat], \A x \in Subs : f[x] = 0
  PROVE  SumOver(f, Subs) = 0
  <1> DEFINE T == {u \in SUBSET Subs : SumOver(f, u) # 0}
  <1> SUFFICES ASSUME T # {} PROVE FALSE
    OBVIOUS
  <1>1. PICK u \in T : \A v \in T : Cardinality(u) <= Cardinality(v)
    <2>1. T \in SUBSET SUBSET Subs
      OBVIOUS
    <2> HIDE DEF T
    <2> QED
      BY <2>1, SmallestSet
  <1>2. u \in SUBSET Subs /\ SumOver(f, u) # 0
    BY <1>1
  <1>3. u # {}
    BY <1>2, SumEmpty
  <1>4. First(u) \in u /\ SumOver(f, u) = f[First(u)] + SumOver(f, u \ {First(u)})
    BY <1>2, <1>3, FirstIn, SumOverRec
  <1>5. SumOver(f, u \ {First(u)}) = 0
    BY <1>1, <1>2, <1>4, OneLess
  <1> QED
    BY <1>2, <1>4, <1>5

(* To change one element changes the sum by as much.                       *)
LEMMA SumUpdate ==
  ASSUME NEW f \in [Subs -> Nat], NEW h \in [Subs -> Nat], NEW x \in Subs,
         \A y \in Subs : y # x => h[y] = f[y]
  PROVE  SumOver(h, Subs) + f[x] = SumOver(f, Subs) + h[x]
  <1> DEFINE rest == [y \in Subs |-> IF y = x THEN 0 ELSE f[y]]
  <1>1. rest \in [Subs -> Nat]
    OBVIOUS
  <1>2. ASSUME NEW g \in [Subs -> Nat], \A y \in Subs : y # x => g[y] = f[y]
        PROVE  SumOver(g, Subs) = g[x] + SumOver(rest, Subs \ {x})
    <2>1. SumOver(g, Subs) = g[x] + SumOver(g, Subs \ {x})
      BY SumRemove
    <2>2. SumOver(g, Subs \ {x}) = SumOver(rest, Subs \ {x})
      BY <1>1, <1>2, SumAgree
    <2> QED
      BY <2>1, <2>2
  <1>3. SumOver(f, Subs) = f[x] + SumOver(rest, Subs \ {x})
    BY <1>2
  <1>4. SumOver(h, Subs) = h[x] + SumOver(rest, Subs \ {x})
    BY <1>2
  <1>5. SumOver(rest, Subs \ {x}) \in Nat
    BY <1>1, SumIsNat
  <1> HIDE DEF rest
  <1> QED
    BY <1>3, <1>4, <1>5

-----------------------------------------------------------------------------
(* The inductive invariant of the sub-agents.                              *)

(* What the tracker holds of the sub-agents that have ended; and with it   *)
(* what the others may still cost: a child that was granted anything its   *)
(* share of that and the slack.                                            *)
Overrun == NestedShare * (Unit - 1) + NestedSlack
Settled == [i \in Subs |-> IF sub[i] = "done" THEN Truncated(total[i]) ELSE 0]
Committed == [i \in Subs |->
                IF sub[i] = "done" THEN Truncated(total[i])
                ELSE IF sub[i] # "waiting" /\ grant[i] > 0 THEN Share * grant[i] + Slack
                ELSE 0]
SlotShare == Share * Remaining + Slack

CostInv ==
  /\ costAccum = Truncated(InitialCost) + SumOver(Settled, Subs)
  /\ SumOver(Committed, Subs) <= SubagentSlots * SlotShare
  /\ Cardinality(Active) <= SubagentSlots

(* A child is granted at most what the parent had left before the turn,    *)
(* and runs within its grant but for what its sub-agents overran it by.    *)
ChildInv ==
  \A i \in Subs :
    /\ grant[i] <= Remaining
    /\ grant[i] = 0 \/ sub[i] \in {"waiting", "created", "unfunded"} => total[i] = 0
    /\ sub[i] \in {"top", "called"} =>
         grant[i] > 0 /\ total[i] <= Share * grant[i] + Overrun
    /\ sub[i] = "called" => childTurn[i] < MaxChildTurns

(* What has ended is reported; only an escalation drops a cost; and the    *)
(* parent goes on when all have ended, charged what is reported.           *)
ReportInv ==
  /\ \A i \in Subs : /\ sub[i] = "done" => reported[i] = total[i]
                     /\ sub[i] # "done" => i \notin escalated /\ reported[i] = 0
                     /\ i \notin escalated => used[i] = total[i]
  /\ rollup # "open" => TurnOver
  /\ rollup = "open" => parentCost = InitialCost
  /\ rollup = "charged" => parentCost = InitialCost + SumOver(total, Subs)

(* A task exists while its sub-agent is active, unsettled; its row agrees, *)
(* as it does afterwards, unless a write failed or the run was cancelled.  *)
TaskInv ==
  \A i \in Subs :
    /\ sub[i] = "waiting" => task[i] = "none" /\ notified[i] = 0
    /\ i \in Active =>
         /\ task[i] # "none" /\ notified[i] = 0
         /\ taskRow[i] = task[i] \/ runCtx = "ended" \/ writeFaults > 0

(* What a sub-agent has read is in the mailbox, marked as read.            *)
MailInv ==
  /\ mailbox \in Seq([to : Subs \cup {"*"}, read : BOOLEAN])
  /\ got \in [Subs -> SUBSET (1 .. Len(mailbox))]
  /\ \A i \in Subs : \A k \in got[i] : mailbox[k].read

SubInv ==
  /\ SubtasksTypeOK /\ CostInv /\ ChildInv /\ ReportInv
  /\ TaskInv /\ TasksSettle /\ MailInv /\ ReadAtMostOnce

-----------------------------------------------------------------------------
(* The steps.                                                              *)

(* Any set of sub-agents is finite.                                        *)
LEMMA SomeSubs ==
  ASSUME NEW S \in SUBSET Subs
  PROVE  IsFiniteSet(S) /\ Cardinality(S) \in Nat
  BY FS_Subset, FS_CardinalityType, SubtasksAssumptions

(* What the tracker drops of a cost is less than one unit.                 *)
LEMMA TruncatedCost ==
  ASSUME NEW c \in Nat
  PROVE  /\ Truncated(c) \in Nat /\ Truncated(c) <= c
         /\ c <= Truncated(c) + (Unit - 1)
  <1>1. Unit \in Nat /\ Unit > 0
    BY SubtasksAssumptions
  <1>2. c % Unit \in 0 .. Unit - 1
    BY <1>1, SMT
  <1>3. PICK r \in 0 .. Unit - 1 : r = c % Unit
    BY <1>2
  <1>4. c % Unit <= c
    BY <1>1, SMT
  <1> QED
    BY <1>1, <1>3, <1>4 DEF Truncated

(* A product of numbers is a number.                                       *)
LEMMA Product == \A a, b \in Nat : a * b \in Nat
  OBVIOUS

(* It grows with either of them.                                           *)
LEMMA ProductAtMost ==
  ASSUME NEW a \in Nat, NEW b \in Nat, NEW c \in Nat, a <= b
  PROVE  a * c <= b * c /\ c * a <= c * b
  <1>1. PICK k \in Nat : b = a + k
    <2>1. b - a \in Nat /\ b = a + (b - a)
      OBVIOUS
    <2> QED
      BY <2>1
  <1>2. b * c = a * c + k * c /\ c * b = c * a + c * k
    BY <1>1
  <1>3. a * c \in Nat /\ k * c \in Nat /\ c * a \in Nat /\ c * k \in Nat
    BY Product
  <1> QED
    BY <1>2, <1>3

(* The constants of the bound.                                             *)
LEMMA CostConstants ==
  /\ Share \in Nat /\ 1 <= Share /\ NestedShare <= Share
  /\ Overrun \in Nat /\ Slack = Overrun + MaxTurnCost /\ Slack \in Nat
  /\ Truncated(InitialCost) \in Nat /\ Truncated(InitialCost) <= InitialCost
  /\ InitialCost <= Truncated(InitialCost) + (Unit - 1)
  /\ Remaining = Budget - Truncated(InitialCost)
  /\ Remaining \in Nat /\ Remaining <= Budget
  /\ SlotShare \in Nat /\ SubagentSlots * SlotShare \in Nat
  <1> USE SubtasksAssumptions
  <1>1. Share \in Nat /\ 1 <= Share /\ NestedShare <= Share
    BY DEF Share
  <1>2. Overrun \in Nat /\ Slack = Overrun + MaxTurnCost /\ Slack \in Nat
    <2>1. PICK u \in Nat : u = Unit - 1
      OBVIOUS
    <2>2. PICK n \in Nat : n = NestedShare * (Unit - 1)
      BY <2>1, Product
    <2> QED
      BY <2>2 DEF Overrun, Slack
  <1>3. InitialCost \in Nat /\ InitialCost <= Budget /\ Budget \in Nat
    OBVIOUS
  <1>4. /\ Truncated(InitialCost) \in Nat /\ Truncated(InitialCost) <= InitialCost
        /\ InitialCost <= Truncated(InitialCost) + (Unit - 1)
    BY <1>3, TruncatedCost
  <1>5. /\ Remaining = Budget - Truncated(InitialCost)
        /\ Remaining \in Nat /\ Remaining <= Budget
    BY <1>3, <1>4 DEF Remaining
  <1>6. SlotShare \in Nat
    BY <1>1, <1>2, <1>5, Product DEF SlotShare
  <1>7. SubagentSlots * SlotShare \in Nat
    BY <1>6, Product
  <1> QED
    BY <1>1, <1>2, <1>4, <1>5, <1>6, <1>7

(* What a child and its sub-agents come to, if they start when it has      *)
(* counted x of its grant.                                                 *)
LEMMA NestedWithin ==
  ASSUME NEW g \in Nat, NEW x \in Nat, x <= g, NEW n \in Nat,
         n <= Most(NestedShare, NestedSlack, g - Truncated(x))
  PROVE  x + n <= Share * g + Overrun
  <1> USE SubtasksAssumptions
  <1>1. PICK s \in Nat : s = Share /\ 1 <= s /\ NestedShare <= s
    BY CostConstants
  <1>2. PICK d \in Nat : g = x + d
    <2>1. g - x \in Nat /\ g = x + (g - x)
      OBVIOUS
    <2> QED
      BY <2>1
  <1>3. PICK t \in Nat : t = Truncated(x) /\ t <= x /\ x <= t + (Unit - 1)
    BY TruncatedCost
  <1>4. PICK e \in Nat : x = t + e /\ e <= Unit - 1
    <2>1. x - t \in Nat /\ x = t + (x - t) /\ x - t <= Unit - 1
      BY <1>3
    <2> QED
      BY <2>1
  <1>5. s * g = s * x + s * d
    BY <1>2
  <1>6. x <= s * x
    <2>1. 1 * x <= s * x /\ 1 * x = x
      BY <1>1, ProductAtMost
    <2> QED
      BY <2>1
  <1>7. PICK sx \in Nat, sd \in Nat : sx = s * x /\ sd = s * d
    BY Product
  <1>8. CASE g - t > 0
    <2>1. g - t = d + e
      BY <1>2, <1>3, <1>4
    <2>2. n <= NestedShare * (d + e) + NestedSlack
      BY <1>3, <1>8, <2>1 DEF Most
    <2>3. NestedShare * (d + e) = NestedShare * d + NestedShare * e
      BY <2>1
    <2>4. NestedShare * d <= s * d
      BY <1>1, ProductAtMost
    <2>5. NestedShare * e <= NestedShare * (Unit - 1)
      <3>1. Unit - 1 \in Nat
        OBVIOUS
      <3> QED
        BY <1>4, <3>1, ProductAtMost
    <2>6. PICK nd \in Nat, ne \in Nat, nu \in Nat :
            nd = NestedShare * d /\ ne = NestedShare * e /\ nu = NestedShare * (Unit - 1)
      <3>1. Unit - 1 \in Nat
        OBVIOUS
      <3> QED
        BY <3>1, Product
    <2>7. n <= sd + nu + NestedSlack
      BY <1>7, <2>2, <2>3, <2>4, <2>5, <2>6
    <2>8. Overrun = nu + NestedSlack
      BY <2>6 DEF Overrun
    <2>9. x + n <= (sx + sd) + (nu + NestedSlack)
      BY <1>6, <1>7, <2>7
    <2> QED
      BY <1>1, <1>5, <1>7, <2>8, <2>9
  <1>9. CASE ~(g - t > 0)
    <2>1. n = 0
      BY <1>3, <1>9 DEF Most
    <2>2. Overrun \in Nat
      BY CostConstants
    <2> QED
      BY <1>1, <1>5, <1>6, <1>7, <2>1, <2>2
  <1> QED
    BY <1>8, <1>9

(* The numbers of the state, as numbers.                                   *)
LEMMA SubNumbers ==
  ASSUME SubtasksTypeOK
  PROVE  /\ writeFaults \in Nat /\ costAccum \in Nat
         /\ \A i \in Subs : /\ total[i] \in Nat /\ grant[i] \in Nat /\ grant[i] <= Budget
                            /\ childTurn[i] \in Nat /\ childTurn[i] <= MaxChildTurns
                            /\ notified[i] \in {0, 1} /\ used[i] \in Nat
  <1>1. /\ writeFaults \in 0 .. MaxIncidents /\ costAccum \in Nat
        /\ grant \in [Subs -> 0 .. Budget] /\ total \in [Subs -> Nat]
        /\ childTurn \in [Subs -> 0 .. MaxChildTurns]
        /\ notified \in [Subs -> 0 .. 1] /\ used \in [Subs -> Nat]
    BY DEF SubtasksTypeOK
  <1>2. ASSUME NEW i \in Subs
        PROVE  /\ total[i] \in Nat /\ grant[i] \in Nat /\ grant[i] <= Budget
               /\ childTurn[i] \in Nat /\ childTurn[i] <= MaxChildTurns
               /\ notified[i] \in {0, 1} /\ used[i] \in Nat
    <2>1. /\ total[i] \in Nat /\ grant[i] \in 0 .. Budget /\ used[i] \in Nat
          /\ childTurn[i] \in 0 .. MaxChildTurns /\ notified[i] \in 0 .. 1
      BY <1>1
    <2> QED
      BY <2>1
  <1> QED
    BY <1>1, <1>2

(* A commitment is a number.                                               *)
LEMMA CommitmentIsNat ==
  ASSUME NEW g \in 0 .. Budget
  PROVE  g \in Nat /\ Share * g \in Nat /\ Share * g + Slack \in Nat
  <1>1. g \in Nat
    OBVIOUS
  <1>2. Share * g \in Nat
    BY <1>1, CostConstants, Product
  <1> QED
    BY <1>1, <1>2, CostConstants

(* What is settled and committed is a number for every sub-agent.          *)
LEMMA CostFunctions ==
  ASSUME SubtasksTypeOK
  PROVE  Settled \in [Subs -> Nat] /\ Committed \in [Subs -> Nat]
  <1>1. grant \in [Subs -> 0 .. Budget] /\ total \in [Subs -> Nat]
    BY DEF SubtasksTypeOK
  <1>2. \A i \in Subs : Truncated(total[i]) \in Nat /\ Share * grant[i] + Slack \in Nat
    BY <1>1, TruncatedCost, CommitmentIsNat
  <1> QED
    BY <1>2 DEF Settled, Committed

(* A step of one sub-agent changes its own part of the sums only.          *)
LEMMA CostMoves ==
  ASSUME SubtasksTypeOK, SubtasksTypeOK', NEW i \in Subs,
         \A j \in Subs : j # i => /\ sub'[j] = sub[j] /\ total'[j] = total[j]
                                  /\ grant'[j] = grant[j]
  PROVE  /\ SumOver(Settled, Subs)' + Settled[i] = SumOver(Settled, Subs) + Settled'[i]
         /\ SumOver(Committed, Subs)' + Committed[i]
              = SumOver(Committed, Subs) + Committed'[i]
         /\ SumOver(Settled, Subs) \in Nat /\ SumOver(Settled, Subs)' \in Nat
         /\ SumOver(Committed, Subs) \in Nat /\ SumOver(Committed, Subs)' \in Nat
  <1>1. PICK s : s = Settled
    OBVIOUS
  <1>2. PICK t : t = Settled'
    OBVIOUS
  <1>3. PICK c : c = Committed
    OBVIOUS
  <1>4. PICK d : d = Committed'
    OBVIOUS
  <1>5. s \in [Subs -> Nat] /\ c \in [Subs -> Nat]
    BY <1>1, <1>3, CostFunctions
  <1>6. t \in [Subs -> Nat] /\ d \in [Subs -> Nat]
    <2>1. grant' \in [Subs -> 0 .. Budget] /\ total' \in [Subs -> Nat]
      BY DEF SubtasksTypeOK
    <2>2. ASSUME NEW j \in Subs
          PROVE  Truncated(total'[j]) \in Nat /\ Share * grant'[j] + Slack \in Nat
      <3>1. total'[j] \in Nat /\ grant'[j] \in 0 .. Budget
        BY <2>1
      <3> QED
        BY <3>1, TruncatedCost, CommitmentIsNat
    <2> QED
      BY <1>2, <1>4, <2>2 DEF Settled, Committed
  <1>7. \A j \in Subs : j # i => t[j] = s[j] /\ d[j] = c[j]
    BY <1>1, <1>2, <1>3, <1>4 DEF Settled, Committed
  <1>8. /\ SumOver(t, Subs) + s[i] = SumOver(s, Subs) + t[i]
        /\ SumOver(d, Subs) + c[i] = SumOver(c, Subs) + d[i]
    BY <1>5, <1>6, <1>7, SumUpdate
  <1>9. /\ SumOver(s, Subs) \in Nat /\ SumOver(t, Subs) \in Nat
        /\ SumOver(c, Subs) \in Nat /\ SumOver(d, Subs) \in Nat
    BY <1>5, <1>6, SumIsNat
  <1> QED
    BY <1>1, <1>2, <1>3, <1>4, <1>8, <1>9

(* A step of one sub-agent keeps the reports right if its own is: the      *)
(* parent has not gone on yet.                                             *)
LEMMA ReportKept ==
  ASSUME ReportInv, NEW i \in Subs, sub[i] # "done", UNCHANGED parentVars,
         \A j \in Subs : j # i => /\ sub'[j] = sub[j] /\ total'[j] = total[j]
                                  /\ reported'[j] = reported[j] /\ used'[j] = used[j]
                                  /\ j \in escalated' <=> j \in escalated,
         sub'[i] = "done" => reported'[i] = total'[i],
         sub'[i] # "done" => i \notin escalated' /\ reported'[i] = 0,
         i \notin escalated' => used'[i] = total'[i]
  PROVE  ReportInv'
  <1>1. rollup = "open"
    BY DEF ReportInv, TurnOver
  <1>2. rollup' = "open" /\ parentCost' = InitialCost
    BY <1>1 DEF ReportInv, parentVars
  <1>3. ASSUME NEW j \in Subs
        PROVE  /\ sub'[j] = "done" => reported'[j] = total'[j]
               /\ sub'[j] # "done" => j \notin escalated' /\ reported'[j] = 0
               /\ j \notin escalated' => used'[j] = total'[j]
    <2>1. CASE j = i
      BY <2>1
    <2>2. CASE j # i
      BY <2>2 DEF ReportInv
    <2> QED
      BY <2>1, <2>2
  <1> QED
    BY <1>2, <1>3 DEF ReportInv

(* A write of a task: its status is kept, and its row follows or the       *)
(* failure is known.                                                       *)
LEMMA TaskWritten ==
  ASSUME SubtasksTypeOK, MailInv, NEW i \in Subs, NEW status \in TaskStatus \ {"none"},
         NEW ok \in BOOLEAN, SetTask(i, status, ok), UNCHANGED runCtx
  PROVE  /\ task' \in [Subs -> TaskStatus] /\ taskRow' \in [Subs -> TaskStatus]
         /\ writeFaults' \in 0 .. MaxIncidents /\ writeFaults <= writeFaults'
         /\ \A j \in Subs : j # i => task'[j] = task[j] /\ taskRow'[j] = taskRow[j]
         /\ task'[i] = status
         /\ \/ status # "pending" /\ taskRow[i] = "none"
            \/ taskRow'[i] = status \/ runCtx' = "ended" \/ writeFaults' > 0
  <1>1. /\ task \in [Subs -> TaskStatus] /\ taskRow \in [Subs -> TaskStatus]
        /\ writeFaults \in 0 .. MaxIncidents /\ MaxIncidents \in Nat
        /\ runCtx \in {"live", "ended"}
    BY SubtasksAssumptions DEF SubtasksTypeOK
  <1>2. Len(mailbox) \in Nat
    BY DEF MailInv
  <1>3. writeFaults' \in 0 .. MaxIncidents /\ writeFaults <= writeFaults'
    <2>1. CASE ~ok /\ runCtx = "live"
      <3>1. writeFaults' = writeFaults + 1 /\ Len(mailbox) + writeFaults < MaxIncidents
        BY <1>1, <2>1 DEF SetTask, Incident
      <3> QED
        BY <1>1, <1>2, <3>1
    <2>2. CASE ~(~ok /\ runCtx = "live")
      <3>1. writeFaults' = writeFaults + 0
        BY <1>1, <2>2 DEF SetTask
      <3> QED
        BY <1>1, <3>1
    <2> QED
      BY <2>1, <2>2
  <1>4. task' = [task EXCEPT ![i] = status]
    BY DEF SetTask
  <1>5. taskRow' \in {taskRow, [taskRow EXCEPT ![i] = status]}
    BY DEF SetTask
  <1>6. \/ status # "pending" /\ taskRow[i] = "none"
        \/ taskRow'[i] = status \/ runCtx' = "ended" \/ writeFaults' > 0
    <2>1. CASE ok
      BY <1>1, <2>1 DEF SetTask
    <2>2. CASE ~ok /\ runCtx = "live"
      BY <1>1, <2>2 DEF SetTask
    <2>3. CASE ~ok /\ runCtx # "live"
      BY <1>1, <2>3
    <2> QED
      BY <2>1, <2>2, <2>3
  <1> QED
    BY <1>1, <1>3, <1>4, <1>5, <1>6

(* A sub-agent that is active ends within its commitment: its slot is free *)
(* again, and the parent is charged.                                       *)
LEMMA EndStep ==
  ASSUME SubInv, NEW i \in Subs, NEW err \in BOOLEAN, NEW ok \in BOOLEAN,
         NEW cost \in 0 .. MaxTurnCost, i \in Active, EndSubtask(i, err, cost, ok),
         total[i] + cost <= Committed[i], grant[i] = 0 => total[i] + cost = 0,
         used' \in [Subs -> Nat], \A j \in Subs : j # i => used'[j] = used[j],
         escalated' \in {escalated, escalated \cup {i}},
         i \in escalated' \/ used'[i] = used[i] + cost
  PROVE  SubInv'
  <1> USE SubtasksAssumptions
  <1>1. /\ SubtasksTypeOK /\ CostInv /\ ChildInv /\ ReportInv
        /\ TaskInv /\ TasksSettle /\ MailInv /\ ReadAtMostOnce
    BY DEF SubInv
  <1>2. /\ sub' = [sub EXCEPT ![i] = "done"]
        /\ failed' = [failed EXCEPT ![i] = err]
        /\ notified' = [notified EXCEPT ![i] = @ + 1]
        /\ total' = [total EXCEPT ![i] = @ + cost]
        /\ reported' = [reported EXCEPT ![i] = total[i] + cost]
        /\ costAccum' = costAccum + Truncated(total[i] + cost)
        /\ UNCHANGED <<grant, childTurn, parentVars, runCtx, mailbox, got>>
    BY DEF EndSubtask, ReportedCost, mailVars
  <1>3. PICK status \in TaskStatus \ {"none"} :
          /\ status = IF err THEN "failed" ELSE "completed"
          /\ SetTask(i, status, ok)
    BY DEF EndSubtask, TaskStatus
  <1>4. /\ task' \in [Subs -> TaskStatus] /\ taskRow' \in [Subs -> TaskStatus]
        /\ writeFaults' \in 0 .. MaxIncidents /\ writeFaults <= writeFaults'
        /\ \A j \in Subs : j # i => task'[j] = task[j] /\ taskRow'[j] = taskRow[j]
        /\ task'[i] = status
        /\ \/ status # "pending" /\ taskRow[i] = "none"
           \/ taskRow'[i] = status \/ runCtx' = "ended" \/ writeFaults' > 0
    BY <1>1, <1>2, <1>3, TaskWritten
  <1>5. /\ task[i] # "none" /\ notified[i] = 0
        /\ taskRow[i] = task[i] \/ runCtx = "ended" \/ writeFaults > 0
    BY <1>1 DEF TaskInv
  <1>6. writeFaults \in Nat /\ writeFaults' \in Nat
    BY <1>1, <1>4, SubNumbers
  <1>14. /\ total[i] \in Nat /\ cost \in Nat /\ costAccum \in Nat /\ total[i] + cost \in Nat
         /\ Truncated(total[i] + cost) \in Nat /\ Truncated(total[i] + cost) <= total[i] + cost
    <2>1. total[i] \in Nat /\ cost \in Nat /\ costAccum \in Nat
      BY <1>1, SubNumbers
    <2>2. total[i] + cost \in Nat
      BY <2>1
    <2> QED
      BY <2>1, <2>2, TruncatedCost
  <1>7. SubtasksTypeOK'
    <2>1. total' \in [Subs -> Nat] /\ reported' \in [Subs -> Nat] /\ costAccum' \in Nat
      <3>1. total \in [Subs -> Nat] /\ reported \in [Subs -> Nat]
        BY <1>1 DEF SubtasksTypeOK
      <3>2. total' \in [Subs -> Nat] /\ reported' \in [Subs -> Nat]
        BY <1>2, <1>14, <3>1
      <3>3. costAccum' \in Nat
        BY <1>2, <1>14
      <3> QED
        BY <3>2, <3>3
    <2>3. escalated' \subseteq Subs
      BY <1>1 DEF SubtasksTypeOK
    <2>4. rollup' \in {"open", "charged", "escalated"} /\ parentCost' \in Nat
      BY <1>1, <1>2 DEF SubtasksTypeOK, parentVars
    <2>2. notified' \in [Subs -> 0 .. 1]
      <3>1. notified \in [Subs -> 0 .. 1]
        BY <1>1 DEF SubtasksTypeOK
      <3> QED
        BY <1>2, <1>5, <3>1
    <2> QED
      BY <1>1, <1>2, <1>4, <2>1, <2>2, <2>3, <2>4 DEF SubtasksTypeOK
  <1>8. CostInv'
    <2>1. /\ SumOver(Settled, Subs)' + Settled[i] = SumOver(Settled, Subs) + Settled'[i]
          /\ SumOver(Committed, Subs)' + Committed[i]
               = SumOver(Committed, Subs) + Committed'[i]
          /\ SumOver(Settled, Subs) \in Nat /\ SumOver(Settled, Subs)' \in Nat
          /\ SumOver(Committed, Subs) \in Nat /\ SumOver(Committed, Subs)' \in Nat
      <3>1. \A j \in Subs : j # i => /\ sub'[j] = sub[j] /\ total'[j] = total[j]
                                     /\ grant'[j] = grant[j]
        BY <1>1, <1>2 DEF SubtasksTypeOK
      <3> QED
        BY <1>1, <1>7, <3>1, CostMoves
    <2>2. sub[i] \notin {"waiting", "done"} /\ sub'[i] = "done"
      BY <1>1, <1>2 DEF SubtasksTypeOK, Active
    <2>3. total'[i] = total[i] + cost
      <3>1. total \in [Subs -> Nat]
        BY <1>1 DEF SubtasksTypeOK
      <3> QED
        BY <1>2, <3>1
    <2>4. Settled[i] = 0 /\ Settled'[i] = Truncated(total[i] + cost)
      BY <2>2, <2>3 DEF Settled
    <2>5. Committed'[i] = Truncated(total[i] + cost)
      BY <2>2, <2>3 DEF Committed
    <2>6. Committed[i] \in Nat
      BY <1>1, CostFunctions
    <2>7. costAccum' = Truncated(InitialCost) + SumOver(Settled, Subs)'
      <3>1. costAccum = Truncated(InitialCost) + SumOver(Settled, Subs)
        BY <1>1 DEF CostInv
      <3> QED
        BY <1>2, <1>14, <2>1, <2>4, <3>1, CostConstants
    <2>8. SumOver(Committed, Subs)' <= SumOver(Committed, Subs)
      BY <1>14, <2>1, <2>5, <2>6
    <2>9. SumOver(Committed, Subs)' <= SubagentSlots * SlotShare
      <3>1. SumOver(Committed, Subs) <= SubagentSlots * SlotShare
        BY <1>1 DEF CostInv
      <3>2. PICK n \in Nat : n = SubagentSlots * SlotShare
        BY CostConstants
      <3> QED
        BY <2>1, <2>8, <3>1, <3>2
    <2>10. Cardinality(Active)' <= SubagentSlots
      <3>1. Active' \subseteq Active /\ Active \in SUBSET Subs
        BY <1>1, <1>2 DEF Active, SubtasksTypeOK
      <3>2. IsFiniteSet(Active) /\ Cardinality(Active) \in Nat
        BY <3>1, SomeSubs
      <3>3. Cardinality(Active') <= Cardinality(Active) /\ Cardinality(Active') \in Nat
        BY <3>1, <3>2, FS_Subset, FS_CardinalityType
      <3>4. Cardinality(Active) <= SubagentSlots
        BY <1>1 DEF CostInv
      <3> QED
        BY <3>2, <3>3, <3>4
    <2> QED
      BY <2>7, <2>9, <2>10 DEF CostInv
  <1>9. ChildInv'
    <2> SUFFICES ASSUME NEW j \in Subs
                 PROVE  /\ grant'[j] <= Remaining
                        /\ grant'[j] = 0 \/ sub'[j] \in {"waiting", "created", "unfunded"} =>
                             total'[j] = 0
                        /\ sub'[j] \in {"top", "called"} =>
                             grant'[j] > 0 /\ total'[j] <= Share * grant'[j] + Overrun
                        /\ sub'[j] = "called" => childTurn'[j] < MaxChildTurns
      BY DEF ChildInv
    <2>1. CASE j = i
      <3>1. sub'[i] = "done" /\ grant'[i] = grant[i] /\ total'[i] = total[i] + cost
        BY <1>1, <1>2 DEF SubtasksTypeOK
      <3>2. grant[i] <= Remaining
        BY <1>1 DEF ChildInv
      <3> QED
        BY <2>1, <3>1, <3>2
    <2>2. CASE j # i
      <3>1. /\ sub'[j] = sub[j] /\ grant'[j] = grant[j] /\ total'[j] = total[j]
            /\ childTurn'[j] = childTurn[j]
        BY <1>1, <1>2, <2>2 DEF SubtasksTypeOK
      <3> QED
        BY <1>1, <3>1 DEF ChildInv
    <2> QED
      BY <2>1, <2>2
  <1>15. ReportInv'
    <2>1. sub[i] # "done" /\ i \notin escalated
      BY <1>1 DEF Active, ReportInv
    <2>2. /\ sub'[i] = "done" /\ total'[i] = total[i] + cost /\ reported'[i] = total[i] + cost
          /\ \A j \in Subs : j # i => /\ sub'[j] = sub[j] /\ total'[j] = total[j]
                                      /\ reported'[j] = reported[j]
      BY <1>1, <1>2 DEF SubtasksTypeOK
    <2>3. used[i] = total[i]
      BY <1>1, <2>1 DEF ReportInv
    <2> QED
      BY <1>1, <1>2, <2>1, <2>2, <2>3, ReportKept
  <1>10. TaskInv'
    <2> SUFFICES ASSUME NEW j \in Subs
                 PROVE  /\ sub'[j] = "waiting" => task'[j] = "none" /\ notified'[j] = 0
                        /\ j \in Active' =>
                             /\ task'[j] # "none" /\ notified'[j] = 0
                             /\ taskRow'[j] = task'[j] \/ runCtx' = "ended" \/ writeFaults' > 0
      BY DEF TaskInv
    <2>1. CASE j = i
      BY <1>1, <1>2, <2>1 DEF SubtasksTypeOK, Active
    <2>2. CASE j # i
      <3>1. sub'[j] = sub[j] /\ notified'[j] = notified[j] /\ (j \in Active' => j \in Active)
        BY <1>1, <1>2, <2>2 DEF SubtasksTypeOK, Active
      <3> QED
        BY <1>1, <1>2, <1>4, <1>6, <2>2, <3>1 DEF TaskInv
    <2> QED
      BY <2>1, <2>2
  <1>11. TasksSettle'
    <2> SUFFICES ASSUME NEW j \in Subs, sub'[j] = "done"
                 PROVE  \/ task'[j] = "none" /\ failed'[j] /\ notified'[j] = 0
                        \/ /\ task'[j] = (IF failed'[j] THEN "failed" ELSE "completed")
                           /\ notified'[j] = 1
                           /\ taskRow'[j] = task'[j] \/ runCtx' = "ended" \/ writeFaults' > 0
      BY DEF TasksSettle
    <2>1. CASE j = i
      <3>1. failed'[i] = err /\ notified'[i] = 1
        <4>1. notified \in [Subs -> 0 .. 1] /\ failed \in [Subs -> BOOLEAN]
          BY <1>1 DEF SubtasksTypeOK
        <4> QED
          BY <1>2, <1>5, <4>1
      <3>2. taskRow'[i] = status \/ runCtx' = "ended" \/ writeFaults' > 0
        BY <1>2, <1>4, <1>5, <1>6
      <3> QED
        BY <1>3, <1>4, <2>1, <3>1, <3>2
    <2>2. CASE j # i
      <3>1. sub'[j] = sub[j] /\ notified'[j] = notified[j] /\ failed'[j] = failed[j]
        BY <1>1, <1>2, <2>2 DEF SubtasksTypeOK
      <3> QED
        BY <1>1, <1>2, <1>4, <1>6, <2>2, <3>1 DEF TasksSettle
    <2> QED
      BY <2>1, <2>2
  <1>12. MailInv' /\ ReadAtMostOnce'
    BY <1>1, <1>2 DEF MailInv, ReadAtMostOnce
  <1> QED
    BY <1>7, <1>8, <1>9, <1>10, <1>11, <1>12, <1>15 DEF SubInv

(* The same for a sub-agent that ends without another call of the model.   *)
LEMMA FreeEndStep ==
  ASSUME SubInv, NEW i \in Subs, NEW ok \in BOOLEAN, i \in Active,
         EndsFree(i, ok), total[i] <= Committed[i]
  PROVE  SubInv'
  <1>1. PICK err \in BOOLEAN : err = TRUE
    OBVIOUS
  <1>2. PICK cost \in 0 .. MaxTurnCost : cost = 0
    BY SubtasksAssumptions
  <1>3. EndSubtask(i, err, cost, ok) /\ UNCHANGED <<used, escalated>>
    BY <1>1, <1>2, Zenon DEF EndsFree
  <1>4. SubtasksTypeOK /\ ChildInv
    BY DEF SubInv
  <1>5. total[i] \in Nat /\ used[i] \in Nat /\ used \in [Subs -> Nat]
    BY <1>4, SubNumbers DEF SubtasksTypeOK
  <1>6. total[i] + cost <= Committed[i]
    BY <1>2, <1>5
  <1>7. grant[i] = 0 => total[i] + cost = 0
    BY <1>2, <1>4 DEF ChildInv
  <1>8. used' \in [Subs -> Nat] /\ (\A j \in Subs : j # i => used'[j] = used[j])
    BY <1>3, <1>5
  <1>9. used'[i] = used[i] + cost /\ escalated' \in {escalated, escalated \cup {i}}
    BY <1>2, <1>3, <1>5
  <1> QED
    BY <1>3, <1>6, <1>7, <1>8, <1>9, EndStep

(* No sub-agent has cost more than its commitment, but for the fraction    *)
(* that is dropped at its end.                                             *)
LEMMA WithinCommitment ==
  ASSUME SubtasksTypeOK, ChildInv, NEW i \in Subs
  PROVE  /\ total[i] <= Committed[i] + (Unit - 1)
         /\ sub[i] # "done" => total[i] <= Committed[i]
         /\ sub[i] = "called" => Committed[i] = Share * grant[i] + Slack
         /\ Committed[i] \in Nat /\ total[i] \in Nat
  <1>1. total[i] \in Nat /\ grant[i] \in Nat /\ Unit - 1 \in Nat
    BY SubNumbers, SubtasksAssumptions
  <1>2. sub[i] \in {"waiting", "created", "unfunded", "top", "called", "done"}
    BY DEF SubtasksTypeOK
  <1>3. Committed[i] \in Nat
    BY CostFunctions
  <1>4. CASE sub[i] = "done"
    <2>1. Committed[i] = Truncated(total[i])
      BY <1>4 DEF Committed
    <2> QED
      BY <1>1, <1>3, <1>4, <2>1, TruncatedCost
  <1>5. CASE sub[i] \in {"waiting", "created", "unfunded"}
    <2>1. total[i] = 0
      BY <1>5 DEF ChildInv
    <2> QED
      BY <1>1, <1>3, <1>5, <2>1
  <1>6. CASE sub[i] \in {"top", "called"}
    <2>1. grant[i] > 0 /\ total[i] <= Share * grant[i] + Overrun
      BY <1>6 DEF ChildInv
    <2>2. Committed[i] = Share * grant[i] + Slack
      BY <1>6, <2>1 DEF Committed
    <2>3. PICK m \in Nat : m = Share * grant[i]
      BY <1>1, CostConstants, Product
    <2>4. Slack = Overrun + MaxTurnCost /\ Overrun \in Nat /\ MaxTurnCost \in Nat
      BY CostConstants, SubtasksAssumptions
    <2>5. total[i] <= m + Overrun /\ Committed[i] = m + Slack
      BY <2>1, <2>2, <2>3
    <2>6. total[i] <= Committed[i]
      BY <1>1, <2>4, <2>5
    <2> QED
      BY <1>1, <1>3, <1>6, <2>2, <2>6
  <1> QED
    BY <1>2, <1>4, <1>5, <1>6

(* A step that commits nothing and settles nothing leaves the costs as     *)
(* they are.                                                               *)
LEMMA CostsKept ==
  ASSUME SubtasksTypeOK, SubtasksTypeOK', CostInv, NEW i \in Subs,
         \A j \in Subs : j # i => /\ sub'[j] = sub[j] /\ total'[j] = total[j]
                                  /\ grant'[j] = grant[j],
         costAccum' = costAccum, Settled'[i] = Settled[i], Committed'[i] = Committed[i],
         sub[i] \in {"waiting", "done"} => sub'[i] \in {"waiting", "done"}
  PROVE  CostInv'
  <1> USE SubtasksAssumptions
  <1>1. /\ SumOver(Settled, Subs)' + Settled[i] = SumOver(Settled, Subs) + Settled'[i]
        /\ SumOver(Committed, Subs)' + Committed[i]
             = SumOver(Committed, Subs) + Committed'[i]
        /\ SumOver(Settled, Subs) \in Nat /\ SumOver(Settled, Subs)' \in Nat
        /\ SumOver(Committed, Subs) \in Nat /\ SumOver(Committed, Subs)' \in Nat
    BY CostMoves
  <1>2. Settled[i] \in Nat /\ Committed[i] \in Nat
    BY CostFunctions
  <1>3. SumOver(Settled, Subs)' = SumOver(Settled, Subs)
    BY <1>1, <1>2
  <1>4. SumOver(Committed, Subs)' = SumOver(Committed, Subs)
    BY <1>1, <1>2
  <1>5. Cardinality(Active)' <= SubagentSlots
    <2>1. Active' \subseteq Active /\ Active \in SUBSET Subs
      BY DEF Active
    <2>2. IsFiniteSet(Active) /\ Cardinality(Active) \in Nat
      BY <2>1, SomeSubs
    <2>3. Cardinality(Active') <= Cardinality(Active) /\ Cardinality(Active') \in Nat
      BY <2>1, <2>2, FS_Subset, FS_CardinalityType
    <2>4. Cardinality(Active) <= SubagentSlots
      BY DEF CostInv
    <2> QED
      BY <2>2, <2>3, <2>4
  <1> QED
    BY <1>3, <1>4, <1>5 DEF CostInv

(* A sub-agent starts: with what the parent has left, and the commitments  *)
(* of the others, none above its share of a slot, the sum stays in bounds. *)
LEMMA StartStep ==
  ASSUME SubInv, NEW i \in Subs, NEW ok \in BOOLEAN, StartSubtask(i, ok)
  PROVE  SubInv'
  <1> USE SubtasksAssumptions
  <1>1. /\ SubtasksTypeOK /\ CostInv /\ ChildInv /\ ReportInv
        /\ TaskInv /\ TasksSettle /\ MailInv /\ ReadAtMostOnce
    BY DEF SubInv
  <1>2. /\ sub[i] = "waiting" /\ SlotFree
        /\ sub' = [sub EXCEPT ![i] = "created"]
        /\ grant' = [grant EXCEPT ![i] = IF costAccum < Budget THEN Budget - costAccum ELSE 0]
        /\ SetTask(i, "pending", ok)
        /\ UNCHANGED <<failed, childTurn, total, reported, costAccum, used, escalated, rollup,
                       parentCost, runCtx, notified, mailbox, got>>
    BY DEF StartSubtask, mailVars, costVars, parentVars
  <1>3. /\ task' \in [Subs -> TaskStatus] /\ taskRow' \in [Subs -> TaskStatus]
        /\ writeFaults' \in 0 .. MaxIncidents /\ writeFaults <= writeFaults'
        /\ \A j \in Subs : j # i => task'[j] = task[j] /\ taskRow'[j] = taskRow[j]
        /\ task'[i] = "pending"
        /\ taskRow'[i] = "pending" \/ runCtx' = "ended" \/ writeFaults' > 0
    <2>1. "pending" \in TaskStatus \ {"none"}
      BY DEF TaskStatus
    <2> QED
      BY <1>1, <1>2, <2>1, TaskWritten
  <1>4. writeFaults \in Nat /\ writeFaults' \in Nat
    BY <1>1, <1>3, SubNumbers
  <1>5. /\ SumOver(Settled, Subs) \in Nat /\ SumOver(Committed, Subs) \in Nat
        /\ costAccum = Truncated(InitialCost) + SumOver(Settled, Subs)
        /\ Budget - costAccum = Remaining - SumOver(Settled, Subs) /\ costAccum \in Nat
    <2>1. /\ SumOver(Settled, Subs) \in Nat /\ SumOver(Committed, Subs) \in Nat
          /\ costAccum = Truncated(InitialCost) + SumOver(Settled, Subs)
      BY <1>1, CostFunctions, SumIsNat DEF CostInv
    <2> QED
      BY <2>1, CostConstants
  <1>6. PICK given \in 0 .. Remaining :
          /\ grant' = [grant EXCEPT ![i] = given]
          /\ given = 0 \/ given = Budget - costAccum
    <2>1. IF costAccum < Budget
          THEN /\ Budget - costAccum \in 0 .. Remaining
               /\ grant' = [grant EXCEPT ![i] = Budget - costAccum]
          ELSE /\ 0 \in 0 .. Remaining
               /\ grant' = [grant EXCEPT ![i] = 0]
      BY <1>2, <1>5, CostConstants
    <2> QED
      BY <2>1
  <1>7. SubtasksTypeOK'
    <2>1. grant' \in [Subs -> 0 .. Budget]
      <3>1. grant \in [Subs -> 0 .. Budget]
        BY <1>1 DEF SubtasksTypeOK
      <3>2. given \in 0 .. Budget
        BY CostConstants
      <3> QED
        BY <1>6, <3>1, <3>2
    <2> QED
      BY <1>1, <1>2, <1>3, <2>1 DEF SubtasksTypeOK
  <1>8. total[i] = 0 /\ sub'[i] = "created" /\ grant'[i] = given /\ total'[i] = 0
    BY <1>1, <1>2, <1>6 DEF ChildInv, SubtasksTypeOK
  <1>9. CostInv'
    <2>1. /\ SumOver(Settled, Subs)' + Settled[i] = SumOver(Settled, Subs) + Settled'[i]
          /\ SumOver(Committed, Subs)' + Committed[i]
               = SumOver(Committed, Subs) + Committed'[i]
          /\ SumOver(Settled, Subs) \in Nat /\ SumOver(Settled, Subs)' \in Nat
          /\ SumOver(Committed, Subs) \in Nat /\ SumOver(Committed, Subs)' \in Nat
      <3>1. \A j \in Subs : j # i => /\ sub'[j] = sub[j] /\ total'[j] = total[j]
                                     /\ grant'[j] = grant[j]
        BY <1>1, <1>2, <1>6 DEF SubtasksTypeOK
      <3> QED
        BY <1>1, <1>7, <3>1, CostMoves
    <2>2. Settled[i] = 0 /\ Settled'[i] = 0 /\ Committed[i] = 0
      BY <1>2, <1>8 DEF Settled, Committed
    <2>3. Committed'[i] = IF given > 0 THEN Share * given + Slack ELSE 0
      BY <1>8 DEF Committed
    <2>4. costAccum' = Truncated(InitialCost) + SumOver(Settled, Subs)'
      BY <1>2, <1>5, <2>1, <2>2
    <2>5. SlotShare \in Nat /\ SlotShare = Share * Remaining + Slack
      BY CostConstants DEF SlotShare
    <2>6. Active \in SUBSET Subs /\ i \notin Active /\ Active' = Active \cup {i}
      BY <1>1, <1>2 DEF Active, SubtasksTypeOK
    <2>7. PICK n \in Nat : n = Cardinality(Active)
      BY <2>6, SomeSubs
    <2>8. n + 1 <= SubagentSlots
      BY <1>2, <2>7 DEF SlotFree
    <2>9. Cardinality(Active)' <= SubagentSlots
      BY <2>6, <2>7, <2>8, SomeSubs, FS_AddElement
    <2>10. SumOver(Committed, Subs) <= SumOver(Settled, Subs) + n * SlotShare
      <3>1. \A j \in Subs : \/ Committed[j] <= Settled[j]
                            \/ j \in Active /\ Committed[j] <= Settled[j] + SlotShare
        <4> SUFFICES ASSUME NEW j \in Subs
                     PROVE  \/ Committed[j] <= Settled[j]
                            \/ j \in Active /\ Committed[j] <= Settled[j] + SlotShare
          OBVIOUS
        <4>1. grant[j] \in Nat /\ grant[j] <= Remaining /\ Remaining \in Nat /\ Share \in Nat
          BY <1>1, SubNumbers, CostConstants DEF ChildInv
        <4>2. CASE j \in Active
          <5>1. Settled[j] = 0 /\ Committed[j] \in {0, Share * grant[j] + Slack}
            BY <4>2 DEF Settled, Committed, Active
          <5>2. Share * grant[j] <= Share * Remaining
            BY <4>1, ProductAtMost
          <5>3. PICK sg \in Nat, sr \in Nat : sg = Share * grant[j] /\ sr = Share * Remaining
            BY <4>1, Product
          <5>4. Slack \in Nat /\ sg + Slack <= sr + Slack
            BY <5>2, <5>3, CostConstants
          <5> QED
            BY <2>5, <4>2, <5>1, <5>3, <5>4
        <4>3. CASE j \notin Active
          <5>1. sub[j] \in {"waiting", "done"}
            BY <4>3 DEF Active
          <5>2. Committed[j] = Settled[j] /\ Settled[j] \in Nat
            BY <1>1, <5>1, CostFunctions DEF Settled, Committed
          <5> QED
            BY <5>2
        <4> QED
          BY <4>2, <4>3
      <3>2. Settled \in [Subs -> Nat] /\ Committed \in [Subs -> Nat]
        BY <1>1, CostFunctions
      <3> QED
        BY <2>5, <2>6, <2>7, <3>1, <3>2, SumExceeds
    <2>11. PICK m \in Nat : m = n * SlotShare
      BY <2>5
    <2>12. m + SlotShare <= SubagentSlots * SlotShare
      <3>1. PICK k \in Nat : SubagentSlots = n + 1 + k
        <4>1. SubagentSlots - (n + 1) \in Nat /\ SubagentSlots = n + 1 + (SubagentSlots - (n + 1))
          BY <2>8
        <4> QED
          BY <4>1
      <3>2. SubagentSlots * SlotShare = n * SlotShare + SlotShare + k * SlotShare
        BY <2>5, <3>1
      <3>3. k * SlotShare \in Nat
        BY <2>5
      <3> QED
        BY <2>5, <2>11, <3>2, <3>3
    <2>13. SumOver(Committed, Subs)' = SumOver(Committed, Subs) + Committed'[i]
      BY <2>1, <2>2, <2>3
    <2>14. SumOver(Committed, Subs)' <= SubagentSlots * SlotShare
      <3>1. PICK bound \in Nat : bound = SubagentSlots * SlotShare
        BY <2>5
      <3>2. CASE given > 0
        <4>1. given = Remaining - SumOver(Settled, Subs)
              /\ Committed'[i] = Share * given + Slack
          BY <1>5, <1>6, <2>3, <3>2
        <4>5. PICK a \in Nat, g \in Nat, k \in Nat :
                /\ a = SumOver(Settled, Subs) /\ g = given /\ k = Share /\ 1 <= k
                /\ Remaining = a + g
          BY <1>5, <4>1, CostConstants
        <4>6. PICK ka \in Nat, kg \in Nat : ka = k * a /\ kg = k * g
          BY Product
        <4>7. a <= ka
          <5>1. 1 * a <= k * a /\ 1 * a = a
            BY <4>5, ProductAtMost
          <5> QED
            BY <4>6, <5>1
        <4>8. Share * Remaining = ka + kg /\ Committed'[i] = kg + Slack /\ Slack \in Nat
          <5>1. k * (a + g) = k * a + k * g
            OBVIOUS
          <5> QED
            BY <4>1, <4>5, <4>6, <5>1, CostConstants
        <4>2. SumOver(Settled, Subs) + Committed'[i] <= SlotShare
          <5>1. SlotShare = (ka + kg) + Slack
            BY <2>5, <4>8
          <5>2. SumOver(Settled, Subs) + Committed'[i] = a + (kg + Slack)
            BY <4>5, <4>8
          <5>3. a + (kg + Slack) <= (ka + kg) + Slack
            BY <4>7, <4>8
          <5> QED
            BY <5>1, <5>2, <5>3
        <4>4. Committed'[i] \in Nat
          BY <4>6, <4>8
        <4>3. SumOver(Committed, Subs) + Committed'[i]
                <= SumOver(Settled, Subs) + m + Committed'[i]
          <5>1. SumOver(Committed, Subs) <= SumOver(Settled, Subs) + m
            BY <2>10, <2>11
          <5> QED
            BY <1>5, <4>4, <5>1
        <4> QED
          BY <1>5, <2>1, <2>5, <2>12, <2>13, <3>1, <4>2, <4>3, <4>4
      <3>3. CASE ~(given > 0)
        <4>1. SumOver(Committed, Subs)' = SumOver(Committed, Subs)
          BY <2>1, <2>3, <2>13, <3>3
        <4> QED
          BY <1>1, <4>1 DEF CostInv
      <3> QED
        BY <3>2, <3>3
    <2> QED
      BY <2>4, <2>9, <2>14 DEF CostInv
  <1>10. ChildInv'
    <2> SUFFICES ASSUME NEW j \in Subs
                 PROVE  /\ grant'[j] <= Remaining
                        /\ grant'[j] = 0 \/ sub'[j] \in {"waiting", "created", "unfunded"} =>
                             total'[j] = 0
                        /\ sub'[j] \in {"top", "called"} =>
                             grant'[j] > 0 /\ total'[j] <= Share * grant'[j] + Overrun
                        /\ sub'[j] = "called" => childTurn'[j] < MaxChildTurns
      BY DEF ChildInv
    <2>1. CASE j = i
      <3>1. given <= Remaining
        BY CostConstants
      <3> QED
        BY <1>8, <2>1, <3>1
    <2>2. CASE j # i
      <3>1. /\ sub'[j] = sub[j] /\ grant'[j] = grant[j] /\ total'[j] = total[j]
            /\ childTurn'[j] = childTurn[j]
        BY <1>1, <1>2, <1>6, <2>2 DEF SubtasksTypeOK
      <3> QED
        BY <1>1, <3>1 DEF ChildInv
    <2> QED
      BY <2>1, <2>2
  <1>14. ReportInv'
    <2>1. /\ sub[i] # "done" /\ sub'[i] # "done" /\ i \notin escalated
          /\ used[i] = total[i] /\ reported[i] = 0
      BY <1>1, <1>2, <1>8 DEF ReportInv
    <2>2. \A j \in Subs : j # i => sub'[j] = sub[j]
      BY <1>1, <1>2 DEF SubtasksTypeOK
    <2> QED
      BY <1>1, <1>2, <2>1, <2>2, ReportKept DEF parentVars
  <1>11. TaskInv'
    <2> SUFFICES ASSUME NEW j \in Subs
                 PROVE  /\ sub'[j] = "waiting" => task'[j] = "none" /\ notified'[j] = 0
                        /\ j \in Active' =>
                             /\ task'[j] # "none" /\ notified'[j] = 0
                             /\ taskRow'[j] = task'[j] \/ runCtx' = "ended" \/ writeFaults' > 0
      BY DEF TaskInv
    <2>1. CASE j = i
      <3>1. notified'[i] = 0
        BY <1>1, <1>2 DEF TaskInv
      <3> QED
        BY <1>3, <1>8, <2>1, <3>1
    <2>2. CASE j # i
      <3>1. sub'[j] = sub[j] /\ notified'[j] = notified[j] /\ (j \in Active' => j \in Active)
        BY <1>1, <1>2, <2>2 DEF SubtasksTypeOK, Active
      <3> QED
        BY <1>1, <1>2, <1>3, <1>4, <2>2, <3>1 DEF TaskInv
    <2> QED
      BY <2>1, <2>2
  <1>12. TasksSettle'
    <2> SUFFICES ASSUME NEW j \in Subs, sub'[j] = "done"
                 PROVE  \/ task'[j] = "none" /\ failed'[j] /\ notified'[j] = 0
                        \/ /\ task'[j] = (IF failed'[j] THEN "failed" ELSE "completed")
                           /\ notified'[j] = 1
                           /\ taskRow'[j] = task'[j] \/ runCtx' = "ended" \/ writeFaults' > 0
      BY DEF TasksSettle
    <2>1. j # i /\ sub[j] = "done"
      BY <1>1, <1>2, <1>8 DEF SubtasksTypeOK
    <2> QED
      BY <1>1, <1>2, <1>3, <1>4, <2>1 DEF TasksSettle
  <1>13. MailInv' /\ ReadAtMostOnce'
    BY <1>1, <1>2 DEF MailInv, ReadAtMostOnce
  <1> QED
    BY <1>7, <1>9, <1>10, <1>11, <1>12, <1>13, <1>14 DEF SubInv

(* The task is assigned: a child that was granted nothing goes no further. *)
LEMMA AssignStep ==
  ASSUME SubInv, NEW i \in Subs, NEW ok \in BOOLEAN, AssignTask(i, ok)
  PROVE  SubInv'
  <1> USE SubtasksAssumptions
  <1>1. /\ SubtasksTypeOK /\ CostInv /\ ChildInv /\ ReportInv
        /\ TaskInv /\ TasksSettle /\ MailInv /\ ReadAtMostOnce
    BY DEF SubInv
  <1>0. /\ sub' = [sub EXCEPT ![i] = IF grant[i] > 0 THEN "top" ELSE "unfunded"]
        /\ SetTask(i, "in_progress", ok)
    BY DEF AssignTask
  <1>2. /\ sub[i] = "created" /\ i \in Active
        /\ UNCHANGED <<failed, grant, childTurn, total, reported, costAccum, used, escalated,
                       rollup, parentCost, runCtx, notified, mailbox, got>>
    BY DEF AssignTask, mailVars, costVars, parentVars, Active
  <1>3. /\ task' \in [Subs -> TaskStatus] /\ taskRow' \in [Subs -> TaskStatus]
        /\ writeFaults' \in 0 .. MaxIncidents /\ writeFaults <= writeFaults'
        /\ \A j \in Subs : j # i => task'[j] = task[j] /\ taskRow'[j] = taskRow[j]
        /\ task'[i] = "in_progress"
        /\ \/ taskRow[i] = "none"
           \/ taskRow'[i] = "in_progress" \/ runCtx' = "ended" \/ writeFaults' > 0
    <2>1. "in_progress" \in TaskStatus \ {"none"}
      BY DEF TaskStatus
    <2> QED
      BY <1>0, <1>1, <1>2, <2>1, TaskWritten
  <1>4. writeFaults \in Nat /\ writeFaults' \in Nat
    BY <1>1, <1>3, SubNumbers
  <1>5. PICK after \in {"top", "unfunded"} :
          /\ sub' = [sub EXCEPT ![i] = after]
          /\ after = "top" => grant[i] > 0
    BY <1>0
  <1>6. SubtasksTypeOK'
    BY <1>1, <1>2, <1>3, <1>5 DEF SubtasksTypeOK
  <1>7. sub'[i] = after /\ \A j \in Subs : j # i => sub'[j] = sub[j]
    BY <1>1, <1>5 DEF SubtasksTypeOK
  <1>8. CostInv'
    <2>1. Settled'[i] = Settled[i] /\ Committed'[i] = Committed[i]
      BY <1>2, <1>7 DEF Settled, Committed
    <2> QED
      BY <1>1, <1>2, <1>6, <1>7, <2>1, CostsKept
  <1>9. ChildInv'
    <2>1. total[i] = 0 /\ grant[i] \in Nat
      BY <1>1, <1>2, SubNumbers DEF ChildInv
    <2> SUFFICES ASSUME NEW j \in Subs
                 PROVE  /\ grant[j] <= Remaining
                        /\ grant[j] = 0 \/ sub'[j] \in {"waiting", "created", "unfunded"} =>
                             total[j] = 0
                        /\ sub'[j] \in {"top", "called"} =>
                             grant[j] > 0 /\ total[j] <= Share * grant[j] + Overrun
                        /\ sub'[j] = "called" => childTurn[j] < MaxChildTurns
      BY <1>2 DEF ChildInv
    <2>2. CASE j = i
      <3>1. grant[i] <= Remaining
        BY <1>1 DEF ChildInv
      <3>2. sub'[i] \in {"top", "unfunded"} /\ (sub'[i] = "top" => grant[i] > 0)
        BY <1>5, <1>7
      <3>3. total[i] <= Share * grant[i] + Overrun
        <4>1. Share * grant[i] \in Nat /\ Overrun \in Nat
          BY <2>1, CostConstants, Product
        <4> QED
          BY <2>1, <4>1
      <3> QED
        BY <2>1, <2>2, <3>1, <3>2, <3>3
    <2>3. CASE j # i
      BY <1>1, <1>7, <2>3 DEF ChildInv
    <2> QED
      BY <2>2, <2>3
  <1>13. ReportInv'
    <2>1. /\ sub[i] # "done" /\ sub'[i] # "done" /\ i \notin escalated
          /\ used[i] = total[i] /\ reported[i] = 0
      BY <1>1, <1>2, <1>5, <1>7 DEF ReportInv
    <2> QED
      BY <1>1, <1>2, <1>7, <2>1, ReportKept DEF parentVars
  <1>10. TaskInv'
    <2> SUFFICES ASSUME NEW j \in Subs
                 PROVE  /\ sub'[j] = "waiting" => task'[j] = "none" /\ notified'[j] = 0
                        /\ j \in Active' =>
                             /\ task'[j] # "none" /\ notified'[j] = 0
                             /\ taskRow'[j] = task'[j] \/ runCtx' = "ended" \/ writeFaults' > 0
      BY DEF TaskInv
    <2>1. CASE j = i
      <3>1. /\ notified[i] = 0 /\ task[i] # "none"
            /\ taskRow[i] = task[i] \/ runCtx = "ended" \/ writeFaults > 0
        BY <1>1, <1>2 DEF TaskInv
      <3>2. taskRow'[i] = task'[i] \/ runCtx' = "ended" \/ writeFaults' > 0
        BY <1>2, <1>3, <1>4, <3>1
      <3> QED
        BY <1>2, <1>3, <1>7, <2>1, <3>1, <3>2
    <2>2. CASE j # i
      <3>1. sub'[j] = sub[j] /\ notified'[j] = notified[j] /\ (j \in Active' => j \in Active)
        BY <1>2, <1>7, <2>2 DEF Active
      <3> QED
        BY <1>1, <1>2, <1>3, <1>4, <2>2, <3>1 DEF TaskInv
    <2> QED
      BY <2>1, <2>2
  <1>11. TasksSettle'
    <2> SUFFICES ASSUME NEW j \in Subs, sub'[j] = "done"
                 PROVE  \/ task'[j] = "none" /\ failed'[j] /\ notified'[j] = 0
                        \/ /\ task'[j] = (IF failed'[j] THEN "failed" ELSE "completed")
                           /\ notified'[j] = 1
                           /\ taskRow'[j] = task'[j] \/ runCtx' = "ended" \/ writeFaults' > 0
      BY DEF TasksSettle
    <2>1. j # i /\ sub[j] = "done"
      BY <1>5, <1>7
    <2> QED
      BY <1>1, <1>2, <1>3, <1>4, <2>1 DEF TasksSettle
  <1>12. MailInv' /\ ReadAtMostOnce'
    BY <1>1, <1>2 DEF MailInv, ReadAtMostOnce
  <1> QED
    BY <1>6, <1>8, <1>9, <1>10, <1>11, <1>12, <1>13 DEF SubInv

(* A call that ends before a task exists costs nothing.                    *)
LEMMA InvalidStep ==
  ASSUME SubInv, NEW i \in Subs, InvalidCall(i)
  PROVE  SubInv'
  <1> USE SubtasksAssumptions
  <1>1. /\ SubtasksTypeOK /\ CostInv /\ ChildInv /\ ReportInv
        /\ TaskInv /\ TasksSettle /\ MailInv /\ ReadAtMostOnce
    BY DEF SubInv
  <1>2. /\ sub[i] = "waiting"
        /\ sub' = [sub EXCEPT ![i] = "done"]
        /\ failed' = [failed EXCEPT ![i] = TRUE]
        /\ UNCHANGED <<grant, childTurn, total, reported, costAccum, used, escalated, rollup,
                       parentCost, runCtx, task, taskRow, notified, mailbox, got, writeFaults>>
    BY DEF InvalidCall, taskVars, mailVars, costVars, parentVars
  <1>3. SubtasksTypeOK'
    BY <1>1, <1>2 DEF SubtasksTypeOK
  <1>4. sub'[i] = "done" /\ \A j \in Subs : j # i => sub'[j] = sub[j]
    BY <1>1, <1>2 DEF SubtasksTypeOK
  <1>5. CostInv'
    <2>1. total[i] = 0 /\ total'[i] = 0
      BY <1>1, <1>2 DEF ChildInv
    <2>3. Truncated(0) = 0
      BY TruncatedCost
    <2>2. Settled'[i] = Settled[i] /\ Committed'[i] = Committed[i]
      BY <1>2, <1>4, <2>1, <2>3 DEF Settled, Committed
    <2> QED
      BY <1>1, <1>2, <1>3, <1>4, <2>2, CostsKept
  <1>6. ChildInv'
    BY <1>1, <1>2, <1>4 DEF ChildInv
  <1>10. ReportInv'
    <2>1. sub[i] # "done" /\ i \notin escalated /\ used[i] = total[i] /\ total[i] = 0
      BY <1>1, <1>2 DEF ReportInv, ChildInv
    <2>2. reported[i] = 0
      BY <1>1, <1>2 DEF ReportInv
    <2> QED
      BY <1>1, <1>2, <1>4, <2>1, <2>2, ReportKept DEF parentVars
  <1>7. TaskInv'
    BY <1>1, <1>2, <1>4 DEF TaskInv, Active
  <1>8. TasksSettle'
    BY <1>1, <1>2, <1>4 DEF TasksSettle, TaskInv, SubtasksTypeOK
  <1>9. MailInv' /\ ReadAtMostOnce'
    BY <1>1, <1>2 DEF MailInv, ReadAtMostOnce
  <1> QED
    BY <1>3, <1>5, <1>6, <1>7, <1>8, <1>9, <1>10 DEF SubInv

(* A child reads what is unread and addressed to it: nothing that another  *)
(* one has read, which is marked.                                          *)
LEMMA CallModelStep ==
  ASSUME SubInv, NEW i \in Subs, CallModel(i)
  PROVE  SubInv'
  <1> USE SubtasksAssumptions
  <1>1. /\ SubtasksTypeOK /\ CostInv /\ ChildInv /\ ReportInv
        /\ TaskInv /\ TasksSettle /\ MailInv /\ ReadAtMostOnce
    BY DEF SubInv
  <1>2. /\ sub[i] = "top" /\ childTurn[i] < MaxChildTurns
        /\ sub' = [sub EXCEPT ![i] = "called"]
        /\ mailbox' = [k \in DOMAIN mailbox |->
                         IF k \in Unread(i) THEN [mailbox[k] EXCEPT !.read = TRUE]
                         ELSE mailbox[k]]
        /\ got' = [got EXCEPT ![i] = @ \cup Unread(i)]
        /\ UNCHANGED <<failed, grant, childTurn, total, reported, costAccum, used, escalated,
                       rollup, parentCost, runCtx, task, taskRow, notified, writeFaults>>
    BY DEF CallModel, ReadUnread, taskVars, costVars, parentVars
  <1>3. SubtasksTypeOK'
    BY <1>1, <1>2 DEF SubtasksTypeOK
  <1>4. sub'[i] = "called" /\ \A j \in Subs : j # i => sub'[j] = sub[j]
    BY <1>1, <1>2 DEF SubtasksTypeOK
  <1>5. CostInv'
    <2>1. Settled'[i] = Settled[i] /\ Committed'[i] = Committed[i]
      BY <1>2, <1>4 DEF Settled, Committed
    <2> QED
      BY <1>1, <1>2, <1>3, <1>4, <2>1, CostsKept
  <1>6. ChildInv'
    BY <1>1, <1>2, <1>4 DEF ChildInv
  <1>17. ReportInv'
    <2>1. /\ sub[i] # "done" /\ sub'[i] # "done" /\ i \notin escalated
          /\ used[i] = total[i] /\ reported[i] = 0
      BY <1>1, <1>2, <1>4 DEF ReportInv
    <2> QED
      BY <1>1, <1>2, <1>4, <2>1, ReportKept DEF parentVars
  <1>7. TaskInv'
    BY <1>1, <1>2, <1>4 DEF TaskInv, Active
  <1>8. TasksSettle'
    BY <1>1, <1>2, <1>4 DEF TasksSettle
  <1> DEFINE Message == [to : Subs \cup {"*"}, read : BOOLEAN]
  <1>9. /\ mailbox' \in Seq(Message) /\ Len(mailbox') = Len(mailbox)
        /\ \A k \in 1 .. Len(mailbox) : /\ mailbox'[k].to = mailbox[k].to
                                        /\ mailbox[k].read => mailbox'[k].read
                                        /\ k \in Unread(i) => mailbox'[k].read
    <2>1. mailbox \in Seq(Message) /\ DOMAIN mailbox = 1 .. Len(mailbox) /\ Len(mailbox) \in Nat
      BY <1>1 DEF MailInv
    <2> DEFINE Marked(k) == IF k \in Unread(i) THEN [mailbox[k] EXCEPT !.read = TRUE]
                            ELSE mailbox[k]
    <2>2. ASSUME NEW k \in 1 .. Len(mailbox)
          PROVE  /\ Marked(k) \in Message /\ Marked(k).to = mailbox[k].to
                 /\ mailbox[k].read => Marked(k).read
                 /\ k \in Unread(i) => Marked(k).read
      <3>1. mailbox[k] \in Message
        <4> HIDE DEF Message
        <4> QED
          BY <2>1
      <3>2. PICK m \in Message : m = mailbox[k]
        BY <3>1
      <3>3. Marked(k) = IF k \in Unread(i) THEN [m EXCEPT !.read = TRUE] ELSE m
        BY <3>2
      <3> HIDE DEF Marked
      <3> QED
        BY <3>2, <3>3
    <2>3. mailbox' = [k \in 1 .. Len(mailbox) |-> Marked(k)]
      BY <1>2, <2>1
    <2> HIDE DEF Marked, Message
    <2>4. mailbox' \in Seq(Message) /\ Len(mailbox') = Len(mailbox)
      BY <2>1, <2>2, <2>3
    <2> QED
      BY <2>2, <2>3, <2>4
  <1>10. Unread(i) \subseteq 1 .. Len(mailbox)
    BY <1>1 DEF Unread, MailInv
  <1>11. got' \in [Subs -> SUBSET (1 .. Len(mailbox))]
    BY <1>1, <1>2, <1>10 DEF MailInv
  <1>12. ASSUME NEW j \in Subs
         PROVE  got'[j] = IF j = i THEN got[i] \cup Unread(i) ELSE got[j]
    BY <1>1, <1>2 DEF MailInv
  <1>13. ASSUME NEW j \in Subs, NEW k \in got[j]
         PROVE  k \in 1 .. Len(mailbox) /\ mailbox[k].read /\ mailbox[k].to \in {j, "*"}
    BY <1>1 DEF MailInv, ReadAtMostOnce
  <1>14. \A k \in Unread(i) : ~mailbox[k].read /\ mailbox[k].to \in {i, "*"}
    BY DEF Unread
  <1>15. MailInv'
    <2>1. \A j \in Subs : \A k \in got'[j] : mailbox'[k].read
      BY <1>9, <1>10, <1>12, <1>13
    <2> QED
      BY <1>9, <1>11, <2>1 DEF MailInv
  <1>16. ReadAtMostOnce'
    <2> SUFFICES ASSUME NEW a \in Subs, NEW b \in Subs
                 PROVE  /\ a # b => got'[a] \cap got'[b] = {}
                        /\ \A k \in got'[a] : mailbox'[k].to \in {a, "*"}
      BY DEF ReadAtMostOnce
    <2>1. a # b => got'[a] \cap got'[b] = {}
      <3>1. a # b => got[a] \cap got[b] = {}
        BY <1>1 DEF ReadAtMostOnce
      <3> QED
        BY <1>12, <1>13, <1>14, <3>1
    <2>2. \A k \in got'[a] : mailbox'[k].to \in {a, "*"}
      BY <1>9, <1>10, <1>12, <1>13, <1>14
    <2> QED
      BY <2>1, <2>2
  <1> QED
    BY <1>3, <1>5, <1>6, <1>7, <1>8, <1>15, <1>16, <1>17 DEF SubInv

(* A child goes on, having counted more, perhaps with a message.           *)
LEMMA GoesOnStep ==
  ASSUME SubInv, NEW i \in Subs, sub[i] = "called", GoesOn(i), NEW more \in Nat,
         total' = [total EXCEPT ![i] = @ + more], used' = [used EXCEPT ![i] = @ + more],
         total[i] + more <= Share * grant[i] + Overrun,
         \/ UNCHANGED mailbox
         \/ \E to \in Subs \cup {"*"} : mailbox' = Append(mailbox, [to |-> to, read |-> FALSE])
  PROVE  SubInv'
  <1> USE SubtasksAssumptions
  <1>1. /\ SubtasksTypeOK /\ CostInv /\ ChildInv /\ ReportInv
        /\ TaskInv /\ TasksSettle /\ MailInv /\ ReadAtMostOnce
    BY DEF SubInv
  <1>2. /\ childTurn' = [childTurn EXCEPT ![i] = @ + 1]
        /\ sub' = [sub EXCEPT ![i] = "top"]
        /\ UNCHANGED <<failed, grant, reported, costAccum, escalated, rollup, parentCost, runCtx,
                       task, taskRow, notified, got, writeFaults>>
    BY DEF GoesOn, taskVars, parentVars
  <1>3. /\ total[i] \in Nat /\ used[i] \in Nat /\ grant[i] \in Nat /\ grant[i] > 0
        /\ childTurn[i] \in Nat /\ childTurn[i] < MaxChildTurns
    <2>1. total[i] \in Nat /\ used[i] \in Nat /\ grant[i] \in Nat /\ childTurn[i] \in Nat
      BY <1>1, SubNumbers
    <2>2. grant[i] > 0 /\ childTurn[i] < MaxChildTurns
      BY <1>1 DEF ChildInv
    <2> QED
      BY <2>1, <2>2
  <1>4. SubtasksTypeOK'
    <2>1. total' \in [Subs -> Nat] /\ used' \in [Subs -> Nat]
      <3>1. total \in [Subs -> Nat] /\ used \in [Subs -> Nat]
        BY <1>1 DEF SubtasksTypeOK
      <3>2. total[i] + more \in Nat /\ used[i] + more \in Nat
        BY <1>3
      <3> QED
        BY <3>1, <3>2
    <2>2. childTurn' \in [Subs -> 0 .. MaxChildTurns]
      <3>1. childTurn \in [Subs -> 0 .. MaxChildTurns]
        BY <1>1 DEF SubtasksTypeOK
      <3>2. childTurn[i] + 1 \in 0 .. MaxChildTurns
        BY <1>3
      <3> QED
        BY <1>2, <3>1, <3>2
    <2> QED
      BY <1>1, <1>2, <2>1, <2>2 DEF SubtasksTypeOK
  <1>5. /\ sub'[i] = "top" /\ total'[i] = total[i] + more /\ used'[i] = used[i] + more
        /\ \A j \in Subs : j # i => /\ sub'[j] = sub[j] /\ total'[j] = total[j]
                                    /\ used'[j] = used[j] /\ childTurn'[j] = childTurn[j]
    BY <1>1, <1>2 DEF SubtasksTypeOK
  <1>6. CostInv'
    <2>1. Settled'[i] = Settled[i] /\ Committed'[i] = Committed[i]
      BY <1>2, <1>5 DEF Settled, Committed
    <2> QED
      BY <1>1, <1>2, <1>4, <1>5, <2>1, CostsKept
  <1>7. ChildInv'
    <2> SUFFICES ASSUME NEW j \in Subs
                 PROVE  /\ grant[j] <= Remaining
                        /\ grant[j] = 0 \/ sub'[j] \in {"waiting", "created", "unfunded"} =>
                             total'[j] = 0
                        /\ sub'[j] \in {"top", "called"} =>
                             grant[j] > 0 /\ total'[j] <= Share * grant[j] + Overrun
                        /\ sub'[j] = "called" => childTurn'[j] < MaxChildTurns
      BY <1>2 DEF ChildInv
    <2>1. CASE j = i
      <3>1. grant[i] <= Remaining
        BY <1>1 DEF ChildInv
      <3> QED
        BY <1>3, <1>5, <2>1, <3>1
    <2>2. CASE j # i
      BY <1>1, <1>5, <2>2 DEF ChildInv
    <2> QED
      BY <2>1, <2>2
  <1>14. ReportInv'
    <2>1. i \notin escalated /\ used[i] = total[i] /\ reported[i] = 0
      BY <1>1 DEF ReportInv
    <2> QED
      BY <1>1, <1>2, <1>5, <2>1, ReportKept DEF parentVars
  <1>8. TaskInv'
    BY <1>1, <1>2, <1>5 DEF TaskInv, Active
  <1>9. TasksSettle'
    BY <1>1, <1>2, <1>5 DEF TasksSettle
  <1> DEFINE Message == [to : Subs \cup {"*"}, read : BOOLEAN]
  <1>10. /\ mailbox' \in Seq(Message) /\ Len(mailbox) \in Nat /\ Len(mailbox) <= Len(mailbox')
         /\ \A k \in 1 .. Len(mailbox) : mailbox'[k] = mailbox[k]
    <2>1. mailbox \in Seq(Message)
      BY <1>1 DEF MailInv
    <2>2. CASE UNCHANGED mailbox
      BY <2>1, <2>2
    <2>3. CASE \E to \in Subs \cup {"*"} : mailbox' = Append(mailbox, [to |-> to, read |-> FALSE])
      <3>1. PICK m \in Message : mailbox' = Append(mailbox, m)
        BY <2>3
      <3> HIDE DEF Message
      <3> QED
        BY <2>1, <3>1
    <2> QED
      BY <2>2, <2>3
  <1>11. \A j \in Subs : got[j] \subseteq 1 .. Len(mailbox)
    BY <1>1 DEF MailInv
  <1>12. MailInv'
    <2>1. got' \in [Subs -> SUBSET (1 .. Len(mailbox'))]
      <3>1. 1 .. Len(mailbox) \subseteq 1 .. Len(mailbox')
        BY <1>10
      <3>2. got \in [Subs -> SUBSET (1 .. Len(mailbox))]
        BY <1>1 DEF MailInv
      <3> QED
        BY <1>2, <3>1, <3>2
    <2>2. \A j \in Subs : \A k \in got'[j] : mailbox'[k].read
      BY <1>1, <1>2, <1>10, <1>11 DEF MailInv
    <2> QED
      BY <1>10, <2>1, <2>2 DEF MailInv
  <1>13. ReadAtMostOnce'
    BY <1>1, <1>2, <1>10, <1>11 DEF ReadAtMostOnce
  <1> QED
    BY <1>4, <1>6, <1>7, <1>8, <1>9, <1>12, <1>13, <1>14 DEF SubInv

(* The turns after which a child goes on keep it within its commitment.    *)
LEMMA NextTurnStep ==
  ASSUME SubInv, NEW i \in Subs, NEW cost \in TurnCosts, NEW nested \in NestedCosts,
         NextTurn(i, cost, nested),
         \/ UNCHANGED mailbox
         \/ \E to \in Subs \cup {"*"} : mailbox' = Append(mailbox, [to |-> to, read |-> FALSE])
  PROVE  SubInv'
  <1>1. /\ sub[i] = "called" /\ total[i] + cost <= grant[i]
        /\ nested <= Most(NestedShare, NestedSlack, grant[i] - Truncated(total[i] + cost))
        /\ used' = [used EXCEPT ![i] = @ + cost + nested]
        /\ total' = [total EXCEPT ![i] = @ + cost + nested]
        /\ GoesOn(i)
    BY DEF NextTurn, MayNest
  <1>2. SubtasksTypeOK
    BY DEF SubInv
  <1>3. /\ total[i] \in Nat /\ used[i] \in Nat /\ grant[i] \in Nat
        /\ cost \in Nat /\ nested \in Nat
    BY <1>2, SubNumbers, SubtasksAssumptions
  <1>4. PICK x \in Nat : x = total[i] + cost
    BY <1>3
  <1>5. x + nested <= Share * grant[i] + Overrun
    BY <1>1, <1>3, <1>4, NestedWithin
  <1>6. PICK more \in Nat : more = cost + nested
    BY <1>3
  <1>7. total[i] + more = x + nested
    BY <1>3, <1>4, <1>6
  <1>8. total' = [total EXCEPT ![i] = @ + more] /\ used' = [used EXCEPT ![i] = @ + more]
    <2>1. total[i] + cost + nested = total[i] + more /\ used[i] + cost + nested = used[i] + more
      BY <1>3, <1>6
    <2>2. total' = [total EXCEPT ![i] = total[i] + cost + nested]
      BY <1>1, Zenon
    <2>3. used' = [used EXCEPT ![i] = used[i] + cost + nested]
      BY <1>1, Zenon
    <2> QED
      BY <2>1, <2>2, <2>3, Zenon
  <1> QED
    BY <1>1, <1>5, <1>7, <1>8, GoesOnStep

(* So does a reply that is not counted.                                    *)
LEMMA EmptyReplyStep ==
  ASSUME SubInv, NEW i \in Subs, EmptyReply(i)
  PROVE  SubInv'
  <1>1. sub[i] = "called" /\ GoesOn(i) /\ UNCHANGED <<total, used, mailbox>>
    BY DEF EmptyReply
  <1>2. SubtasksTypeOK /\ ChildInv
    BY DEF SubInv
  <1>3. total \in [Subs -> Nat] /\ used \in [Subs -> Nat]
    BY <1>2 DEF SubtasksTypeOK
  <1>4. PICK more \in Nat : more = 0
    OBVIOUS
  <1>5. total' = [total EXCEPT ![i] = @ + more] /\ used' = [used EXCEPT ![i] = @ + more]
    BY <1>1, <1>3, <1>4
  <1>6. total[i] + more <= Share * grant[i] + Overrun
    <2>1. total[i] + more = total[i]
      BY <1>3, <1>4
    <2> QED
      BY <1>1, <1>2, <2>1 DEF ChildInv
  <1> QED
    BY <1>1, <1>5, <1>6, GoesOnStep

(* A turn that its denials end: the child has counted no more than its     *)
(* grant.                                                                  *)
LEMMA EscalationStep ==
  ASSUME SubInv, NEW i \in Subs, NEW cost \in TurnCosts, NEW nested \in NestedCosts,
         NEW ok \in BOOLEAN, ChildEscalates(i, cost, nested, ok)
  PROVE  SubInv'
  <1>1. /\ sub[i] = "called" /\ total[i] + cost <= grant[i]
        /\ used' = [used EXCEPT ![i] = @ + cost + nested]
        /\ EndSubtask(i, TRUE, cost, ok) /\ escalated' = escalated \cup {i}
    BY DEF ChildEscalates, MayNest
  <1>2. SubtasksTypeOK /\ ChildInv
    BY DEF SubInv
  <1>3. /\ total[i] \in Nat /\ grant[i] \in Nat /\ cost \in 0 .. MaxTurnCost
        /\ nested \in Nat /\ used \in [Subs -> Nat] /\ i \in Active
    BY <1>1, <1>2, SubNumbers, SubtasksAssumptions DEF SubtasksTypeOK, Active
  <1>4. total[i] + cost <= Committed[i]
    <2>1. Committed[i] = Share * grant[i] + Slack
      BY <1>1, <1>2, WithinCommitment
    <2>2. 1 * grant[i] <= Share * grant[i]
      BY <1>3, CostConstants, ProductAtMost
    <2>3. PICK m \in Nat : m = Share * grant[i]
      BY <1>3, CostConstants, Product
    <2>4. grant[i] <= m
      BY <1>3, <2>2, <2>3
    <2>5. Committed[i] = m + Slack /\ Slack \in Nat /\ cost \in Nat
      BY <1>3, <2>1, <2>3, CostConstants
    <2> QED
      BY <1>1, <1>3, <2>4, <2>5
  <1>5. grant[i] = 0 => total[i] + cost = 0
    BY <1>1, <1>3
  <1>6. used' \in [Subs -> Nat] /\ (\A j \in Subs : j # i => used'[j] = used[j])
    <2>1. used[i] + cost + nested \in Nat
      BY <1>3
    <2> QED
      BY <1>1, <1>3, <2>1
  <1>7. i \in escalated' /\ escalated' \in {escalated, escalated \cup {i}}
    BY <1>1
  <1>8. PICK err \in BOOLEAN : err = TRUE
    OBVIOUS
  <1>9. EndSubtask(i, err, cost, ok)
    BY <1>1, <1>8, Zenon
  <1> QED
    BY <1>3, <1>4, <1>5, <1>6, <1>7, <1>9, EndStep

(* The end of the run changes nothing else.                                *)
LEMMA CancelStep ==
  ASSUME SubInv, RunCancelled \/ UNCHANGED subVars
  PROVE  SubInv'
  <1>1. /\ SubtasksTypeOK /\ CostInv /\ ChildInv /\ ReportInv
        /\ TaskInv /\ TasksSettle /\ MailInv /\ ReadAtMostOnce
    BY DEF SubInv
  <1>2. /\ UNCHANGED <<sub, failed, grant, total, reported, used, escalated, childTurn, costAccum,
                       rollup, parentCost, task, taskRow, notified, mailbox, got, writeFaults>>
        /\ runCtx' \in {runCtx, "ended"}
    BY DEF RunCancelled, subVars, childVars, costVars, parentVars, taskVars, mailVars
  <1>3. SubtasksTypeOK'
    BY <1>1, <1>2 DEF SubtasksTypeOK
  <1>4. CostInv'
    <2>1. Settled' = Settled /\ Committed' = Committed /\ Active' = Active
      BY <1>2 DEF Settled, Committed, Active
    <2> QED
      BY <1>1, <1>2, <2>1 DEF CostInv
  <1>5. ChildInv'
    BY <1>1, <1>2 DEF ChildInv
  <1>9. ReportInv'
    BY <1>1, <1>2 DEF ReportInv, TurnOver
  <1>6. TaskInv'
    BY <1>1, <1>2 DEF TaskInv, Active
  <1>7. TasksSettle'
    BY <1>1, <1>2 DEF TasksSettle
  <1>8. MailInv' /\ ReadAtMostOnce'
    BY <1>1, <1>2 DEF MailInv, ReadAtMostOnce
  <1> QED
    BY <1>3, <1>4, <1>5, <1>6, <1>7, <1>8, <1>9 DEF SubInv

(* The parent goes on, charged what its sub-agents report.                 *)
LEMMA ParentStep ==
  ASSUME SubInv, ParentEscalates \/ ParentCharged
  PROVE  SubInv'
  <1>1. /\ SubtasksTypeOK /\ CostInv /\ ChildInv /\ ReportInv
        /\ TaskInv /\ TasksSettle /\ MailInv /\ ReadAtMostOnce
    BY DEF SubInv
  <1>2. /\ rollup = "open" /\ TurnOver
        /\ \/ rollup' = "escalated" /\ parentCost' = parentCost
           \/ rollup' = "charged" /\ parentCost' = parentCost + SumOf(reported)
        /\ UNCHANGED <<sub, failed, grant, total, reported, used, escalated, childTurn, costAccum,
                       runCtx, task, taskRow, notified, mailbox, got, writeFaults>>
    BY DEF ParentEscalates, ParentCharged, ParentGoesOn, childVars, costVars, taskVars, mailVars
  <1>3. SumOf(reported) = SumOver(total, Subs) /\ SumOver(total, Subs) \in Nat
    <2>1. reported \in [Subs -> Nat] /\ total \in [Subs -> Nat]
      BY <1>1 DEF SubtasksTypeOK
    <2>2. \A i \in Subs : reported[i] = total[i]
      BY <1>1, <1>2 DEF ReportInv, TurnOver
    <2>3. SumOver(reported, Subs) = SumOver(total, Subs)
      BY <2>1, <2>2, SumAgree
    <2>4. SumOver(total, Subs) \in Nat
      BY <2>1, SumIsNat
    <2> QED
      BY <2>3, <2>4, SumIsFold
  <1>4. parentCost = InitialCost /\ parentCost \in Nat
    BY <1>1, <1>2 DEF ReportInv, SubtasksTypeOK
  <1>5. SubtasksTypeOK'
    <2>1. parentCost' \in Nat /\ rollup' \in {"open", "charged", "escalated"}
      BY <1>2, <1>3, <1>4
    <2> QED
      BY <1>1, <1>2, <2>1 DEF SubtasksTypeOK
  <1>6. CostInv'
    <2>1. Settled' = Settled /\ Committed' = Committed /\ Active' = Active
      BY <1>2 DEF Settled, Committed, Active
    <2> QED
      BY <1>1, <1>2, <2>1 DEF CostInv
  <1>7. ChildInv'
    BY <1>1, <1>2 DEF ChildInv
  <1>8. ReportInv'
    <2>1. total' = total /\ TurnOver' /\ rollup' # "open"
      BY <1>2 DEF TurnOver
    <2>2. rollup' = "charged" => parentCost' = InitialCost + SumOver(total, Subs)
      BY <1>2, <1>3, <1>4
    <2>3. (\A i \in Subs : /\ sub[i] = "done" => reported[i] = total[i]
                           /\ sub[i] # "done" => i \notin escalated /\ reported[i] = 0
                           /\ i \notin escalated => used[i] = total[i])'
      BY <1>1, <1>2 DEF ReportInv
    <2> QED
      BY <2>1, <2>2, <2>3 DEF ReportInv
  <1>9. TaskInv' /\ TasksSettle'
    BY <1>1, <1>2 DEF TaskInv, TasksSettle, Active
  <1>10. MailInv' /\ ReadAtMostOnce'
    BY <1>1, <1>2 DEF MailInv, ReadAtMostOnce
  <1> QED
    BY <1>5, <1>6, <1>7, <1>8, <1>9, <1>10 DEF SubInv

(* The invariant holds when the turn starts.                               *)
LEMMA SubtasksStart == SubtasksInit => SubInv
  <1> SUFFICES ASSUME SubtasksInit PROVE SubInv
    OBVIOUS
  <1> USE SubtasksAssumptions
  <1>1. SubtasksTypeOK
    <2>1. Truncated(InitialCost) \in Nat /\ InitialCost \in Nat
      BY CostConstants
    <2> QED
      BY <2>1 DEF SubtasksInit, SubtasksTypeOK, TaskStatus
  <1>2. CostInv
    <2>1. \A i \in Subs : Settled[i] = 0 /\ Committed[i] = 0
      BY DEF SubtasksInit, Settled, Committed
    <2>2. SumOver(Settled, Subs) = 0 /\ SumOver(Committed, Subs) = 0
      BY <1>1, <2>1, CostFunctions, SumZero
    <2>3. Active = {} /\ Cardinality({}) = 0
      BY FS_EmptySet DEF SubtasksInit, Active
    <2>4. SubagentSlots * SlotShare \in Nat
      BY CostConstants
    <2>5. costAccum = Truncated(InitialCost) /\ Truncated(InitialCost) \in Nat
      BY CostConstants DEF SubtasksInit
    <2>6. 0 <= SubagentSlots * SlotShare /\ 0 <= SubagentSlots
      BY <2>4
    <2> QED
      <3>1. costAccum = Truncated(InitialCost) + SumOver(Settled, Subs)
        BY <2>2, <2>5
      <3>2. SumOver(Committed, Subs) <= SubagentSlots * SlotShare
        BY <2>2, <2>6
      <3>3. Cardinality(Active) <= SubagentSlots
        BY <2>3, <2>6
      <3> QED
        BY <3>1, <3>2, <3>3, Zenon DEF CostInv
  <1>3. ChildInv
    <2>1. 0 <= Remaining
      BY CostConstants
    <2> QED
      BY <2>1 DEF SubtasksInit, ChildInv
  <1>6. TaskInv /\ TasksSettle
    BY DEF SubtasksInit, TaskInv, TasksSettle, Active
  <1>5. ReportInv
    BY DEF SubtasksInit, ReportInv
  <1>4. MailInv /\ ReadAtMostOnce
    BY DEF SubtasksInit, MailInv, ReadAtMostOnce
  <1> QED
    BY <1>1, <1>2, <1>3, <1>4, <1>5, <1>6 DEF SubInv

(* Every step preserves it.                                                *)
LEMMA SubtasksSteps == SubInv /\ [SubtasksNext]_subVars => SubInv'
  <1> SUFFICES ASSUME SubInv, [SubtasksNext]_subVars PROVE SubInv'
    OBVIOUS
  <1> USE SubtasksAssumptions
  <1>1. SubtasksTypeOK /\ ChildInv
    BY DEF SubInv
  <1>2. ASSUME NEW i \in Subs, SubStep(i)
        PROVE  SubInv'
    <2>1. sub[i] \in {"unfunded", "top", "called"} => i \in Active /\ total[i] <= Committed[i]
      BY <1>1, WithinCommitment DEF Active
    <2>2. ASSUME InvalidCall(i) PROVE SubInv'
      BY <2>2, InvalidStep
    <2>3. ASSUME CallModel(i) PROVE SubInv'
      BY <2>3, CallModelStep
    <2>4. ASSUME NEW ok \in BOOLEAN, StartSubtask(i, ok) PROVE SubInv'
      BY <2>4, StartStep
    <2>5. ASSUME NEW ok \in BOOLEAN, AssignTask(i, ok) PROVE SubInv'
      BY <2>5, AssignStep
    <2>6. ASSUME NEW ok \in BOOLEAN, NoBudget(i, ok) PROVE SubInv'
      <3>1. i \in Active /\ EndsFree(i, ok) /\ total[i] <= Committed[i]
        BY <2>1, <2>6 DEF NoBudget
      <3> QED
        BY <3>1, FreeEndStep
    <2>7. ASSUME NEW ok \in BOOLEAN, LimitReached(i, ok) PROVE SubInv'
      <3>1. i \in Active /\ EndsFree(i, ok) /\ total[i] <= Committed[i]
        BY <2>1, <2>7 DEF LimitReached
      <3> QED
        BY <3>1, FreeEndStep
    <2>8. ASSUME NEW ok \in BOOLEAN, CallFailed(i, ok) PROVE SubInv'
      <3>1. i \in Active /\ EndsFree(i, ok) /\ total[i] <= Committed[i]
        BY <2>1, <2>8 DEF CallFailed
      <3> QED
        BY <3>1, FreeEndStep
    <2>9. ASSUME NEW ok \in BOOLEAN, NEW cost \in TurnCosts, NEW warned \in BOOLEAN,
                 ChildStops(i, cost, warned, ok)
          PROVE  SubInv'
      <3>1. PICK err \in BOOLEAN : err = (warned \/ total[i] + cost > grant[i])
        OBVIOUS
      <3>2. /\ sub[i] = "called" /\ EndSubtask(i, err, cost, ok)
            /\ used' = [used EXCEPT ![i] = @ + cost] /\ escalated' = escalated
        BY <2>9, <3>1 DEF ChildStops
      <3>3. cost \in 0 .. MaxTurnCost /\ cost \in Nat /\ used \in [Subs -> Nat]
        BY <1>1 DEF SubtasksTypeOK
      <3>4. grant[i] > 0 /\ total[i] <= Share * grant[i] + Overrun
        BY <1>1, <3>2 DEF ChildInv
      <3>5. total[i] + cost <= Committed[i]
        <4>1. PICK m \in Nat : m = Share * grant[i]
          BY <1>1, SubNumbers, CostConstants, Product
        <4>2. /\ Committed[i] = m + Slack /\ total[i] <= m + Overrun /\ total[i] \in Nat
              /\ Slack = Overrun + MaxTurnCost /\ Overrun \in Nat
          BY <1>1, <3>2, <3>4, <4>1, WithinCommitment, CostConstants
        <4>3. cost <= MaxTurnCost
          BY <3>3
        <4> QED
          BY <3>3, <4>2, <4>3
      <3>6. used' \in [Subs -> Nat] /\ used'[i] = used[i] + cost
            /\ \A j \in Subs : j # i => used'[j] = used[j]
        BY <3>2, <3>3
      <3>7. i \in Active /\ (grant[i] = 0 => total[i] + cost = 0)
        BY <2>1, <3>2, <3>4
      <3>8. escalated' \in {escalated, escalated \cup {i}}
        BY <3>2
      <3> QED
        BY <3>2, <3>3, <3>5, <3>6, <3>7, <3>8, EndStep
    <2>10. ASSUME NEW cost \in TurnCosts, NEW nested \in NestedCosts,
                  ChildGoesOn(i, cost, nested)
           PROVE  SubInv'
      BY <2>10, NextTurnStep DEF ChildGoesOn
    <2>11. ASSUME NEW cost \in TurnCosts, NEW nested \in NestedCosts,
                  NEW to \in Subs \cup {"*"}, SendAgent(i, cost, nested, to)
           PROVE  SubInv'
      BY <2>11, NextTurnStep DEF SendAgent
    <2>12. ASSUME NEW cost \in TurnCosts, NEW nested \in NestedCosts, NEW ok \in BOOLEAN,
                  ChildEscalates(i, cost, nested, ok)
           PROVE  SubInv'
      BY <2>12, EscalationStep
    <2>13. ASSUME EmptyReply(i) PROVE SubInv'
      BY <2>13, EmptyReplyStep
    <2> QED
      BY <1>2, <2>2, <2>3, <2>4, <2>5, <2>6, <2>7, <2>8, <2>9, <2>10, <2>11, <2>12, <2>13
      DEF SubStep
  <1> QED
    BY <1>2, CancelStep, ParentStep DEF SubtasksNext

(* When a turn is over its sub-agents are accounted for.  A parent that    *)
(* goes on is charged all that they have counted, failed or not, which is  *)
(* all they have cost unless a denial escalation dropped some of it; the   *)
(* tracker is never ahead of that, and behind by less than a micro-dollar  *)
(* for each; every task that was created is settled; and no message was    *)
(* read twice.                                                             *)
THEOREM SubtasksAccounted == SubtasksSpec => []SubtasksSettle
  <1>1. SubInv => SubtasksSettle
    <2> SUFFICES ASSUME SubInv PROVE SubtasksSettle
      OBVIOUS
    <2> USE SubtasksAssumptions
    <2>1. SubtasksTypeOK /\ CostInv /\ ReportInv /\ TasksSettle /\ ReadAtMostOnce
      BY DEF SubInv
    <2>2. /\ total \in [Subs -> Nat] /\ used \in [Subs -> Nat]
          /\ Settled \in [Subs -> Nat]
      BY <2>1, CostFunctions DEF SubtasksTypeOK
    <2>3. PICK sum \in Nat : sum = SumOver(total, Subs)
      BY <2>2, SumIsNat
    <2>4. rollup = "charged" => parentCost = InitialCost + SumOf(total)
      BY <2>1, SumIsFold DEF ReportInv
    <2>5. ASSUME rollup = "charged", escalated = {}
          PROVE  parentCost = InitialCost + SumOf(used)
      <3>1. \A i \in Subs : used[i] = total[i]
        BY <2>1, <2>5 DEF ReportInv
      <3>2. SumOver(used, Subs) = SumOver(total, Subs)
        BY <2>2, <3>1, SumAgree
      <3> QED
        BY <2>4, <2>5, <3>2, SumIsFold
    <2>6. ASSUME TurnOver
          PROVE  /\ costAccum <= InitialCost + SumOf(total)
                 /\ InitialCost + SumOf(total)
                      <= costAccum + (Cardinality(Subs) + 1) * (Unit - 1)
      <3>1. \A i \in Subs : /\ Settled[i] <= total[i]
                            /\ total[i] <= Settled[i] + (Unit - 1)
        <4>1. \A i \in Subs : Settled[i] = Truncated(total[i]) /\ total[i] \in Nat
          BY <2>2, <2>6 DEF TurnOver, Settled
        <4> QED
          BY <4>1, TruncatedCost
      <3>2. PICK u \in Nat : u = Unit - 1
        OBVIOUS
      <3>3. PICK n \in Nat : n = Cardinality(Subs)
        BY FS_CardinalityType
      <3>4. PICK held \in Nat : held = SumOver(Settled, Subs)
        BY <2>2, SumIsNat
      <3>5. held <= sum
        BY <2>2, <2>3, <3>1, <3>4, SumAtMost
      <3>6. sum <= held + n * u
        BY <2>2, <2>3, <3>1, <3>2, <3>3, <3>4, SumExceeds
      <3>7. PICK nu \in Nat : nu = n * u
        BY Product
      <3>8. (n + 1) * u = nu + u
        BY <3>7
      <3>9. PICK start \in Nat : /\ start = Truncated(InitialCost)
                                 /\ start <= InitialCost /\ InitialCost <= start + u
        BY <3>2, CostConstants
      <3>10. costAccum = start + held
        BY <2>1, <3>4, <3>9 DEF CostInv
      <3>11. SumOf(total) = sum /\ InitialCost \in Nat
        BY <2>3, SumIsFold
      <3>12. start + held <= InitialCost + sum
        BY <3>5, <3>9, <3>11
      <3>13. InitialCost + sum <= (start + held) + (nu + u)
        BY <3>6, <3>7, <3>9, <3>11
      <3> QED
        BY <3>2, <3>3, <3>8, <3>10, <3>11, <3>12, <3>13
    <2>7. CostsAddUp
      BY <2>4, <2>5, <2>6 DEF CostsAddUp
    <2> QED
      BY <2>1, <2>7 DEF SubtasksSettle
  <1> QED
    BY <1>1, SubtasksStart, SubtasksSteps, PTL DEF SubtasksSpec

(* What the sub-agents of a turn count together, run side by side and with *)
(* sub-agents of their own below them, is bounded by a multiple of what    *)
(* was left of the budget, and a slack: the same kind of bound as the one  *)
(* assumed of the level below.  So it holds, with larger numbers, for      *)
(* every depth.                                                            *)
THEOREM OverspendIsBounded == SubtasksSpec => []OverspendBounded
  <1>1. SubInv => OverspendBounded
    <2> SUFFICES ASSUME SubInv PROVE OverspendBounded
      OBVIOUS
    <2> USE SubtasksAssumptions
    <2>1. SubtasksTypeOK /\ CostInv /\ ChildInv
      BY DEF SubInv
    <2>2. total \in [Subs -> Nat] /\ Committed \in [Subs -> Nat]
      BY <2>1, CostFunctions DEF SubtasksTypeOK
    <2>3. PICK sum \in Nat : sum = SumOver(total, Subs)
      BY <2>2, SumIsNat
    <2>4. CASE Remaining > 0
      <3>1. PICK u \in Nat : u = Unit - 1
        OBVIOUS
      <3>2. PICK n \in Nat : n = Cardinality(Subs)
        BY FS_CardinalityType
      <3>3. PICK most \in Nat : most = SumOver(Committed, Subs)
        BY <2>2, SumIsNat
      <3>4. sum <= most + n * u
        <4>1. \A i \in Subs : total[i] <= Committed[i] + u
          BY <2>1, <3>1, WithinCommitment
        <4> QED
          BY <2>2, <2>3, <3>2, <3>3, <4>1, SumExceeds
      <3>5. most <= SubagentSlots * SlotShare
        BY <2>1, <3>3 DEF CostInv
      <3>6. PICK k \in Nat, sh \in Nat, sl \in Nat, rem \in Nat :
              /\ k = SubagentSlots /\ sh = Share /\ sl = Slack /\ rem = Remaining
        BY CostConstants
      <3>7. PICK sr \in Nat : sr = sh * rem
        BY Product
      <3>8. SubagentSlots * SlotShare = k * sr + k * sl
        <4>1. SlotShare = sr + sl
          BY <3>6, <3>7 DEF SlotShare
        <4>2. k * (sr + sl) = k * sr + k * sl
          OBVIOUS
        <4> QED
          BY <3>6, <4>1, <4>2
      <3>9. k * sr = (k * sh) * rem
        <4>1. k * (sh * rem) = (k * sh) * rem
          OBVIOUS
        <4> QED
          BY <3>7, <4>1
      <3>10. PICK nu \in Nat, ks \in Nat, kr \in Nat : nu = n * u /\ ks = k * sl /\ kr = k * sr
        BY Product
      <3>11. TurnShare * Remaining = kr
        BY <3>6, <3>9, <3>10 DEF TurnShare
      <3>12. TurnSlack = ks + nu
        BY <3>1, <3>2, <3>6, <3>10 DEF TurnSlack
      <3>13. sum <= kr + (ks + nu)
        BY <3>3, <3>4, <3>5, <3>8, <3>10
      <3> QED
        BY <2>3, <2>4, <3>11, <3>12, <3>13, SumIsFold DEF OverspendBounded, Most
    <2>5. CASE ~(Remaining > 0)
      <3>1. \A i \in Subs : total[i] = 0
        <4>1. \A i \in Subs : grant[i] \in Nat /\ grant[i] <= Remaining /\ Remaining \in Nat
          BY <2>1, SubNumbers, CostConstants DEF ChildInv
        <4>2. \A i \in Subs : grant[i] = 0
          BY <2>5, <4>1
        <4> QED
          BY <2>1, <4>2 DEF ChildInv
      <3>2. SumOver(total, Subs) = 0
        BY <2>2, <3>1, SumZero
      <3> QED
        BY <2>5, <3>2, SumIsFold DEF OverspendBounded, Most
    <2> QED
      BY <2>4, <2>5
  <1> QED
    BY <1>1, SubtasksStart, SubtasksSteps, PTL DEF SubtasksSpec
=============================================================================
