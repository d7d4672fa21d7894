----------------------------- MODULE ModelCall ------------------------------
(***************************************************************************)
(* One query of the agentic loop to the language model                     *)
(* (internal/domain/chat/agentic/retry.go, streamfallback.go): attempts on *)
(* the primary model with a pause between them, one request without        *)
(* streaming, and the fallback models in order.                            *)
(*                                                                         *)
(* An error is the class its text falls into; the code recognises errors   *)
(* by substrings, and one error is often in several classes.               *)
(***************************************************************************)
EXTENDS Integers, Sequences

CONSTANTS MaxAttempts,    \* config.RetryMaxAttempts
          Fallbacks,      \* MaxRetries of each configured fallback step
          FallbackOn,     \* the error types the configuration falls back on
          Foreground      \* the query blocks a user

ASSUME ModelCallAssumption ==
  /\ MaxAttempts \in Nat
  /\ Fallbacks \in Seq(Nat)
  /\ FallbackOn \subseteq {"rate_limit", "overload", "timeout"}
  /\ Foreground \in BOOLEAN

VARIABLES at,         \* "attempt", "backoff", "nonStreaming" or "returned"
          model,      \* 0 for the primary, i for Fallbacks[i]
          attempt,    \* retryStream's attempt
          overloads,  \* retryStream's consecutive529
          primaryErr, \* the error the primary model ended with, or "none"
          answer,     \* what the query returned: "none" yet, "stream" or an error
          ctxOver,    \* the context of the call was cancelled or timed out
          streams,    \* history: ChatStream calls per model
          chats,      \* history: Chat calls
          inRow       \* history: 529s in a row from the model being tried

callVars == <<at, model, attempt, overloads, primaryErr, answer, ctxOver,
              streams, chats, inRow>>

(* "too_long_429" is a prompt that is too long by a number of tokens with  *)
(* the digits 429 in it, which is also a rate limit to the code that looks *)
(* for one.                                                                *)
Errors == {"aborted", "media_size", "too_long", "too_long_429", "429", "529",
           "503", "timeout", "reset", "404", "temporary", "other"}

(* The errors retryStream tries again after: the first four of Errors are  *)
(* recognised before isTransientError is asked.                            *)
isTransientError(e) == e \in {"429", "529", "503", "timeout", "reset", "temporary"}
isOverloadError(e) == e = "529"
isStreamingFallbackEligible(e) == e \in {"404", "reset", "529"}

(* classifyTransientError; a 529 counts as a rate limit.                   *)
classifyTransientError(e) ==
  CASE e \in {"429", "529", "too_long_429"} -> "rate_limit"
    [] e = "503"            -> "overload"
    [] e \in {"timeout", "reset"} -> "timeout"
    [] OTHER                -> "unknown"

alwaysFallback(e) == TRUE   \* mutant: the error's type is not looked at
shouldFallback(e) == classifyTransientError(e) \in FallbackOn

AtLeastOnce(n) == IF n > 1 THEN n ELSE 1

(* fallbackAttempts.                                                       *)
fallbackAttempts(i) == AtLeastOnce(Fallbacks[i])

max529Retries == 3

attemptsOf(m) == IF m = 0 THEN AtLeastOnce(MaxAttempts) ELSE fallbackAttempts(m)

-----------------------------------------------------------------------------
CallInit ==
  /\ at = "attempt" /\ model = 0 /\ attempt = 1 /\ overloads = 0
  /\ primaryErr = "none" /\ answer = "none" /\ ctxOver = FALSE
  /\ streams = [m \in 0..Len(Fallbacks) |-> 0] /\ chats = 0 /\ inRow = 0

(* The query returns r: a stream, or an error.                             *)
ReturnResult(r) ==
  /\ at' = "returned"
  /\ answer' = r
  /\ UNCHANGED <<model, attempt, overloads>>

(* Start retryStream on fallback i.                                        *)
StartModel(i) ==
  /\ at' = "attempt" /\ model' = i /\ attempt' = 1 /\ overloads' = 0
  /\ UNCHANGED answer

(* The loop over the fallbacks: the error of a fallback is logged and      *)
(* dropped, whatever it is; when none is left the primary's is returned.   *)
NextFallback(i, primary) ==
  IF i <= Len(Fallbacks) THEN StartModel(i) ELSE ReturnResult(primary)

(* After the primary model, and after the request without streaming (its   *)
(* error is given when there is no fallback to go to).                     *)
AfterPrimary(primary, err) ==
  IF Len(Fallbacks) = 0 \/ ~shouldFallback(primary)
  THEN ReturnResult(IF Len(Fallbacks) = 0 THEN err ELSE primary)
  ELSE NextFallback(1, primary)

(* retryStream gives up on the current model with error e.                 *)
GiveUp(e) ==
  IF model > 0
  THEN NextFallback(model + 1, primaryErr) /\ UNCHANGED primaryErr
  ELSE /\ primaryErr' = e
       /\ IF isStreamingFallbackEligible(e)
          THEN at' = "nonStreaming" /\ UNCHANGED <<model, attempt, overloads, answer>>
          ELSE AfterPrimary(e, e)

(* retryStream retries no error after the last attempt, and no overload    *)
(* that is the third in a row or that came to a background query.          *)
Retries(e, row) ==
  /\ isTransientError(e)
  /\ isOverloadError(e) => row < max529Retries /\ Foreground
  /\ attempt < attemptsOf(model)

(* One ChatStream call.  With a single attempt retryStream makes the call  *)
(* and returns what it gives.                                              *)
ChatStream(outcome) ==
  /\ at = "attempt"
  /\ outcome = "aborted" => ctxOver
  /\ streams' = [streams EXCEPT ![model] = @ + 1]
  /\ inRow' = IF isOverloadError(outcome) THEN (IF attempt = 1 THEN 1 ELSE inRow + 1) ELSE 0
  /\ LET row == IF isOverloadError(outcome) THEN overloads + 1 ELSE 0
     IN  IF outcome = "stream"
         THEN ReturnResult("stream") /\ UNCHANGED primaryErr
         ELSE IF Retries(outcome, row)
         THEN /\ at' = "backoff" /\ overloads' = row
              /\ UNCHANGED <<model, attempt, primaryErr, answer>>
         ELSE GiveUp(outcome)
  /\ UNCHANGED <<ctxOver, chats>>

(* The pause before the next attempt ends, or its context has ended; when  *)
(* both have, select takes either.                                         *)
Backoff ==
  /\ at = "backoff"
  /\ \/ /\ ctxOver
        /\ GiveUp("aborted")
     \/ /\ at' = "attempt" /\ attempt' = attempt + 1
        /\ UNCHANGED <<model, overloads, primaryErr, answer>>
  /\ UNCHANGED <<ctxOver, streams, chats, inRow>>

(* retryNonStreamingAfterStreamFailure: one Chat call.  Its answer is      *)
(* turned into a stream of text; the error wraps the streaming one.        *)
Chat(outcome) ==
  /\ at = "nonStreaming"
  /\ outcome = "aborted" => ctxOver
  /\ chats' = chats + 1
  /\ IF outcome = "stream" THEN ReturnResult("stream") ELSE AfterPrimary(primaryErr, outcome)
  /\ UNCHANGED <<primaryErr, ctxOver, streams, inRow>>

(* The run is cancelled, or LLMCallTimeout passes.                         *)
ContextEnds ==
  /\ at # "returned" /\ ~ctxOver
  /\ ctxOver' = TRUE
  /\ UNCHANGED <<at, model, attempt, overloads, primaryErr, answer, streams, chats, inRow>>

CallNext ==
  \/ \E o \in Errors \cup {"stream"} : ChatStream(o) \/ Chat(o)
  \/ Backoff
  \/ ContextEnds

CallSpec == CallInit /\ [][CallNext]_callVars

-----------------------------------------------------------------------------
(* A query makes no more requests than its configuration says: attempts    *)
(* are counted per model and not carried over, and overload is borne three *)
(* times in a row by one model and never twice by a background query.      *)
RequestsBounded ==
  /\ \A m \in DOMAIN streams : streams[m] <= attemptsOf(m)
  /\ chats <= 1
  /\ inRow <= (IF Foreground THEN max529Retries ELSE 1)

(* The loop recovers from a prompt that is too long by compacting, so that *)
(* error of the primary model comes back as it is: no retry, no other      *)
(* request and no fallback stands in for it (runner.go, isPromptTooLong).  *)
(* Whatever comes back after a fallback is the stream or the error that    *)
(* sent the query to the fallbacks, even if a fallback failed otherwise.   *)
ErrorsSurface ==
  /\ primaryErr \in {"too_long", "media_size", "aborted"} =>
       answer = primaryErr /\ chats = 0 /\ \A m \in 1..Len(Fallbacks) : streams[m] = 0
  /\ at = "returned" /\ model > 0 => answer \in {"stream", primaryErr}

(* What a query may cost and what the loop learns from it (retry.go,       *)
(* retryStreamWithFallbackSource).                                         *)
ModelCallSafe == RequestsBounded /\ ErrorsSurface
=============================================================================
