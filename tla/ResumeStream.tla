---------------------------- MODULE ResumeStream ----------------------------
(***************************************************************************)
(* The event stream of one chat run: the worker that fills the buffer, the *)
(* voice handler that adds a transcription to it, and the clients that     *)
(* follow the run through GET .../run/{runId}/resume                       *)
(* (internal/domain/chat/handler.go, resumeSession).                       *)
(*                                                                         *)
(* resumeSession takes the buffer's mutex anew for EventsSince, NewestSeq  *)
(* and IsDone, and writes frames in between without it; each of these is a *)
(* step here.  A client that loses its connection comes back with the id   *)
(* of the last frame it received as Last-Event-ID.                         *)
(***************************************************************************)
EXTENDS EventBuffer

CONSTANTS Clients,      \* the readers of the stream
          Requests,     \* ids of the user-input requests of the run
          Consents,     \* those whose answer no event announces
          VoiceRun,     \* the run was started by voice input
          MaxConnects   \* bound: connections of a client

ASSUME ClientAssumption ==
  /\ Consents \subseteq Requests
  /\ VoiceRun \in BOOLEAN
  /\ MaxConnects \in Nat

VARIABLES pc,           \* where resumeSession is, per client
          lastSent,     \* its local lastSent
          pending,      \* the events it still has to write
          fresh,        \* its local len(newEvents) > 0
          lastEventId,  \* client side: id of the last frame received, or 0
          transcribed,  \* the voice handler has appended its event
          waiting,      \* the requests whose answer the run is waiting for
          log,          \* history: every event appended, in order
          received,     \* history: the ids each client got, Overflow included
          connectedAt,  \* history: NewestSeq, Len(received) and waiting at
                        \* the connect
          connects      \* history: connections made

streamVars == <<pc, lastSent, pending, fresh, lastEventId>>
histVars == <<log, received, connectedAt, connects>>
runVars == <<transcribed, waiting>>
allVars == <<bufferVars, streamVars, runVars, histVars>>

(* What filterReplayableEvents tells apart: a request for user input, an   *)
(* event that resolves one (a tool_result, or a completed tool_progress,   *)
(* with the request's id), and everything else.                            *)
RunEvents ==
  [type : {"input_request", "tool_result"}, id : Requests] \cup
  [type : {"other"}, id : {"none"}]

ASSUME EventsAssumption == Events = RunEvents

(* The reconnect_overflow frame, which carries no id.                      *)
Overflow == 0

Off        == "off"          \* no request in progress
Overflowing == "overflow"    \* reconnect_overflow written
Replaying  == "replaying"    \* writing the replay
Polling    == "polling"      \* waiting for the ticker
Draining   == "draining"     \* writing the events of one tick
Closed     == "closed"       \* resumeSession returned: the run is done

Connected(c) == pc[c] \in {Overflowing, Replaying, Polling, Draining}

-----------------------------------------------------------------------------
(* The producers.                                                          *)

(* A request blocks the run until it is answered, so none is made while    *)
(* one with its id is open; afterwards the id may serve again: every       *)
(* consent for a tool has the id consent-<tool>-<runID>, and a call read   *)
(* from the model's text the id call_txt_<index>_<name>.  The answer to    *)
(* ask_user is followed by a completed tool_progress and, later, by a      *)
(* tool_result with the request's id; no event ever carries a consent's.   *)
CanEmit(ev) ==
  /\ ev.type = "input_request" => ev.id \notin waiting
  /\ ev.type = "tool_result" => ev.id \notin Consents

(* What the run waits for after the event.                                 *)
WaitingAfter(ev) ==
  CASE ev.type = "input_request" -> waiting \cup {ev.id}
    [] ev.type = "tool_result" -> waiting \ {ev.id}
    [] OTHER -> waiting

(* processTask's drain loop forwards the runner's events to the buffer...  *)
WorkerAppend(ev) ==
  /\ ~done
  /\ CanEmit(ev)
  /\ AppendEvent(ev)
  /\ log' = Append(log, ev)
  /\ waiting' = WaitingAfter(ev)
  /\ UNCHANGED <<streamVars, transcribed, received, connectedAt, connects>>

(* ... askConsentViaElicitation returns, without an event of its own ...   *)
ConsentDecided(r) ==
  /\ ~done
  /\ r \in waiting \cap Consents
  /\ waiting' = waiting \ {r}
  /\ UNCHANGED <<bufferVars, streamVars, transcribed, histVars>>

(* ... and its deferred MarkDone runs when it returns.                     *)
WorkerDone ==
  /\ ~done
  /\ MarkDone
  /\ UNCHANGED <<streamVars, runVars, histVars>>

(* voiceInput appends the transcription after EnqueueRun has returned, by  *)
(* which time a worker may have taken the task, and even finished it.      *)
AppendVoiceTranscriptionEvent ==
  /\ VoiceRun /\ ~transcribed
  /\ LET ev == [type |-> "other", id |-> "none"]
     IN  AppendEvent(ev) /\ log' = Append(log, ev)
  /\ transcribed' = TRUE
  /\ UNCHANGED <<streamVars, waiting, received, connectedAt, connects>>

-----------------------------------------------------------------------------
(* resumeSession.                                                          *)

FilterNothing(events) == events   \* mutant: the filter drops nothing

(* A request is stale when it is resolved later in the same replay.  The   *)
(* code compares with the first event that resolves it.                    *)
FilterReplayableEvents(events) ==
  LET resolvers(r) == {i \in DOMAIN events :
                         events[i].event = [type |-> "tool_result", id |-> r]}
      resolvedAt(r) == events[CHOOSE i \in resolvers(r) :
                                \A j \in resolvers(r) : i <= j].id
      stale(e) == /\ e.event.type = "input_request"
                  /\ resolvers(e.event.id) # {}
                  /\ e.id < resolvedAt(e.event.id)
  IN  KeepAt(events, {i \in DOMAIN events : ~stale(events[i])})

(* The request arrives with the client's Last-Event-ID; the replay is read *)
(* from the buffer in one call.  On overflow the notice is written first.  *)
ResumeSession(c) ==
  /\ pc[c] = Off
  /\ connects[c] < MaxConnects
  /\ connects' = [connects EXCEPT ![c] = @ + 1]
  /\ lastSent' = [lastSent EXCEPT ![c] = lastEventId[c]]
  /\ pending' = [pending EXCEPT ![c] =
                   FilterReplayableEvents(EventsSince(lastEventId[c]))]
  /\ connectedAt' = [connectedAt EXCEPT ![c] =
                       [seq |-> NewestSeq, len |-> Len(received[c]),
                        open |-> waiting]]
  /\ IF Overflowed(lastEventId[c])
     THEN /\ pc' = [pc EXCEPT ![c] = Overflowing]
          /\ received' = [received EXCEPT ![c] = Append(@, Overflow)]
     ELSE /\ pc' = [pc EXCEPT ![c] = Replaying]
          /\ UNCHANGED received
  /\ UNCHANGED <<bufferVars, fresh, lastEventId, runVars, log>>

(* After the notice, the stream continues from the newest event.           *)
SkipToNewest(c) ==
  /\ pc[c] = Overflowing
  /\ lastSent' = [lastSent EXCEPT ![c] = NewestSeq]
  /\ pc' = [pc EXCEPT ![c] = Replaying]
  /\ UNCHANGED <<bufferVars, pending, fresh, lastEventId, runVars, histVars>>

(* A slip of the next action, for the mutation checks: lastSent lags one   *)
(* frame behind.                                                           *)
SendLagging(c) ==
  /\ pc[c] \in {Replaying, Draining}
  /\ pending[c] # << >>
  /\ LET id == Head(pending[c]).id
     IN  /\ lastSent' = [lastSent EXCEPT ![c] = id - 1]
         /\ lastEventId' = [lastEventId EXCEPT ![c] = id]
         /\ received' = [received EXCEPT ![c] = Append(@, id)]
  /\ pending' = [pending EXCEPT ![c] = Tail(@)]
  /\ UNCHANGED <<bufferVars, pc, fresh, runVars, log, connectedAt, connects>>

(* One frame is written, flushed and received.                             *)
Send(c) ==
  /\ pc[c] \in {Replaying, Draining}
  /\ pending[c] # << >>
  /\ LET id == Head(pending[c]).id
     IN  /\ lastSent' = [lastSent EXCEPT ![c] = id]
         /\ lastEventId' = [lastEventId EXCEPT ![c] = id]
         /\ received' = [received EXCEPT ![c] = Append(@, id)]
  /\ pending' = [pending EXCEPT ![c] = Tail(@)]
  /\ UNCHANGED <<bufferVars, pc, fresh, runVars, log, connectedAt, connects>>

(* The replay is written: leave if the run is done, else start polling.    *)
CheckDone(c) ==
  /\ pc[c] = Replaying
  /\ pending[c] = << >>
  /\ pc' = [pc EXCEPT ![c] = IF IsDone THEN Closed ELSE Polling]
  /\ UNCHANGED <<bufferVars, lastSent, pending, fresh, lastEventId, runVars,
                 histVars>>

(* A slip of the next action, for the mutation checks: the tick starts at  *)
(* the newest event instead of the last one sent.                          *)
PollFromNewest(c) ==
  /\ pc[c] = Polling
  /\ LET newEvents == EventsSince(NewestSeq)
     IN  /\ pending' = [pending EXCEPT ![c] = newEvents]
         /\ fresh' = [fresh EXCEPT ![c] = newEvents # << >>]
  /\ pc' = [pc EXCEPT ![c] = Draining]
  /\ UNCHANGED <<bufferVars, lastSent, lastEventId, runVars, histVars>>

(* A tick: newEvents, _ := buf.EventsSince(lastSent).                      *)
Poll(c) ==
  /\ pc[c] = Polling
  /\ LET newEvents == EventsSince(lastSent[c])
     IN  /\ pending' = [pending EXCEPT ![c] = newEvents]
         /\ fresh' = [fresh EXCEPT ![c] = newEvents # << >>]
  /\ pc' = [pc EXCEPT ![c] = Draining]
  /\ UNCHANGED <<bufferVars, lastSent, lastEventId, runVars, histVars>>

(* A slip of the next action, for the mutation checks: the loop only       *)
(* leaves after a tick that brought events.                                *)
PollCheckFresh(c) ==
  /\ pc[c] = Draining
  /\ pending[c] = << >>
  /\ pc' = [pc EXCEPT ![c] = IF IsDone /\ fresh[c] THEN Closed ELSE Polling]
  /\ UNCHANGED <<bufferVars, lastSent, pending, fresh, lastEventId, runVars,
                 histVars>>

(* The tick's events are written: leave if the run is done and there were  *)
(* none.                                                                   *)
PollCheck(c) ==
  /\ pc[c] = Draining
  /\ pending[c] = << >>
  /\ pc' = [pc EXCEPT ![c] = IF IsDone /\ ~fresh[c] THEN Closed ELSE Polling]
  /\ UNCHANGED <<bufferVars, lastSent, pending, fresh, lastEventId, runVars,
                 histVars>>

(* The connection is lost: a write fails, or ctx.Done fires in the loop.   *)
Disconnect(c) ==
  /\ Connected(c)
  /\ pc' = [pc EXCEPT ![c] = Off]
  /\ pending' = [pending EXCEPT ![c] = << >>]
  /\ UNCHANGED <<bufferVars, lastSent, fresh, lastEventId, runVars, histVars>>

-----------------------------------------------------------------------------
StreamInit ==
  /\ NewEventBuffer
  /\ pc = [c \in Clients |-> Off]
  /\ lastSent = [c \in Clients |-> 0]
  /\ pending = [c \in Clients |-> << >>]
  /\ fresh = [c \in Clients |-> FALSE]
  /\ lastEventId = [c \in Clients |-> 0]
  /\ transcribed = FALSE
  /\ waiting = {}
  /\ log = << >>
  /\ received = [c \in Clients |-> << >>]
  /\ connectedAt = [c \in Clients |-> [seq |-> 0, len |-> 0, open |-> {}]]
  /\ connects = [c \in Clients |-> 0]

Producer ==
  \/ \E ev \in Events : WorkerAppend(ev)
  \/ \E r \in Requests : ConsentDecided(r)
  \/ WorkerDone
  \/ AppendVoiceTranscriptionEvent

ServerStep(c) ==
  \/ SkipToNewest(c)
  \/ Send(c)
  \/ CheckDone(c)
  \/ Poll(c)
  \/ PollCheck(c)

StreamNext ==
  \/ Producer
  \/ \E c \in Clients : ResumeSession(c) \/ ServerStep(c) \/ Disconnect(c)

StreamSpec == StreamInit /\ [][StreamNext]_allVars

(* The handler's goroutine is always scheduled again and its ticker keeps  *)
(* firing; runs, clients and networks owe nothing.                         *)
FairStreamSpec ==
  StreamSpec /\ \A c \in Clients : WF_allVars(ServerStep(c))

-----------------------------------------------------------------------------
Ids(c) == {i \in DOMAIN received[c] : received[c][i] # Overflow}

(* Over all its connections a client receives every event at most once and *)
(* in order: Last-Event-ID, the replay and the poll loop's lastSent agree  *)
(* on where the client is.                                                 *)
DeliveryIncreasing ==
  \A c \in Clients : \A i, j \in Ids(c) :
    i < j => received[c][i] < received[c][j]

(* Event k of a run is a form, and an event up to n says it is answered.   *)
Resolved(events, k, n) ==
  /\ events[k].type = "input_request"
  /\ \E j \in k + 1 .. n :
       events[j] = [type |-> "tool_result", id |-> events[k].id]

(* The id of form k had served before, and been resolved.                  *)
Reused(events, k) ==
  \E j \in 1 .. k - 1 : events[j] = [type |-> "tool_result", id |-> events[k].id]

(* Between two frames that a client gets one after the other it misses     *)
(* nothing but forms whose answer was announced; every other hole is       *)
(* announced by reconnect_overflow, whatever was evicted meanwhile.        *)
NoSilentGap ==
  \A c \in Clients : \A i \in Ids(c) :
    i + 1 \in Ids(c) =>
      \A k \in received[c][i] + 1 .. received[c][i + 1] - 1 :
        Resolved(log, k, Len(log))

(* Frame i is a form that was replayed to client c, and not one made after *)
(* it connected.                                                           *)
ReplayedForm(c, i) ==
  /\ i > connectedAt[c].len
  /\ received[c][i] <= connectedAt[c].seq
  /\ log[received[c][i]].type = "input_request"

(* A form that was answered before the client connected is not shown to it *)
(* again, with two exceptions: a consent, whose answer the filter cannot   *)
(* see, and a form whose id had been resolved before it was asked, since   *)
(* the filter compares with the first event that resolves the id.          *)
NoStaleForm ==
  \A c \in Clients : \A i \in Ids(c) :
    ReplayedForm(c, i) =>
      \/ log[received[c][i]].id \in connectedAt[c].open \cup Consents
      \/ Reused(log, received[c][i])

(* The forms that a set of events leaves open.                             *)
OpenForms(S) ==
  {r \in Requests :
     \E k \in S :
       /\ log[k] = [type |-> "input_request", id |-> r]
       /\ \A j \in S : j > k => log[j] # [type |-> "tool_result", id |-> r]}

(* A client that has caught up, on a run nothing of which was evicted,     *)
(* shows every form the run is waiting for, and beyond those nothing but   *)
(* consents, however many times it reconnected: the filter hides a request *)
(* only together with the event that resolves it.                          *)
FormsAgree ==
  \A c \in Clients :
    /\ pc[c] = Polling
    /\ lastSent[c] = NewestSeq
    /\ nextSeq - 1 <= Capacity
    /\ \A i \in DOMAIN received[c] : received[c][i] # Overflow
    => LET shown == OpenForms({received[c][i] : i \in Ids(c)})
       IN  waiting \subseteq shown /\ shown \subseteq waiting \cup Consents

(* The replay filter hides the forms whose answer was announced and        *)
(* nothing else (handler.go, filterReplayableEvents).                      *)
FormsConsistent == NoStaleForm /\ FormsAgree

(* What filterReplayableEvents says of itself: it "prevents a resumed SSE  *)
(* connection from re-opening an already answered form" (handler.go:1576). *)
(* Every replayed form is one the run is still waiting for.                *)
AnsweredStaysClosed ==
  \A c \in Clients : \A i \in Ids(c) :
    ReplayedForm(c, i) => log[received[c][i]].id \in connectedAt[c].open

(* Once the run is done every open stream comes to an end.                 *)
EventuallyCloses ==
  \A c \in Clients : (done /\ Connected(c)) ~> ~Connected(c)

(* A connected client that is behind, and not overtaken by the ring.       *)
Behind(c) ==
  Connected(c) /\ lastSent[c] < NewestSeq /\ ~Overflowed(lastSent[c])

(* A connected client that is behind gets more events, unless the ring has *)
(* overtaken it meanwhile.                                                 *)
StreamsUnlessOvertaken ==
  \A c \in Clients :
    <>[]Behind(c) => []<><<lastSent'[c] > lastSent[c]>>_allVars

(* A stream that the server ends has delivered the run to its last event.  *)
ClosedIsComplete ==
  \A c \in Clients : pc[c] = Closed => lastSent[c] = NewestSeq
=============================================================================
