------------------------ MODULE ResumeStreamProofs -------------------------
(***************************************************************************)
(* For any number of clients, connections, events and forms, and any       *)
(* capacity of the ring: a client receives events once and in order,       *)
(* misses nothing silently but forms whose answer was announced, gets no   *)
(* form again that was answered when it connected, unless it is a consent  *)
(* or its id had served before, and, when it has caught up on a run of     *)
(* which nothing was evicted, shows every form the run waits for and       *)
(* nothing else but consents.                                              *)
(***************************************************************************)
EXTENDS ResumeStream, EventBufferProofs, TLAPS

-----------------------------------------------------------------------------
(* The inductive invariant.                                                *)

StreamTypes ==
  /\ pc \in [Clients -> {Off, Overflowing, Replaying, Polling, Draining, Closed}]
  /\ lastSent \in [Clients -> Nat]
  /\ lastEventId \in [Clients -> Nat]
  /\ pending \in [Clients -> Seq(BufferedEvent)]
  /\ log \in Seq(Events)
  /\ received \in [Clients -> Seq(Nat)]
  /\ connectedAt \in [Clients -> [seq : Nat, len : Nat, open : SUBSET Requests]]

(* The ring holds the end of the log.                                      *)
LogMatches ==
  /\ Len(log) = nextSeq - 1
  /\ \A i \in 1 .. count : Window[i].event = log[Window[i].id]

Asks(events, k, r) == events[k] = [type |-> "input_request", id |-> r]
Answers(events, k, r) == events[k] = [type |-> "tool_result", id |-> r]

(* The run waits for forms that no later event resolves; the others of    *)
(* those are consents.                                                     *)
WaitingForms ==
  /\ waiting \subseteq OpenForms(DOMAIN log)
  /\ OpenForms(DOMAIN log) \subseteq waiting \cup Consents

(* Form k was made before the client connected at the point at, the run no *)
(* longer waited for it then, and neither exception of NoStaleForm applies.*)
Stale(events, at, k) ==
  /\ k <= at.seq
  /\ events[k].type = "input_request"
  /\ events[k].id \notin at.open \cup Consents
  /\ ~Reused(events, k)

(* The last frame was an event: the client and the server agree on where   *)
(* the client is.                                                          *)
InStep(c) == received[c] = << >> \/ received[c][Len(received[c])] # Overflow

(* What a client has received, and where it says it is.                    *)
ReceivedAt(c) ==
  /\ lastEventId[c] <= Len(log)
  /\ \A i \in DOMAIN received[c] : received[c][i] <= lastEventId[c]
  /\ InStep(c) =>
       lastEventId[c] = IF received[c] = << >> THEN 0 ELSE received[c][Len(received[c])]
  /\ \A i, j \in Ids(c) : i < j => received[c][i] < received[c][j]
  /\ \A i \in Ids(c) : i + 1 \in Ids(c) =>
       \A k \in received[c][i] + 1 .. received[c][i + 1] - 1 : Resolved(log, k, Len(log))
  /\ \A i \in Ids(c) :
       i > connectedAt[c].len => ~Stale(log, connectedAt[c], received[c][i])
  /\ connectedAt[c].len <= Len(received[c])
  /\ connectedAt[c].seq <= Len(log)

(* Nothing is missing up to where the client is, if nothing was evicted    *)
(* and it has never been told of an overflow.                              *)
NothingMissing(c) ==
  /\ nextSeq - 1 <= Capacity
  /\ \A i \in DOMAIN received[c] : received[c][i] # Overflow
  => \A k \in 1 .. lastEventId[c] :
       (\E i \in DOMAIN received[c] : received[c][i] = k) \/ Resolved(log, k, Len(log))

(* The frames the handler still has to write: in order, after the last one *)
(* written, without a hole that is not a form answered, and each current.  *)
PendingAt(c) ==
  LET p == pending[c]
  IN  /\ \A i, j \in DOMAIN p : i < j => p[i].id < p[j].id
      /\ \A j \in DOMAIN p : lastSent[c] < p[j].id /\ p[j].id <= Len(log)
      /\ \A j \in DOMAIN p : \A k \in lastSent[c] + 1 .. p[j].id :
           lastSent[c] # 0 \/ nextSeq - 1 <= Capacity \/ p[1].id <= k =>
             (\E i \in DOMAIN p : p[i].id = k) \/ Resolved(log, k, Len(log))
      /\ \A j \in DOMAIN p : ~Stale(log, connectedAt[c], p[j].id)

(* Where the handler is.                                                   *)
HandlerAt(c) ==
  /\ pc[c] \notin {Replaying, Draining} => pending[c] = << >>
  /\ pc[c] = Overflowing => ~InStep(c)
  /\ pc[c] \in {Replaying, Polling, Draining} =>
       /\ lastEventId[c] <= lastSent[c] /\ lastSent[c] <= Len(log)
       /\ InStep(c) => lastSent[c] = lastEventId[c]
  /\ pc[c] \in {Polling, Draining} => connectedAt[c].seq <= lastSent[c]
  /\ pc[c] = Replaying =>
       connectedAt[c].seq <= IF pending[c] = << >> THEN lastSent[c]
                             ELSE pending[c][Len(pending[c])].id

ClientAt(c) == ReceivedAt(c) /\ NothingMissing(c) /\ PendingAt(c) /\ HandlerAt(c)

StreamInv ==
  /\ TypeOK /\ RingInv /\ StreamTypes /\ LogMatches /\ WaitingForms
  /\ \A c \in Clients : ClientAt(c)

-----------------------------------------------------------------------------
(* The replay.                                                             *)

(* The events of a run are what RunEvents says.                            *)
LEMMA EventIs ==
  ASSUME log \in Seq(Events), NEW k \in DOMAIN log
  PROVE  /\ log[k].type = "input_request" => log[k].id \in Requests /\ Asks(log, k, log[k].id)
         /\ \A r : Answers(log, k, r) => r \in Requests /\ log[k].type = "tool_result"
         /\ \A r : Asks(log, k, r) => log[k].type = "input_request" /\ log[k].id = r
  <1>1. log[k] \in RunEvents
    BY EventsAssumption
  <1> QED
    BY <1>1 DEF RunEvents, Asks, Answers

(* The events e are those of the log after position b.                     *)
EndOfLog(e, b) ==
  /\ e \in Seq(BufferedEvent) /\ Len(e) = Len(log) - b
  /\ \A j \in 1 .. Len(e) : e[j].id = b + j /\ e[j].event = log[b + j]

(* What a handler reads in one call: the end of the log, from the position *)
(* of its client or, if the client has none, from the oldest event held.   *)
LEMMA Snapshot ==
  ASSUME TypeOK, RingInv, LogMatches, log \in Seq(Events),
         NEW a \in 0 .. Len(log), ~Overflowed(a)
  PROVE  /\ Before(a) \in 0 .. Len(log) /\ a <= Before(a)
         /\ a # 0 \/ Len(log) <= Capacity \/ Before(a) = Len(log) => Before(a) = a
         /\ EndOfLog(EventsSince(a), Before(a))
  <1> DEFINE b == Before(a)
             c == count - (Len(log) - b)
             e == [j \in 1 .. Len(log) - b |-> Window[c + j]]
  <1>1. Len(log) = nextSeq - 1 /\ a \in 0 .. nextSeq - 1 /\ Len(log) \in Nat
    BY DEF LogMatches
  <1>2. /\ b \in 0 .. Len(log) /\ Len(log) - b <= count /\ (a # 0 => b = a)
        /\ EventsSince(a) = e
    BY <1>1, EventsSinceIsEnd
  <1>3. /\ count \in Nat /\ count <= Len(log)
        /\ \A i \in 1 .. count : Window[i].id = Len(log) - count + i
        /\ \A i \in 1 .. count : Window[i].event = log[Window[i].id]
        /\ Window \in Seq(BufferedEvent) /\ Len(Window) = count
    BY <1>1, NewestAndOldest, WindowSeq DEF LogMatches
  <1>4. a <= b /\ (Len(log) <= Capacity \/ b = Len(log) => b = a)
    BY <1>1, <1>3, CapacityAssumption DEF Before, RingInv, CountMatchesSeq, TypeOK
  <1> HIDE DEF b
  <1>5. ASSUME NEW j \in 1 .. Len(log) - b
        PROVE  /\ c + j \in 1 .. count /\ e[j] = Window[c + j] /\ e[j] \in BufferedEvent
               /\ e[j].id = b + j /\ e[j].event = log[b + j]
    <2>1. c + j \in 1 .. count /\ Len(log) - count + (c + j) = b + j
      BY <1>1, <1>2, <1>3
    <2>2. e[j] = Window[c + j]
      OBVIOUS
    <2>3. Window[c + j].id = b + j /\ Window[c + j] \in BufferedEvent
      BY <1>3, <2>1
    <2> HIDE DEF e, c
    <2> QED
      BY <1>3, <2>1, <2>2, <2>3
  <1>6. e \in Seq(BufferedEvent) /\ Len(e) = Len(log) - b
    <2>1. Len(log) - b \in Nat
      BY <1>1, <1>2
    <2> QED
      BY <1>5, <2>1
  <1> HIDE DEF e, c
  <1> QED
    BY <1>2, <1>4, <1>5, <1>6 DEF b, EndOfLog

(* The filter hides nothing but forms resolved in the replay, and all of   *)
(* them whose id had not been resolved before.                             *)
LEMMA FilterIsExact ==
  ASSUME log \in Seq(Events),
         NEW b \in 0 .. Len(log), NEW e, EndOfLog(e, b)
  PROVE  LET q == FilterReplayableEvents(e)
         IN  /\ q \in Seq(BufferedEvent)
             /\ \A i, j \in 1 .. Len(q) : i < j => q[i].id < q[j].id
             /\ \A j \in 1 .. Len(q) : q[j].id \in b + 1 .. Len(log)
             /\ \A k \in b + 1 .. Len(log) :
                  (\E j \in 1 .. Len(q) : q[j].id = k) \/ Resolved(log, k, Len(log))
             /\ \A j \in 1 .. Len(q) :
                  Resolved(log, q[j].id, Len(log)) => Reused(log, q[j].id)
             /\ b < Len(log) => Len(q) > 0 /\ q[Len(q)].id = Len(log)
  <1> DEFINE resolvers(r) == {i \in DOMAIN e : e[i].event = [type |-> "tool_result", id |-> r]}
             resolvedAt(r) == e[CHOOSE i \in resolvers(r) :
                                  \A j \in resolvers(r) : i <= j].id
             stale(x) == /\ x.event.type = "input_request"
                         /\ resolvers(x.event.id) # {}
                         /\ x.id < resolvedAt(x.event.id)
             P == {i \in DOMAIN e : ~stale(e[i])}
             q == KeepAt(e, P)
             n == Len(e)
  <1>0. /\ e \in Seq(BufferedEvent) /\ Len(e) = Len(log) - b
        /\ \A j \in 1 .. Len(e) : e[j].id = b + j /\ e[j].event = log[b + j]
    BY DEF EndOfLog
  <1>1. FilterReplayableEvents(e) = q
    BY DEF FilterReplayableEvents
  <1>2. /\ n \in Nat /\ DOMAIN e = 1 .. n /\ Len(log) \in Nat /\ n = Len(log) - b /\ b \in Nat
        /\ DOMAIN log = 1 .. Len(log)
        /\ \A i \in 1 .. n : b + i \in 1 .. Len(log)
    BY <1>0
  <1>3. ASSUME NEW i \in 1 .. n
        PROVE  /\ stale(e[i]) => Resolved(log, b + i, Len(log))
               /\ Resolved(log, b + i, Len(log)) => stale(e[i]) \/ Reused(log, b + i)
    <2> DEFINE r == log[b + i].id
    <2>1. b + i \in DOMAIN log /\ e[i].event = log[b + i] /\ e[i].id = b + i
      BY <1>0, <1>2
    <2>2. CASE log[b + i].type # "input_request"
      BY <2>1, <2>2 DEF Resolved
    <2>3. CASE log[b + i].type = "input_request"
      <3>1. r \in Requests /\ Asks(log, b + i, r)
        BY <2>1, <2>3, EventIs
      <3>2. \A j \in 1 .. n : j \in resolvers(r) <=> Answers(log, b + j, r)
        BY <1>0, <1>2 DEF Answers
      <3>3. resolvers(r) \subseteq Nat /\ resolvers(r) \subseteq 1 .. n
        BY <1>2
      <3> HIDE DEF resolvers
      <3>4. resolvers(r) # {} => \E m \in resolvers(r) : resolvedAt(r) = b + m
        <4> SUFFICES ASSUME resolvers(r) # {}
                     PROVE  \E m \in resolvers(r) : resolvedAt(r) = b + m
          OBVIOUS
        <4> DEFINE m == CHOOSE k \in resolvers(r) : \A j \in resolvers(r) : k <= j
        <4>1. \E k \in resolvers(r) : \A j \in resolvers(r) : k <= j
          BY <3>3, LeastNumber
        <4>2. m \in resolvers(r)
          BY <4>1, Zenon
        <4>3. resolvedAt(r) = e[m].id
          OBVIOUS
        <4> HIDE DEF m, resolvedAt
        <4> QED
          BY <1>0, <1>2, <3>3, <4>2, <4>3
      <3>5. stale(e[i]) <=> resolvers(r) # {} /\ b + i < resolvedAt(r)
        BY <2>1, <2>3
      <3> HIDE DEF resolvedAt
      <3>6. ASSUME stale(e[i]) PROVE Resolved(log, b + i, Len(log))
        <4>1. PICK m \in resolvers(r) : resolvedAt(r) = b + m
          BY <3>4, <3>5, <3>6
        <4>2. m \in 1 .. n /\ Answers(log, b + m, r) /\ b + i < b + m
          BY <3>2, <3>3, <3>5, <3>6, <4>1
        <4>3. b + m \in b + i + 1 .. Len(log)
          BY <1>2, <4>2
        <4> QED
          BY <2>3, <4>2, <4>3 DEF Resolved, Answers
      <3>7. ASSUME Resolved(log, b + i, Len(log)), ~Reused(log, b + i) PROVE stale(e[i])
        <4>1. PICK j \in b + i + 1 .. Len(log) : Answers(log, j, r)
          BY <3>7 DEF Resolved, Answers
        <4>2. j - b \in 1 .. n /\ b + (j - b) = j
          BY <1>2, <4>1
        <4>3. j - b \in resolvers(r)
          BY <3>2, <4>1, <4>2
        <4>4. PICK m \in resolvers(r) : resolvedAt(r) = b + m
          BY <3>4, <4>3
        <4>5. m \in 1 .. n /\ b + m \in DOMAIN log /\ Answers(log, b + m, r)
          BY <1>2, <3>2, <3>3, <4>4
        <4>6. b + i < b + m
          <5>1. b + m # b + i
            BY <2>3, <3>1, <4>5 DEF Asks, Answers
          <5>2. ~(b + m \in 1 .. b + i - 1)
            BY <3>7, <4>5 DEF Reused, Answers
          <5> QED
            BY <1>2, <2>1, <4>5, <5>1, <5>2
        <4> QED
          BY <3>5, <4>3, <4>4, <4>6
      <3> QED
        BY <3>6, <3>7
    <2> QED
      BY <2>2, <2>3
  <1>4. \A i \in 1 .. n :
          /\ i \notin P => Resolved(log, b + i, Len(log))
          /\ i \in P /\ Resolved(log, b + i, Len(log)) => Reused(log, b + i)
    <2>1. \A i \in 1 .. n : i \in P <=> ~stale(e[i])
      BY <1>2
    <2> HIDE DEF stale, P
    <2> QED
      BY <1>3, <2>1
  <1> HIDE DEF P
  <1>5. PICK at \in [1 .. Len(q) -> 1 .. n] :
          /\ q \in Seq(BufferedEvent)
          /\ \A j \in 1 .. Len(q) : at[j] \in P /\ q[j] = e[at[j]]
          /\ \A i, j \in 1 .. Len(q) : i < j => at[i] < at[j]
          /\ \A i \in 1 .. n : i \in P => \E j \in 1 .. Len(q) : at[j] = i
    <2>1. e \in Seq(BufferedEvent)
      BY <1>0
    <2> HIDE DEF stale, resolvedAt, resolvers
    <2>2. /\ q \in Seq(BufferedEvent)
          /\ \E at \in [1 .. Len(q) -> 1 .. Len(e)] :
               /\ \A j \in 1 .. Len(q) : at[j] \in P /\ q[j] = e[at[j]]
               /\ \A i, j \in 1 .. Len(q) : i < j => at[i] < at[j]
               /\ \A i \in 1 .. Len(e) : i \in P => \E j \in 1 .. Len(q) : at[j] = i
      BY <2>1, KeepAtPicks
    <2> HIDE DEF q
    <2> QED
      BY <2>2
  <1> HIDE DEF q
  <1>6. \A j \in 1 .. Len(q) : at[j] \in 1 .. n /\ at[j] \in P /\ q[j].id = b + at[j]
    <2>1. \A j \in 1 .. Len(q) : at[j] \in 1 .. n /\ at[j] \in P
      BY <1>5
    <2> QED
      BY <1>0, <1>2, <1>5, <2>1
  <1>7. \A i, j \in 1 .. Len(q) : i < j => q[i].id < q[j].id
    BY <1>2, <1>5, <1>6
  <1>8. \A j \in 1 .. Len(q) :
          /\ q[j].id \in b + 1 .. Len(log)
          /\ Resolved(log, q[j].id, Len(log)) => Reused(log, q[j].id)
    BY <1>2, <1>4, <1>6
  <1>9. ASSUME NEW k \in b + 1 .. Len(log), ~Resolved(log, k, Len(log))
        PROVE  \E j \in 1 .. Len(q) : q[j].id = k
    <2>1. k - b \in 1 .. n /\ b + (k - b) = k
      BY <1>2
    <2>2. k - b \in P
      BY <1>4, <1>9, <2>1
    <2>3. PICK j \in 1 .. Len(q) : at[j] = k - b
      BY <1>5, <2>1, <2>2
    <2> QED
      BY <1>6, <2>1, <2>3
  <1>10. b < Len(log) => Len(q) > 0 /\ q[Len(q)].id = Len(log)
    <2> SUFFICES ASSUME b < Len(log) PROVE Len(q) > 0 /\ q[Len(q)].id = Len(log)
      OBVIOUS
    <2>1. ~Resolved(log, Len(log), Len(log))
      BY <1>2 DEF Resolved
    <2>2. PICK j \in 1 .. Len(q) : q[j].id = Len(log)
      BY <1>2, <1>9, <2>1
    <2>3. Len(q) \in Nat /\ Len(q) \in 1 .. Len(q)
      BY <1>5, <2>2
    <2>4. j = Len(q)
      <3>0. q[j].id = Len(log)
        BY <2>2
      <3>1. q[Len(q)].id \in b + 1 .. Len(log)
        BY <1>8, <2>3
      <3>2. j < Len(q) => q[j].id < q[Len(q)].id
        BY <1>7, <2>3
      <3> QED
        BY <1>2, <2>3, <3>0, <3>1, <3>2
    <2> QED
      BY <2>2, <2>3, <2>4
  <1>11. \A k \in b + 1 .. Len(log) :
           (\E j \in 1 .. Len(q) : q[j].id = k) \/ Resolved(log, k, Len(log))
    BY <1>9
  <1> QED
    BY <1>1, <1>5, <1>7, <1>8, <1>10, <1>11

-----------------------------------------------------------------------------
(* The producers.                                                          *)

(* What was answered stays answered, and what was not stale at a point in  *)
(* the past does not become so.                                            *)
LEMMA AnswersGrow ==
  ASSUME log \in Seq(Events), NEW ev \in Events, log' = Append(log, ev)
  PROVE  /\ log' \in Seq(Events) /\ Len(log) \in Nat /\ Len(log') = Len(log) + 1
         /\ log'[Len(log) + 1] = ev
         /\ \A k \in 1 .. Len(log) : log'[k] = log[k]
         /\ \A k \in Nat \ {0} : Resolved(log, k, Len(log)) => Resolved(log', k, Len(log'))
         /\ \A k \in Nat \ {0} : \A at : at.seq \in 0 .. Len(log) =>
              (Stale(log', at, k) <=> Stale(log, at, k))
  <1>1. /\ log' \in Seq(Events) /\ Len(log) \in Nat /\ Len(log') = Len(log) + 1
        /\ log'[Len(log) + 1] = ev
        /\ \A k \in 1 .. Len(log) : log'[k] = log[k]
    OBVIOUS
  <1>2. ASSUME NEW k \in Nat \ {0}, NEW at, at.seq \in 0 .. Len(log)
        PROVE  Stale(log', at, k) <=> Stale(log, at, k)
    <2>1. CASE k <= at.seq
      <3>1. k \in 1 .. Len(log) /\ \A j \in 1 .. k - 1 : j \in 1 .. Len(log)
        BY <1>1, <1>2, <2>1
      <3>2. Reused(log', k) <=> Reused(log, k)
        BY <1>1, <3>1 DEF Reused
      <3> QED
        BY <1>1, <3>1, <3>2 DEF Stale
    <2>2. CASE ~(k <= at.seq)
      BY <2>2 DEF Stale
    <2> QED
      BY <2>1, <2>2
  <1>3. ASSUME NEW k \in Nat \ {0}, Resolved(log, k, Len(log))
        PROVE  Resolved(log', k, Len(log'))
    <2>1. PICK j \in k + 1 .. Len(log) : log[j] = [type |-> "tool_result", id |-> log[k].id]
      BY <1>3 DEF Resolved
    <2>2. /\ j \in 1 .. Len(log) /\ k \in 1 .. Len(log) /\ j \in k + 1 .. Len(log')
          /\ log[k].type = "input_request"
      BY <1>1, <1>3, <2>1 DEF Resolved
    <2> QED
      BY <1>1, <2>1, <2>2 DEF Resolved
  <1> QED
    BY <1>1, <1>2, <1>3

(* The types of one client's state.                                        *)
LEMMA ClientTypes ==
  ASSUME StreamTypes, NEW c \in Clients
  PROVE  /\ received[c] \in Seq(Nat) /\ pending[c] \in Seq(BufferedEvent)
         /\ lastSent[c] \in Nat /\ lastEventId[c] \in Nat
         /\ connectedAt[c].seq \in Nat /\ connectedAt[c].len \in Nat
         /\ connectedAt[c].open \subseteq Requests
         /\ Len(received[c]) \in Nat /\ Len(pending[c]) \in Nat
         /\ \A i \in DOMAIN received[c] : received[c][i] \in Nat
         /\ \A j \in DOMAIN pending[c] : pending[c][j].id \in Nat
  <1>1. /\ received[c] \in Seq(Nat) /\ pending[c] \in Seq(BufferedEvent)
        /\ lastSent[c] \in Nat /\ lastEventId[c] \in Nat
        /\ connectedAt[c] \in [seq : Nat, len : Nat, open : SUBSET Requests]
    BY DEF StreamTypes
  <1>2. \A i \in DOMAIN received[c] : received[c][i] \in Nat
    BY <1>1
  <1>3. ASSUME NEW j \in DOMAIN pending[c] PROVE pending[c][j].id \in Nat
    <2>1. pending[c][j] \in BufferedEvent
      BY <1>1
    <2> QED
      BY <2>1 DEF BufferedEvent
  <1> QED
    BY <1>1, <1>2, <1>3

(* An append changes nothing for the clients but what lies ahead of them.  *)
LEMMA AppendKeepsClient ==
  ASSUME StreamTypes, LogMatches, LogMatches', nextSeq \in Nat, nextSeq' = nextSeq + 1,
         NEW ev \in Events, log' = Append(log, ev),
         UNCHANGED <<pc, lastSent, pending, lastEventId, received, connectedAt>>,
         NEW c \in Clients, ClientAt(c)
  PROVE  ClientAt(c)'
  <1>1. /\ Len(log) \in Nat /\ Len(log') = Len(log) + 1 /\ log \in Seq(Events)
        /\ \A k \in Nat \ {0} : Resolved(log, k, Len(log)) => Resolved(log', k, Len(log'))
        /\ \A k \in Nat \ {0} : \A at : at.seq \in 0 .. Len(log) =>
             (Stale(log', at, k) <=> Stale(log, at, k))
    BY AnswersGrow DEF StreamTypes
  <1>2. /\ received[c] \in Seq(Nat) /\ pending[c] \in Seq(BufferedEvent)
        /\ lastSent[c] \in Nat /\ lastEventId[c] \in Nat
        /\ connectedAt[c].seq \in Nat /\ connectedAt[c].len \in Nat
        /\ Len(received[c]) \in Nat /\ Len(pending[c]) \in Nat
        /\ \A i \in DOMAIN received[c] : received[c][i] \in Nat
        /\ \A j \in DOMAIN pending[c] : pending[c][j].id \in Nat
    BY ClientTypes
  <1>3. ReceivedAt(c)'
    <2>1. ReceivedAt(c)
      BY DEF ClientAt
    <2>2. Ids(c)' = Ids(c) /\ (InStep(c)' <=> InStep(c))
      BY DEF Ids, InStep
    <2>3. \A i \in Ids(c) : i \in DOMAIN received[c] /\ received[c][i] \in Nat \ {0}
      BY <1>2 DEF Ids, Overflow
    <2>4. ASSUME NEW i \in Ids(c), i + 1 \in Ids(c),
                 NEW k \in received[c][i] + 1 .. received[c][i + 1] - 1
          PROVE  Resolved(log', k, Len(log'))
      <3>1. k \in Nat \ {0} /\ Resolved(log, k, Len(log))
        BY <1>2, <2>1, <2>3, <2>4 DEF ReceivedAt
      <3> QED
        BY <1>1, <3>1
    <2>5. ASSUME NEW i \in Ids(c), i > connectedAt[c].len
          PROVE  ~Stale(log', connectedAt[c], received[c][i])
      <3>1. /\ received[c][i] \in Nat \ {0} /\ connectedAt[c].seq \in 0 .. Len(log)
            /\ ~Stale(log, connectedAt[c], received[c][i])
        BY <1>1, <1>2, <2>1, <2>3, <2>5 DEF ReceivedAt
      <3> QED
        BY <1>1, <3>1
    <2>6. /\ lastEventId'[c] <= Len(log')
          /\ \A i \in DOMAIN received'[c] : received'[c][i] <= lastEventId'[c]
          /\ InStep(c)' =>
               lastEventId'[c] = IF received'[c] = << >> THEN 0
                                 ELSE received'[c][Len(received'[c])]
          /\ \A i, j \in Ids(c)' : i < j => received'[c][i] < received'[c][j]
          /\ connectedAt'[c].len <= Len(received'[c])
          /\ connectedAt'[c].seq <= Len(log')
      BY <1>1, <1>2, <2>1, <2>2 DEF ReceivedAt
    <2> QED
      BY <2>2, <2>4, <2>5, <2>6 DEF ReceivedAt
  <1>4. NothingMissing(c)'
    <2> SUFFICES ASSUME nextSeq' - 1 <= Capacity,
                        \A i \in DOMAIN received[c] : received[c][i] # Overflow,
                        NEW k \in 1 .. lastEventId[c]
                 PROVE  (\E i \in DOMAIN received[c] : received[c][i] = k)
                        \/ Resolved(log', k, Len(log'))
      BY DEF NothingMissing
    <2>1. nextSeq - 1 <= Capacity
      BY CapacityAssumption
    <2>2. (\E i \in DOMAIN received[c] : received[c][i] = k) \/ Resolved(log, k, Len(log))
      BY <2>1 DEF ClientAt, NothingMissing
    <2> QED
      BY <1>1, <1>2, <2>2
  <1>5. PendingAt(c)'
    <2> DEFINE p == pending[c]
    <2>1. PendingAt(c) /\ pending'[c] = p
      BY DEF ClientAt
    <2>2. ASSUME NEW j \in DOMAIN p, NEW k \in lastSent[c] + 1 .. p[j].id,
                 lastSent[c] # 0 \/ nextSeq' - 1 <= Capacity \/ p[1].id <= k
          PROVE  (\E i \in DOMAIN p : p[i].id = k) \/ Resolved(log', k, Len(log'))
      <3>1. k \in Nat \ {0}
        BY <1>2
      <3>2. lastSent[c] # 0 \/ nextSeq - 1 <= Capacity \/ p[1].id <= k
        BY <2>2, CapacityAssumption
      <3>3. (\E i \in DOMAIN p : p[i].id = k) \/ Resolved(log, k, Len(log))
        BY <2>1, <3>2 DEF PendingAt
      <3> QED
        BY <1>1, <3>1, <3>3
    <2>3. ASSUME NEW j \in DOMAIN p
          PROVE  ~Stale(log', connectedAt[c], pending[c][j].id)
      <3>1. p[j].id \in Nat \ {0} /\ ~Stale(log, connectedAt[c], p[j].id)
        BY <1>2, <2>1 DEF PendingAt
      <3>2. connectedAt[c].seq \in 0 .. Len(log)
        BY <1>1, <1>2 DEF ClientAt, ReceivedAt
      <3> QED
        BY <1>1, <3>1, <3>2
    <2>4. /\ \A i, j \in DOMAIN p : i < j => p[i].id < p[j].id
          /\ \A j \in DOMAIN p : lastSent[c] < p[j].id /\ p[j].id <= Len(log')
      BY <1>1, <1>2, <2>1 DEF PendingAt
    <2> HIDE DEF p
    <2> QED
      BY <2>1, <2>2, <2>3, <2>4 DEF PendingAt
  <1>6. HandlerAt(c)'
    BY <1>1, <1>2 DEF ClientAt, HandlerAt, InStep
  <1> QED
    BY <1>3, <1>4, <1>5, <1>6 DEF ClientAt

(* The ring goes on holding the end of the log.                            *)
LEMMA AppendMatches ==
  ASSUME TypeOK, RingInv, LogMatches, log \in Seq(Events), NEW ev \in Events,
         AppendEvent(ev), log' = Append(log, ev)
  PROVE  LogMatches'
  <1>1. /\ Len(log) = nextSeq - 1 /\ nextSeq' = nextSeq + 1 /\ Len(log) \in Nat
        /\ Len(log') = Len(log) + 1 /\ log'[Len(log) + 1] = ev
        /\ \A k \in 1 .. Len(log) : log'[k] = log[k]
    BY AnswersGrow DEF LogMatches, AppendEvent, TypeOK
  <1>2. /\ count \in Nat /\ count <= Len(log) /\ nextSeq = Len(log) + 1
        /\ \A i \in 1 .. count : Window[i].id = Len(log) - count + i
        /\ \A i \in 1 .. count : Window[i].event = log[Window[i].id]
    BY <1>1, NewestAndOldest DEF LogMatches, TypeOK
  <1>3. ASSUME NEW i \in 1 .. count PROVE Window[i].event = log'[Window[i].id]
    BY <1>1, <1>2
  <1>4. CASE count < Capacity
    <2>1. /\ count' = count + 1
          /\ \A i \in 1 .. count' :
               Window'[i] = IF i = count + 1 THEN [id |-> nextSeq, event |-> ev] ELSE Window[i]
      BY <1>4, WindowAfterAppend DEF RingInv
    <2>2. ASSUME NEW i \in 1 .. count' PROVE Window'[i].event = log'[Window'[i].id]
      <3>1. CASE i = count + 1
        <4>1. Window'[i] = [id |-> nextSeq, event |-> ev]
          BY <2>1, <3>1
        <4>2. Window'[i].id = nextSeq /\ Window'[i].event = ev
          BY <4>1
        <4> QED
          BY <1>1, <1>2, <4>2
      <3>2. CASE i # count + 1
        <4>1. i \in 1 .. count /\ Window'[i] = Window[i]
          BY <1>2, <2>1, <3>2
        <4> QED
          BY <1>3, <4>1
      <3> QED
        BY <3>1, <3>2
    <2>3. Len(log') = nextSeq' - 1
      BY <1>1, <1>2
    <2> QED
      BY <2>2, <2>3 DEF LogMatches
  <1>5. CASE count = Capacity
    <2>1. /\ count' = count
          /\ \A i \in 1 .. count' :
               Window'[i] = IF i = count THEN [id |-> nextSeq, event |-> ev] ELSE Window[i + 1]
      BY <1>5, WindowAfterAppend DEF RingInv
    <2>2. ASSUME NEW i \in 1 .. count' PROVE Window'[i].event = log'[Window'[i].id]
      <3>1. CASE i = count
        <4>1. Window'[i] = [id |-> nextSeq, event |-> ev]
          BY <2>1, <3>1
        <4>2. Window'[i].id = nextSeq /\ Window'[i].event = ev
          BY <4>1
        <4> QED
          BY <1>1, <1>2, <4>2
      <3>2. CASE i # count
        <4>1. i + 1 \in 1 .. count /\ Window'[i] = Window[i + 1]
          BY <1>2, <2>1, <3>2
        <4> QED
          BY <1>3, <4>1
      <3> QED
        BY <3>1, <3>2
    <2>3. Len(log') = nextSeq' - 1
      BY <1>1, <1>2
    <2> QED
      BY <2>2, <2>3 DEF LogMatches
  <1> QED
    BY <1>4, <1>5, CapacityAssumption DEF TypeOK

(* What an event asks or resolves, the run starts or stops waiting for.    *)
LEMMA AppendKeepsForms ==
  ASSUME log \in Seq(Events), WaitingForms, NEW ev \in Events, CanEmit(ev),
         log' = Append(log, ev), waiting' = WaitingAfter(ev)
  PROVE  WaitingForms'
  <1> DEFINE new == Len(log) + 1
             Open(r, l) == \E k \in DOMAIN l :
                             Asks(l, k, r) /\ \A j \in DOMAIN l : j > k => ~Answers(l, j, r)
  <1>1. /\ Len(log) \in Nat /\ log' \in Seq(Events) /\ log'[new] = ev
        /\ \A k \in 1 .. Len(log) : log'[k] = log[k]
        /\ DOMAIN log = 1 .. Len(log) /\ DOMAIN log' = 1 .. new
    BY AnswersGrow
  <1>2. ev \in RunEvents
    BY EventsAssumption
  <1>3. \A r \in Requests : (r \in OpenForms(DOMAIN log) <=> Open(r, log))
    BY DEF OpenForms, Asks, Answers
  <1>4. \A r \in Requests : (r \in OpenForms(DOMAIN log)' <=> Open(r, log'))
    BY DEF OpenForms, Asks, Answers
  <1>5. ASSUME NEW r \in Requests
        PROVE  Open(r, log') <=>
                 (\/ ev = [type |-> "input_request", id |-> r]
                  \/ Open(r, log) /\ ev # [type |-> "tool_result", id |-> r])
    <2>1. /\ \A k \in DOMAIN log : /\ k \in DOMAIN log' /\ k < new
                                  /\ (Asks(log', k, r) <=> Asks(log, k, r))
                                  /\ (Answers(log', k, r) <=> Answers(log, k, r))
          /\ \A k \in DOMAIN log' : (k \in DOMAIN log \/ k = new) /\ ~(k > new)
          /\ new \in DOMAIN log'
          /\ Asks(log', new, r) <=> ev = [type |-> "input_request", id |-> r]
          /\ Answers(log', new, r) <=> ev = [type |-> "tool_result", id |-> r]
      BY <1>1 DEF Asks, Answers
    <2> HIDE DEF new
    <2>2. ASSUME Open(r, log'), ev # [type |-> "input_request", id |-> r]
          PROVE  Open(r, log) /\ ev # [type |-> "tool_result", id |-> r]
      <3>1. PICK k \in DOMAIN log' :
              Asks(log', k, r) /\ \A j \in DOMAIN log' : j > k => ~Answers(log', j, r)
        BY <2>2
      <3>2. k \in DOMAIN log /\ k < new /\ new > k
        BY <1>1, <2>1, <2>2, <3>1 DEF new
      <3> QED
        BY <2>1, <3>1, <3>2
    <2>3. ASSUME ev = [type |-> "input_request", id |-> r] PROVE Open(r, log')
      BY <2>1, <2>3
    <2>4. ASSUME Open(r, log), ev # [type |-> "tool_result", id |-> r]
          PROVE  Open(r, log')
      <3>1. PICK k \in DOMAIN log :
              Asks(log, k, r) /\ \A j \in DOMAIN log : j > k => ~Answers(log, j, r)
        BY <2>4
      <3> QED
        BY <2>1, <2>4, <3>1
    <2> QED
      BY <2>2, <2>3, <2>4
  <1>6. ASSUME NEW r \in Requests
        PROVE  (r \in waiting') <=>
                 (\/ ev = [type |-> "input_request", id |-> r]
                  \/ r \in waiting /\ ev # [type |-> "tool_result", id |-> r])
    <2>1. CASE ev.type = "input_request"
      <3>1. waiting' = waiting \cup {ev.id} /\ ev # [type |-> "tool_result", id |-> r]
        BY <2>1 DEF WaitingAfter
      <3>2. ev = [type |-> "input_request", id |-> r] <=> ev.id = r
        BY <1>2, <2>1 DEF RunEvents
      <3> QED
        BY <3>1, <3>2
    <2>2. CASE ev.type = "tool_result"
      <3>1. waiting' = waiting \ {ev.id} /\ ev # [type |-> "input_request", id |-> r]
        BY <2>2 DEF WaitingAfter
      <3>2. ev = [type |-> "tool_result", id |-> r] <=> ev.id = r
        BY <1>2, <2>2 DEF RunEvents
      <3> QED
        BY <3>1, <3>2
    <2>3. CASE ev.type \notin {"input_request", "tool_result"}
      BY <2>3 DEF WaitingAfter
    <2> QED
      BY <2>1, <2>2, <2>3
  <1> HIDE DEF Open, new
  <1>7. waiting' \subseteq Requests
    <2>1. waiting \subseteq Requests
      BY DEF WaitingForms, OpenForms
    <2>2. ev.type = "input_request" => ev.id \in Requests
      BY <1>2 DEF RunEvents
    <2> QED
      BY <2>1, <2>2 DEF WaitingAfter
  <1>8. \A r \in Requests :
          /\ r \in waiting => r \in OpenForms(DOMAIN log)
          /\ r \in OpenForms(DOMAIN log) => r \in waiting \cup Consents
    BY DEF WaitingForms
  <1>9. ASSUME NEW r \in Requests
        PROVE  /\ r \in waiting' => r \in OpenForms(DOMAIN log)'
               /\ r \in OpenForms(DOMAIN log)' => r \in waiting' \cup Consents
    BY <1>3, <1>4, <1>5, <1>6, <1>8
  <1>10. OpenForms(DOMAIN log)' \subseteq Requests
    BY DEF OpenForms
  <1> QED
    BY <1>7, <1>9, <1>10 DEF WaitingForms

-----------------------------------------------------------------------------
(* The handler and its client.                                             *)

(* A step of client c: the buffer, the log and the other clients stay.     *)
OnlyMoves(c) ==
  /\ UNCHANGED bufferVars /\ log' = log /\ waiting' = waiting
  /\ \A d \in Clients \ {c} :
       /\ pc'[d] = pc[d] /\ lastSent'[d] = lastSent[d] /\ pending'[d] = pending[d]
       /\ lastEventId'[d] = lastEventId[d] /\ received'[d] = received[d]
       /\ connectedAt'[d] = connectedAt[d]

(* A client nothing happens to.                                            *)
LEMMA SameClient ==
  ASSUME NEW d \in Clients, ClientAt(d), log' = log, nextSeq' = nextSeq,
         pc'[d] = pc[d], lastSent'[d] = lastSent[d], pending'[d] = pending[d],
         lastEventId'[d] = lastEventId[d], received'[d] = received[d],
         connectedAt'[d] = connectedAt[d]
  PROVE  ClientAt(d)'
  <1>1. Ids(d)' = Ids(d) /\ (InStep(d)' <=> InStep(d))
    BY DEF Ids, InStep
  <1>2. ReceivedAt(d)' /\ NothingMissing(d)'
    BY <1>1 DEF ClientAt, ReceivedAt, NothingMissing
  <1>3. PendingAt(d)' /\ HandlerAt(d)'
    BY <1>1 DEF ClientAt, PendingAt, HandlerAt
  <1> QED
    BY <1>2, <1>3 DEF ClientAt

(* A step of one client keeps the invariant if it keeps that client's part.*)
LEMMA ClientStep ==
  ASSUME StreamInv, NEW c \in Clients, OnlyMoves(c), StreamTypes', ClientAt(c)'
  PROVE  StreamInv'
  <1>1. TypeOK' /\ RingInv'
    BY RingStep DEF StreamInv, OnlyMoves
  <1>2. LogMatches' /\ WaitingForms'
    BY DEF StreamInv, OnlyMoves, LogMatches, WaitingForms, OpenForms, bufferVars, Window
  <1>3. ASSUME NEW d \in Clients, d # c PROVE ClientAt(d)'
    BY <1>3, SameClient DEF StreamInv, OnlyMoves, bufferVars
  <1> QED
    BY <1>1, <1>2, <1>3 DEF StreamInv

(* What the steps below use of the invariant.                              *)
LEMMA ClientFacts ==
  ASSUME StreamInv, NEW c \in Clients
  PROVE  /\ Len(log) \in Nat /\ Len(log) = nextSeq - 1 /\ log \in Seq(Events)
         /\ TypeOK /\ RingInv /\ StreamTypes /\ LogMatches /\ WaitingForms
         /\ NewestSeq = Len(log)
         /\ ReceivedAt(c) /\ NothingMissing(c) /\ PendingAt(c) /\ HandlerAt(c)
         /\ lastEventId[c] \in 0 .. Len(log)
         /\ \A i \in Ids(c) : /\ i \in 1 .. Len(received[c])
                              /\ received[c][i] \in 1 .. lastEventId[c]
  <1>1. /\ log \in Seq(Events) /\ Len(log) = nextSeq - 1 /\ NewestSeq = nextSeq - 1
        /\ ClientAt(c)
    BY NewestAndOldest DEF StreamInv, StreamTypes, LogMatches
  <1>2. /\ lastEventId[c] \in Nat /\ lastEventId[c] <= Len(log)
        /\ \A i \in DOMAIN received[c] : received[c][i] \in Nat /\ received[c][i] <= lastEventId[c]
        /\ DOMAIN received[c] = 1 .. Len(received[c])
    BY <1>1, ClientTypes DEF StreamInv, ClientAt, ReceivedAt
  <1>3. \A i \in Ids(c) : i \in DOMAIN received[c] /\ received[c][i] # 0
    BY DEF Ids, Overflow
  <1> QED
    BY <1>1, <1>2, <1>3 DEF StreamInv, ClientAt

(* A step that leaves what the client received and where it is known to be.*)
LEMMA QuietClient ==
  ASSUME StreamInv, NEW c \in Clients, OnlyMoves(c), StreamTypes',
         lastEventId' = lastEventId, received' = received, connectedAt' = connectedAt,
         PendingAt(c)', HandlerAt(c)'
  PROVE  StreamInv'
  <1>1. ReceivedAt(c) /\ NothingMissing(c)
    BY ClientFacts
  <1>2. log' = log /\ nextSeq' = nextSeq
    BY DEF OnlyMoves, bufferVars
  <1>3. Ids(c)' = Ids(c) /\ (InStep(c)' <=> InStep(c))
    BY DEF Ids, InStep
  <1>4. ReceivedAt(c)' /\ NothingMissing(c)'
    BY <1>1, <1>2, <1>3 DEF ReceivedAt, NothingMissing
  <1> QED
    BY <1>4, ClientStep DEF ClientAt

(* A handler with nothing to write.                                        *)
LEMMA NothingPending ==
  ASSUME NEW c \in Clients, pending'[c] = << >>
  PROVE  PendingAt(c)'
  <1>1. DOMAIN << >> = {}
    OBVIOUS
  <1> QED
    BY <1>1 DEF PendingAt

(* ResumeSession reads the replay or announces an overflow.                *)
LEMMA ResumeSessionStep ==
  ASSUME StreamInv, NEW c \in Clients, ResumeSession(c)
  PROVE  StreamInv'
  <1> DEFINE a == lastEventId[c]
             q == FilterReplayableEvents(EventsSince(a))
  <1>1. /\ pc[c] = Off /\ UNCHANGED <<bufferVars, lastEventId, log, waiting>>
        /\ lastSent' = [lastSent EXCEPT ![c] = a]
        /\ pending' = [pending EXCEPT ![c] = q]
        /\ connectedAt' = [connectedAt EXCEPT ![c] =
                             [seq |-> NewestSeq, len |-> Len(received[c]), open |-> waiting]]
    BY DEF ResumeSession, runVars
  <1>2. /\ IF Overflowed(a)
           THEN /\ pc' = [pc EXCEPT ![c] = Overflowing]
                /\ received' = [received EXCEPT ![c] = Append(@, Overflow)]
           ELSE /\ pc' = [pc EXCEPT ![c] = Replaying]
                /\ received' = received
    BY DEF ResumeSession
  <1>3. /\ Len(log) \in Nat /\ Len(log) = nextSeq - 1 /\ log \in Seq(Events) /\ NewestSeq = Len(log)
        /\ TypeOK /\ RingInv /\ StreamTypes /\ LogMatches /\ WaitingForms
        /\ ReceivedAt(c) /\ NothingMissing(c) /\ a \in 0 .. Len(log)
        /\ \A i \in Ids(c) : i \in 1 .. Len(received[c]) /\ received[c][i] \in 1 .. a
    BY ClientFacts
  <1>4. received[c] \in Seq(Nat) /\ Len(received[c]) \in Nat /\ a \in Nat
    BY <1>3, ClientTypes
  <1> DEFINE b == IF Overflowed(a) THEN Len(log) ELSE Before(a)
  <1>5. /\ b \in 0 .. Len(log) /\ a <= b /\ EndOfLog(EventsSince(a), b)
        /\ ~Overflowed(a) => (a # 0 \/ Len(log) <= Capacity \/ b = Len(log) => b = a)
    <2>1. CASE Overflowed(a)
      <3>1. EventsSince(a) = << >>
        BY <2>1 DEF EventsSince
      <3>2. EndOfLog(<< >>, Len(log))
        BY <1>3 DEF EndOfLog
      <3> QED
        BY <1>3, <2>1, <3>1, <3>2
    <2>2. CASE ~Overflowed(a)
      BY <1>3, <2>2, Snapshot
    <2> QED
      BY <2>1, <2>2
  <1>6. /\ q \in Seq(BufferedEvent) /\ Len(q) \in Nat /\ DOMAIN q = 1 .. Len(q)
        /\ \A i, j \in 1 .. Len(q) : i < j => q[i].id < q[j].id
        /\ \A j \in 1 .. Len(q) : q[j].id \in b + 1 .. Len(log)
        /\ \A k \in b + 1 .. Len(log) :
             (\E j \in 1 .. Len(q) : q[j].id = k) \/ Resolved(log, k, Len(log))
        /\ \A j \in 1 .. Len(q) :
             Resolved(log, q[j].id, Len(log)) => Reused(log, q[j].id)
        /\ b < Len(log) => Len(q) > 0 /\ q[Len(q)].id = Len(log)
    <2> HIDE DEF a, b
    <2> DEFINE e == EventsSince(a)
    <2>1. EndOfLog(e, b)
      BY <1>5
    <2> HIDE DEF e
    <2>2. LET f == FilterReplayableEvents(e)
          IN  /\ f \in Seq(BufferedEvent)
              /\ \A i, j \in 1 .. Len(f) : i < j => f[i].id < f[j].id
              /\ \A j \in 1 .. Len(f) : f[j].id \in b + 1 .. Len(log)
              /\ \A k \in b + 1 .. Len(log) :
                   (\E j \in 1 .. Len(f) : f[j].id = k) \/ Resolved(log, k, Len(log))
              /\ \A j \in 1 .. Len(f) :
                   Resolved(log, f[j].id, Len(log)) => Reused(log, f[j].id)
              /\ b < Len(log) => Len(f) > 0 /\ f[Len(f)].id = Len(log)
      BY <1>3, <1>5, <2>1, FilterIsExact
    <2>3. q = FilterReplayableEvents(e)
      BY DEF e
    <2> HIDE DEF q
    <2> QED
      BY <2>2, <2>3
  <1> HIDE DEF q
  <1>7. StreamTypes' /\ OnlyMoves(c)
    <2>0. waiting \subseteq Requests
      BY <1>3 DEF WaitingForms, OpenForms
    <2>1. [seq |-> NewestSeq, len |-> Len(received[c]), open |-> waiting]
            \in [seq : Nat, len : Nat, open : SUBSET Requests]
      BY <1>3, <1>4, <2>0
    <2>2. Append(received[c], Overflow) \in Seq(Nat)
      BY <1>4 DEF Overflow
    <2>3. /\ received' \in [Clients -> Seq(Nat)]
          /\ pc' \in [Clients -> {Off, Overflowing, Replaying, Polling, Draining, Closed}]
      BY <1>2, <1>3, <2>2 DEF StreamTypes
    <2>4. /\ lastSent' \in [Clients -> Nat] /\ pending' \in [Clients -> Seq(BufferedEvent)]
          /\ connectedAt' \in [Clients -> [seq : Nat, len : Nat, open : SUBSET Requests]]
      BY <1>1, <1>3, <1>4, <1>6, <2>1 DEF StreamTypes
    <2> QED
      BY <1>1, <1>2, <1>3, <2>3, <2>4 DEF StreamTypes, OnlyMoves
  <1>8. /\ pending'[c] = q /\ lastSent'[c] = a /\ lastEventId'[c] = a /\ log' = log
        /\ connectedAt'[c].seq = Len(log) /\ connectedAt'[c].len = Len(received[c])
        /\ connectedAt'[c].open = waiting
        /\ nextSeq' = nextSeq
    BY <1>1, <1>3 DEF StreamTypes, bufferVars
  <1>9. PendingAt(c)'
    <2>1. CASE Overflowed(a)
      <3>1. q = << >>
        BY <1>3, <1>6, <2>1
      <3> QED
        BY <1>8, <3>1, NothingPending
    <2>2. CASE ~Overflowed(a)
      <3>1. ASSUME NEW j \in DOMAIN q, NEW k \in a + 1 .. q[j].id,
                   a # 0 \/ nextSeq - 1 <= Capacity \/ q[1].id <= k
            PROVE  (\E i \in DOMAIN q : q[i].id = k) \/ Resolved(log, k, Len(log))
        <4>1. q[j].id \in b + 1 .. Len(log) /\ q[1].id \in b + 1 .. Len(log)
          BY <1>6
        <4>2. k \in b + 1 .. Len(log)
          BY <1>3, <1>4, <1>5, <2>2, <3>1, <4>1
        <4> QED
          BY <1>6, <4>2
      <3>2. \A j \in DOMAIN q : a < q[j].id /\ q[j].id <= Len(log)
        BY <1>3, <1>4, <1>5, <1>6
      <3>3. ASSUME NEW j \in DOMAIN q, Stale(log', connectedAt'[c], q[j].id) PROVE FALSE
        <4> DEFINE k == q[j].id
        <4>1. k \in 1 .. Len(log) /\ k \in DOMAIN log
          BY <1>3, <1>5, <1>6
        <4>2. /\ log[k].type = "input_request" /\ log[k].id \notin waiting \cup Consents
              /\ ~Reused(log, k)
          BY <1>8, <3>3 DEF Stale
        <4>3. log[k].id \in Requests /\ Asks(log, k, log[k].id)
          BY <1>3, <4>1, <4>2, EventIs
        <4>4. ~Resolved(log, k, Len(log))
          BY <1>6, <4>2
        <4>5. \A i \in DOMAIN log : i > k => ~Answers(log, i, log[k].id)
          <5>1. \A i \in DOMAIN log : i > k => i \in k + 1 .. Len(log)
            BY <1>3, <4>1
          <5> QED
            BY <4>2, <4>4, <5>1 DEF Resolved, Answers
        <4>6. log[k].id \in OpenForms(DOMAIN log)
          BY <4>1, <4>3, <4>5 DEF OpenForms, Asks, Answers
        <4> QED
          BY <1>3, <4>2, <4>6 DEF WaitingForms
      <3> HIDE DEF a, b
      <3> QED
        BY <1>6, <1>8, <3>1, <3>2, <3>3 DEF PendingAt
    <2> QED
      BY <2>1, <2>2
  <1>10. CASE Overflowed(a)
    <2>0. q = << >>
      <3>1. b = Len(log)
        BY <1>10
      <3> HIDE DEF a, b
      <3>2. \A j \in 1 .. Len(q) : FALSE
        BY <1>3, <1>6, <3>1
      <3>3. Len(q) = 0
        BY <1>6, <3>2
      <3> QED
        BY <1>6, <3>3
    <2>1. /\ received'[c] = Append(received[c], Overflow) /\ pc'[c] = Overflowing
          /\ pending'[c] = << >>
      <3>1. /\ pc' = [pc EXCEPT ![c] = Overflowing]
            /\ received' = [received EXCEPT ![c] = Append(@, Overflow)]
        BY <1>2, <1>10
      <3>2. c \in DOMAIN pc /\ c \in DOMAIN received
        BY <1>3 DEF StreamTypes
      <3> QED
        BY <1>8, <2>0, <3>1, <3>2
    <2> DEFINE w == received[c]
    <2>2. /\ Len(received'[c]) = Len(w) + 1 /\ received'[c][Len(w) + 1] = Overflow
          /\ DOMAIN received'[c] = 1 .. Len(w) + 1 /\ DOMAIN w = 1 .. Len(w)
          /\ \A i \in 1 .. Len(w) : received'[c][i] = w[i]
      BY <1>4, <2>1 DEF Overflow
    <2>3. Ids(c)' = Ids(c)
      BY <1>4, <2>2 DEF Ids
    <2>4. ~InStep(c)'
      BY <1>4, <2>2 DEF InStep
    <2>5. ReceivedAt(c)'
      <3>0. a <= Len(log') /\ \A i \in DOMAIN w : w[i] <= a
        BY <1>3, <1>8
        DEF ReceivedAt
      <3>1. /\ a <= Len(log')
            /\ \A i \in DOMAIN received'[c] : received'[c][i] <= a
        <4> SUFFICES ASSUME NEW i \in 1 .. Len(w) + 1 PROVE received'[c][i] <= a
          BY <2>2, <3>0
        <4>1. CASE i = Len(w) + 1
          BY <1>4, <2>2, <4>1 DEF Overflow
        <4>2. CASE i # Len(w) + 1
          <5>1. i \in 1 .. Len(w)
            BY <1>4, <4>2
          <5> QED
            BY <2>2, <3>0, <5>1
        <4> QED
          BY <4>1, <4>2
      <3>2. /\ \A i, j \in Ids(c) : i < j => received'[c][i] < received'[c][j]
            /\ \A i \in Ids(c) : i + 1 \in Ids(c) =>
                 \A k \in received'[c][i] + 1 .. received'[c][i + 1] - 1 :
                   Resolved(log, k, Len(log))
        BY <1>3, <2>2 DEF ReceivedAt
      <3>3. \A i \in Ids(c) : ~(i > Len(w))
        BY <1>3, <1>4
      <3> HIDE DEF a
      <3> QED
        BY <1>3, <1>4, <1>8, <2>2, <2>3, <2>4, <3>1, <3>2, <3>3 DEF ReceivedAt
    <2>6. NothingMissing(c)'
      BY <1>4, <2>2 DEF NothingMissing
    <2>7. HandlerAt(c)'
      BY <2>1, <2>4 DEF HandlerAt, Overflowing, Replaying, Polling, Draining
    <2> QED
      BY <1>7, <1>9, <2>5, <2>6, <2>7, ClientStep DEF ClientAt
  <1>11. CASE ~Overflowed(a)
    <2>1. received' = received /\ pc'[c] = Replaying
      BY <1>2, <1>3, <1>11 DEF StreamTypes
    <2>2. Ids(c)' = Ids(c) /\ (InStep(c)' <=> InStep(c))
      BY <2>1 DEF Ids, InStep
    <2>3. ReceivedAt(c)'
      <3>1. \A i \in Ids(c) : ~(i > Len(received[c]))
        BY <1>3, <1>4
      <3> QED
        BY <1>3, <1>4, <1>8, <2>1, <2>2, <3>1 DEF ReceivedAt
    <2>4. NothingMissing(c)'
      BY <1>3, <1>8, <2>1 DEF NothingMissing
    <2>5. HandlerAt(c)'
      <3>1. Len(log) <= IF q = << >> THEN a ELSE q[Len(q)].id
        <4>1. CASE b < Len(log)
          BY <1>3, <1>6, <4>1
        <4>2. CASE b = Len(log)
          <5>1. q = << >>
            BY <1>3, <1>6, <4>2
          <5> QED
            BY <1>3, <1>4, <1>5, <1>11, <4>2, <5>1
        <4> QED
          BY <1>3, <1>5, <4>1, <4>2
      <3> HIDE DEF a, b
      <3> QED
        BY <1>3, <1>8, <2>1, <2>2, <3>1
        DEF HandlerAt, Overflowing, Replaying, Polling, Draining
    <2> QED
      BY <1>7, <1>9, <2>3, <2>4, <2>5, ClientStep DEF ClientAt
  <1> QED
    BY <1>10, <1>11

(* SkipToNewest continues from the newest event after the notice.          *)
LEMMA SkipToNewestStep ==
  ASSUME StreamInv, NEW c \in Clients, SkipToNewest(c)
  PROVE  StreamInv'
  <1>1. /\ pc[c] = Overflowing /\ pc' = [pc EXCEPT ![c] = Replaying]
        /\ lastSent' = [lastSent EXCEPT ![c] = NewestSeq]
        /\ UNCHANGED <<bufferVars, pending, lastEventId, log, waiting, received, connectedAt>>
    BY DEF SkipToNewest, histVars, runVars
  <1>2. /\ Len(log) \in Nat /\ NewestSeq = Len(log) /\ StreamTypes
        /\ ReceivedAt(c) /\ HandlerAt(c) /\ lastEventId[c] \in 0 .. Len(log)
    BY ClientFacts
  <1>3. StreamTypes' /\ OnlyMoves(c)
    BY <1>1, <1>2 DEF StreamTypes, OnlyMoves
  <1>4. /\ pc'[c] = Replaying /\ lastSent'[c] = Len(log) /\ pending'[c] = << >>
        /\ lastEventId'[c] = lastEventId[c] /\ log' = log
        /\ connectedAt'[c].seq <= Len(log) /\ ~InStep(c)'
    BY <1>1, <1>2
    DEF StreamTypes, HandlerAt, ReceivedAt, InStep, Overflowing, Replaying, Draining
  <1>5. HandlerAt(c)'
    BY <1>2, <1>4 DEF HandlerAt, Overflowing, Replaying, Polling, Draining
  <1> QED
    BY <1>1, <1>3, <1>4, <1>5, NothingPending, QuietClient

(* CheckDone and PollCheck leave, or wait for the next tick.               *)
LEMMA CheckStep ==
  ASSUME StreamInv, NEW c \in Clients, CheckDone(c) \/ PollCheck(c)
  PROVE  StreamInv'
  <1>1. /\ pc[c] \in {Replaying, Draining} /\ pending[c] = << >>
        /\ pc' = [pc EXCEPT ![c] = Closed] \/ pc' = [pc EXCEPT ![c] = Polling]
        /\ UNCHANGED <<bufferVars, lastSent, pending, lastEventId, log, waiting, received,
                       connectedAt>>
    BY DEF CheckDone, PollCheck, histVars, runVars
  <1>2. StreamTypes /\ HandlerAt(c)
    BY ClientFacts
  <1>3. StreamTypes' /\ OnlyMoves(c)
    BY <1>1, <1>2 DEF StreamTypes, OnlyMoves
  <1>4. pc'[c] \in {Closed, Polling} /\ (InStep(c)' <=> InStep(c)) /\ pending'[c] = << >>
    BY <1>1, <1>2 DEF StreamTypes, InStep
  <1>5. HandlerAt(c)'
    BY <1>1, <1>2, <1>4 DEF HandlerAt, Overflowing, Replaying, Polling, Draining, Closed
  <1> QED
    BY <1>1, <1>3, <1>4, <1>5, NothingPending, QuietClient

(* Disconnect drops what was still to be written.                          *)
LEMMA DisconnectStep ==
  ASSUME StreamInv, NEW c \in Clients, Disconnect(c)
  PROVE  StreamInv'
  <1>1. /\ pc' = [pc EXCEPT ![c] = Off] /\ pending' = [pending EXCEPT ![c] = << >>]
        /\ UNCHANGED <<bufferVars, lastSent, lastEventId, log, waiting, received, connectedAt>>
    BY DEF Disconnect, histVars, runVars
  <1>2. StreamTypes /\ << >> \in Seq(BufferedEvent)
    BY ClientFacts
  <1>3. StreamTypes' /\ OnlyMoves(c)
    BY <1>1, <1>2 DEF StreamTypes, OnlyMoves
  <1>4. pc'[c] = Off /\ pending'[c] = << >>
    BY <1>1, <1>2 DEF StreamTypes
  <1>5. HandlerAt(c)'
    BY <1>4 DEF HandlerAt, Overflowing, Replaying, Polling, Draining, Off
  <1> QED
    BY <1>1, <1>3, <1>4, <1>5, NothingPending, QuietClient

(* Poll reads everything after the last frame written.                     *)
LEMMA PollStep ==
  ASSUME StreamInv, NEW c \in Clients, Poll(c)
  PROVE  StreamInv'
  <1> DEFINE a == lastSent[c]
             e == EventsSince(a)
  <1>1. /\ pc[c] = Polling /\ pc' = [pc EXCEPT ![c] = Draining]
        /\ pending' = [pending EXCEPT ![c] = e]
        /\ UNCHANGED <<bufferVars, lastSent, lastEventId, log, waiting, received, connectedAt>>
    BY DEF Poll, histVars, runVars
  <1>2. /\ Len(log) \in Nat /\ Len(log) = nextSeq - 1 /\ log \in Seq(Events)
        /\ TypeOK /\ RingInv /\ StreamTypes /\ LogMatches /\ HandlerAt(c)
        /\ a \in Nat /\ connectedAt[c].seq \in Nat
    BY ClientFacts, ClientTypes
  <1>3. a \in 0 .. Len(log) /\ connectedAt[c].seq <= a
    BY <1>1, <1>2 DEF HandlerAt, Polling
  <1> DEFINE b == IF Overflowed(a) THEN Len(log) ELSE Before(a)
  <1>4. /\ b \in 0 .. Len(log) /\ a <= b /\ EndOfLog(e, b)
        /\ ~Overflowed(a) => (a # 0 \/ Len(log) <= Capacity => b = a)
    <2>1. CASE Overflowed(a)
      <3>1. e = << >>
        BY <2>1 DEF EventsSince
      <3>2. EndOfLog(<< >>, Len(log))
        BY <1>2 DEF EndOfLog
      <3> HIDE DEF e
      <3> QED
        BY <1>2, <1>3, <2>1, <3>1, <3>2
    <2>2. CASE ~Overflowed(a)
      BY <1>2, <1>3, <2>2, Snapshot
    <2> QED
      BY <2>1, <2>2
  <1> HIDE DEF e
  <1>5. /\ e \in Seq(BufferedEvent) /\ Len(e) = Len(log) - b /\ DOMAIN e = 1 .. Len(log) - b
        /\ \A j \in DOMAIN e : e[j].id = b + j
    <2> HIDE DEF b
    <2>1. /\ e \in Seq(BufferedEvent) /\ Len(e) = Len(log) - b
          /\ \A j \in 1 .. Len(e) : e[j].id = b + j
      BY <1>4 DEF EndOfLog
    <2> QED
      BY <2>1
  <1>6. StreamTypes' /\ OnlyMoves(c)
    BY <1>1, <1>2, <1>5 DEF StreamTypes, OnlyMoves
  <1>7. /\ pending'[c] = e /\ lastSent'[c] = a /\ log' = log /\ nextSeq' = nextSeq
        /\ connectedAt' = connectedAt /\ pc'[c] = Draining
        /\ (InStep(c)' <=> InStep(c))
    BY <1>1, <1>2 DEF StreamTypes, bufferVars, InStep
  <1>8. ASSUME NEW j \in DOMAIN e
        PROVE  /\ a < e[j].id /\ e[j].id <= Len(log) /\ e[j].id \in Nat
               /\ ~Stale(log, connectedAt[c], e[j].id)
    <2>1. a < e[j].id /\ e[j].id <= Len(log) /\ e[j].id \in Nat
      BY <1>2, <1>4, <1>5
    <2>2. ~(e[j].id <= connectedAt[c].seq)
      BY <1>2, <1>3, <2>1
    <2> QED
      BY <2>1, <2>2 DEF Stale
  <1>9. ASSUME NEW j \in DOMAIN e, NEW k \in a + 1 .. e[j].id,
               a # 0 \/ nextSeq - 1 <= Capacity \/ e[1].id <= k
        PROVE  (\E i \in DOMAIN e : e[i].id = k)
    <2>1. j \in 1 .. Len(log) - b /\ e[j].id = b + j /\ e[1].id = b + 1
      BY <1>2, <1>4, <1>5
    <2>2. ~Overflowed(a)
      BY <1>2, <1>4, <2>1
    <2>3. k - b \in DOMAIN e /\ b + (k - b) = k
      BY <1>2, <1>3, <1>4, <1>5, <1>9, <2>1, <2>2
    <2> QED
      BY <1>5, <2>3
  <1>10. \A i, j \in DOMAIN e : i < j => e[i].id < e[j].id
    BY <1>2, <1>4, <1>5
  <1> HIDE DEF a, b
  <1>11. PendingAt(c)'
    BY <1>7, <1>8, <1>9, <1>10 DEF PendingAt
  <1>12. HandlerAt(c)'
    <2>1. lastSent'[c] = lastSent[c] /\ lastEventId'[c] = lastEventId[c]
      BY <1>1
    <2> QED
      BY <1>1, <1>2, <1>7, <2>1 DEF HandlerAt, Overflowing, Replaying, Polling, Draining
  <1> QED
    BY <1>1, <1>6, <1>11, <1>12, QuietClient

(* Send writes the first frame that is pending.                            *)
LEMMA SendStep ==
  ASSUME StreamInv, NEW c \in Clients, Send(c)
  PROVE  StreamInv'
  <1> DEFINE p == pending[c]
             t == Tail(p)
             w == received[c]
             h == p[1].id
             n == Len(w)
             base == lastSent[c]
             asked == connectedAt[c].seq
  <1>1. /\ pc[c] \in {Replaying, Draining} /\ p # << >>
        /\ UNCHANGED <<bufferVars, pc, log, waiting, connectedAt>>
        /\ lastSent' = [lastSent EXCEPT ![c] = h]
        /\ lastEventId' = [lastEventId EXCEPT ![c] = h]
        /\ received' = [received EXCEPT ![c] = Append(w, h)]
        /\ pending' = [pending EXCEPT ![c] = t]
    BY DEF Send, runVars
  <1>2. /\ Len(log) \in Nat /\ StreamTypes
        /\ ReceivedAt(c) /\ NothingMissing(c) /\ PendingAt(c) /\ HandlerAt(c)
        /\ \A i \in Ids(c) : i \in 1 .. n /\ w[i] \in 1 .. lastEventId[c]
    BY ClientFacts
  <1>3. /\ w \in Seq(Nat) /\ p \in Seq(BufferedEvent) /\ n \in Nat /\ Len(p) \in Nat
        /\ base \in Nat /\ lastEventId[c] \in Nat /\ asked \in Nat /\ connectedAt[c].len \in Nat
        /\ \A i \in 1 .. n : w[i] \in Nat
        /\ \A j \in DOMAIN p : p[j].id \in Nat
        /\ DOMAIN w = 1 .. n
    BY <1>2, ClientTypes
  <1>4. /\ Len(p) >= 1 /\ DOMAIN p = 1 .. Len(p) /\ 1 \in DOMAIN p
        /\ t \in Seq(BufferedEvent) /\ Len(t) = Len(p) - 1 /\ DOMAIN t = 1 .. Len(p) - 1
        /\ \A j \in 1 .. Len(p) - 1 : t[j] = p[j + 1]
    BY <1>1, <1>3
  <1>5. /\ \A i, j \in DOMAIN p : i < j => p[i].id < p[j].id
        /\ \A j \in DOMAIN p : base < p[j].id /\ p[j].id <= Len(log)
        /\ \A j \in DOMAIN p : \A k \in base + 1 .. p[j].id :
             base # 0 \/ nextSeq - 1 <= Capacity \/ h <= k =>
               (\E i \in DOMAIN p : p[i].id = k) \/ Resolved(log, k, Len(log))
        /\ \A j \in DOMAIN p : ~Stale(log, connectedAt[c], p[j].id)
    BY <1>2 DEF PendingAt
  <1>6. /\ h \in Nat /\ base < h /\ h <= Len(log) /\ ~Stale(log, connectedAt[c], h)
        /\ \A i \in DOMAIN p : h <= p[i].id
    <2>1. h \in Nat /\ base < h /\ h <= Len(log) /\ ~Stale(log, connectedAt[c], h)
      BY <1>3, <1>4, <1>5
    <2>2. ASSUME NEW i \in DOMAIN p PROVE h <= p[i].id
      <3>1. i = 1 \/ 1 < i
        BY <1>4
      <3>2. 1 < i => p[1].id < p[i].id
        BY <1>4, <1>5
      <3>3. p[i].id \in Nat
        BY <1>3
      <3> QED
        BY <2>1, <3>1, <3>2, <3>3
    <2> QED
      BY <2>1, <2>2
  <1>7. lastEventId[c] <= base /\ (InStep(c) => base = lastEventId[c])
    BY <1>1, <1>2 DEF HandlerAt
  <1> HIDE DEF t
  <1>8. StreamTypes' /\ OnlyMoves(c)
    <2>1. Append(w, h) \in Seq(Nat)
      BY <1>3, <1>6
    <2>2. received' \in [Clients -> Seq(Nat)] /\ pending' \in [Clients -> Seq(BufferedEvent)]
      BY <1>1, <1>2, <1>4, <2>1 DEF StreamTypes
    <2>3. lastSent' \in [Clients -> Nat] /\ lastEventId' \in [Clients -> Nat]
      BY <1>1, <1>2, <1>6 DEF StreamTypes
    <2> QED
      BY <1>1, <1>2, <2>2, <2>3 DEF StreamTypes, OnlyMoves
  <1>9. /\ lastSent'[c] = h /\ lastEventId'[c] = h /\ pending'[c] = t
        /\ received'[c] = Append(w, h)
        /\ log' = log /\ nextSeq' = nextSeq /\ pc' = pc /\ connectedAt' = connectedAt
    BY <1>1, <1>2 DEF StreamTypes, bufferVars
  <1> HIDE DEF h
  <1>10. /\ Len(received'[c]) = n + 1 /\ received'[c][n + 1] = h
         /\ DOMAIN received'[c] = 1 .. n + 1
         /\ \A i \in 1 .. n : received'[c][i] = w[i]
         /\ received'[c] # << >>
    <2> HIDE DEF w
    <2>1. /\ Len(Append(w, h)) = n + 1 /\ Append(w, h)[n + 1] = h
          /\ DOMAIN Append(w, h) = 1 .. n + 1
          /\ \A i \in 1 .. n : Append(w, h)[i] = w[i]
          /\ Append(w, h) # << >>
      <3>1. Append(w, h) \in Seq(Nat) /\ Len(Append(w, h)) = n + 1
        BY <1>3, <1>6
      <3>2. DOMAIN Append(w, h) = 1 .. n + 1 /\ Append(w, h) # << >>
        <4> DEFINE r == Append(w, h)
        <4>1. r \in Seq(Nat) /\ Len(r) = n + 1
          BY <3>1
        <4> HIDE DEF r, n
        <4>2. DOMAIN r = 1 .. n + 1 /\ r # << >>
          BY <1>3, <4>1
        <4> QED
          BY <4>2 DEF r
      <3>3. Append(w, h)[n + 1] = h /\ \A i \in 1 .. n : Append(w, h)[i] = w[i]
        BY <1>3, <1>6
      <3> QED
        BY <3>1, <3>2, <3>3
    <2> QED
      BY <1>9, <2>1
  <1>11. /\ \A i \in Ids(c)' : i = n + 1 \/ i \in Ids(c)
         /\ InStep(c)'
    <2>1. ASSUME NEW i \in Ids(c)', i # n + 1 PROVE i \in Ids(c)
      <3>1. i \in 1 .. n + 1 /\ received'[c][i] # Overflow
        BY <1>10 DEF Ids
      <3>2. i \in 1 .. n
        BY <1>3, <2>1, <3>1
      <3> QED
        BY <1>3, <1>10, <3>1, <3>2 DEF Ids
    <2>2. received'[c][Len(received'[c])] # Overflow
      BY <1>3, <1>6, <1>10 DEF Overflow
    <2> QED
      BY <2>1, <2>2 DEF InStep
  <1>12. \A i \in Ids(c) : i \in 1 .. n /\ received'[c][i] = w[i] /\ w[i] < h
    <2>1. \A i \in Ids(c) : i \in 1 .. n /\ w[i] \in 1 .. lastEventId[c]
      BY <1>2
    <2>2. \A x \in 1 .. lastEventId[c] : x < h
      BY <1>3, <1>6, <1>7
    <2> QED
      BY <1>10, <2>1, <2>2
  <1>13. ReceivedAt(c)'
    <2>1. \A i \in DOMAIN received'[c] : received'[c][i] <= h
      <3>1. \A i \in 1 .. n : w[i] <= lastEventId[c]
        BY <1>2, <1>3 DEF ReceivedAt
      <3> SUFFICES ASSUME NEW i \in 1 .. n + 1 PROVE received'[c][i] <= h
        BY <1>10
      <3>2. CASE i = n + 1
        BY <1>6, <1>10, <3>2
      <3>3. CASE i # n + 1
        <4>1. i \in 1 .. n
          BY <1>3, <3>3
        <4>2. received'[c][i] = w[i] /\ w[i] \in Nat /\ w[i] <= lastEventId[c]
          BY <1>3, <1>10, <3>1, <4>1
        <4> QED
          BY <1>3, <1>6, <1>7, <4>2
      <3> QED
        BY <3>2, <3>3
    <2>2. ASSUME NEW i \in Ids(c)', NEW j \in Ids(c)', i < j
          PROVE  received'[c][i] < received'[c][j]
      <3>1. i \in Ids(c) /\ i \in 1 .. n
        <4>1. i \in Int /\ j \in Int /\ j <= n + 1
          BY <1>3, <1>11, <1>12
        <4> QED
          BY <1>3, <1>11, <1>12, <2>2, <4>1
      <3>2. CASE j = n + 1
        BY <1>10, <1>12, <3>1, <3>2
      <3>3. CASE j \in Ids(c)
        <4>1. w[i] < w[j]
          BY <1>2, <2>2, <3>1, <3>3 DEF ReceivedAt
        <4> QED
          BY <1>12, <3>1, <3>3, <4>1
      <3> QED
        BY <1>11, <3>2, <3>3
    <2>3. ASSUME NEW i \in Ids(c)', i + 1 \in Ids(c)',
                 NEW k \in received'[c][i] + 1 .. received'[c][i + 1] - 1
          PROVE  Resolved(log, k, Len(log))
      <3>1. i \in Ids(c) /\ i \in 1 .. n
        <4>1. i \in Int /\ i + 1 <= n + 1
          BY <1>3, <1>11, <1>12, <2>3
        <4> QED
          BY <1>3, <1>11, <1>12, <4>1
      <3>2. CASE i = n
        <4>1. w[n] # Overflow /\ w # << >> /\ w[n] \in 1 .. lastEventId[c]
          BY <1>2, <3>1, <3>2 DEF Ids
        <4>2. InStep(c)
          BY <4>1 DEF InStep
        <4>3. base = w[n] /\ base # 0
          BY <1>2, <1>7, <4>1, <4>2 DEF ReceivedAt
        <4>4. received'[c][i] = base /\ received'[c][i + 1] = h
          BY <1>10, <1>12, <3>1, <3>2, <4>3
        <4>5. k \in base + 1 .. h /\ k < h /\ k \in Int
          BY <1>3, <1>6, <2>3, <4>4
        <4>6. (\E m \in DOMAIN p : p[m].id = k) \/ Resolved(log, k, Len(log))
          BY <1>4, <1>5, <4>3, <4>5 DEF h
        <4>7. \A m \in DOMAIN p : p[m].id # k
          BY <1>3, <1>6, <4>5
        <4> QED
          BY <4>6, <4>7
      <3>3. CASE i # n
        <4>1. i + 1 \in Ids(c) /\ i + 1 \in 1 .. n
          BY <1>3, <1>11, <1>12, <2>3, <3>1, <3>3
        <4>2. k \in w[i] + 1 .. w[i + 1] - 1
          BY <1>10, <2>3, <3>1, <4>1
        <4> QED
          BY <1>2, <3>1, <4>1, <4>2 DEF ReceivedAt
      <3> QED
        BY <3>2, <3>3
    <2>4. ASSUME NEW i \in Ids(c)', i > connectedAt[c].len
          PROVE  ~Stale(log, connectedAt[c], received'[c][i])
      <3>1. CASE i = n + 1
        BY <1>6, <1>10, <3>1
      <3>2. CASE i \in Ids(c)
        BY <1>2, <1>12, <2>4, <3>2 DEF ReceivedAt
      <3> QED
        BY <1>11, <3>1, <3>2
    <2>5. connectedAt[c].len <= n + 1 /\ asked <= Len(log)
      BY <1>2, <1>3 DEF ReceivedAt
    <2> QED
      BY <1>6, <1>9, <1>10, <2>1, <2>2, <2>3, <2>4, <2>5 DEF ReceivedAt
  <1>14. NothingMissing(c)'
    <2> SUFFICES ASSUME nextSeq - 1 <= Capacity,
                        \A i \in DOMAIN received'[c] : received'[c][i] # Overflow,
                        NEW k \in 1 .. h
                 PROVE  (\E i \in DOMAIN received'[c] : received'[c][i] = k)
                        \/ Resolved(log, k, Len(log))
      BY <1>9 DEF NothingMissing
    <2>1. \A i \in 1 .. n : w[i] # Overflow
      <3>1. \A i \in 1 .. n : i \in DOMAIN received'[c] /\ received'[c][i] = w[i]
        BY <1>3, <1>10
      <3> QED
        BY <3>1
    <2>2. InStep(c)
      <3>1. w = << >> \/ n \in 1 .. n
        BY <1>3
      <3> QED
        BY <2>1, <3>1 DEF InStep
    <2>3. base = lastEventId[c]
      BY <1>7, <2>2
    <2>4. CASE k <= base
      <3>1. k \in 1 .. lastEventId[c]
        BY <1>3, <2>3, <2>4
      <3>2. (\E i \in 1 .. n : w[i] = k) \/ Resolved(log, k, Len(log))
        BY <1>2, <1>3, <2>1, <3>1 DEF NothingMissing
      <3>3. \A i \in 1 .. n : i \in DOMAIN received'[c]
        BY <1>3, <1>10
      <3> QED
        BY <1>10, <3>2, <3>3
    <2>5. CASE k > base
      <3>1. k \in base + 1 .. h
        BY <1>3, <2>5
      <3>2. (\E m \in DOMAIN p : p[m].id = k) \/ Resolved(log, k, Len(log))
        BY <1>4, <1>5, <3>1 DEF h
      <3>3. (\E m \in DOMAIN p : p[m].id = k) => k = h
        BY <1>3, <1>6
      <3>4. n + 1 \in DOMAIN received'[c]
        BY <1>3, <1>10
      <3> QED
        BY <1>10, <3>2, <3>3, <3>4
    <2> QED
      BY <1>3, <2>4, <2>5
  <1>15. PendingAt(c)'
    <2>1. ASSUME NEW j \in DOMAIN t
          PROVE  /\ j + 1 \in DOMAIN p /\ t[j] = p[j + 1] /\ h < t[j].id
                 /\ t[j].id <= Len(log) /\ ~Stale(log, connectedAt[c], t[j].id)
      <3>1. j + 1 \in DOMAIN p /\ t[j] = p[j + 1] /\ 1 < j + 1
        BY <1>4
      <3>2. h < p[j + 1].id
        BY <1>4, <1>5, <3>1 DEF h
      <3> QED
        BY <1>5, <3>1, <3>2
    <2>2. \A i, j \in DOMAIN t : i < j => t[i].id < t[j].id
      <3>1. \A i, j \in DOMAIN t : i < j => i + 1 < j + 1
        BY <1>4
      <3> QED
        BY <1>5, <2>1, <3>1
    <2>3. ASSUME NEW j \in DOMAIN t, NEW k \in h + 1 .. t[j].id
          PROVE  (\E i \in DOMAIN t : t[i].id = k) \/ Resolved(log, k, Len(log))
      <3>1. j + 1 \in DOMAIN p /\ t[j] = p[j + 1] /\ p[j + 1].id \in Nat
        BY <1>3, <2>1
      <3>2. k \in base + 1 .. p[j + 1].id /\ h < k /\ h <= k
        BY <1>3, <1>6, <2>3, <3>1
      <3>3. (\E i \in DOMAIN p : p[i].id = k) \/ Resolved(log, k, Len(log))
        BY <1>5, <3>1, <3>2
      <3>4. ASSUME NEW i \in DOMAIN p, p[i].id = k
            PROVE  i - 1 \in DOMAIN t /\ t[i - 1].id = k
        <4>1. i # 1
          BY <1>6, <3>2, <3>4 DEF h
        <4>2. i - 1 \in 1 .. Len(p) - 1 /\ (i - 1) + 1 = i
          BY <1>4, <4>1
        <4>3. t[i - 1] = p[(i - 1) + 1]
          BY <1>4, <4>2
        <4> QED
          BY <1>4, <3>4, <4>2, <4>3
      <3> QED
        BY <3>3, <3>4
    <2> HIDE DEF p
    <2> QED
      BY <1>9, <2>1, <2>2, <2>3 DEF PendingAt
  <1>16. HandlerAt(c)'
    <2>1. pc[c] = Draining => asked <= h
      BY <1>2, <1>3, <1>6 DEF HandlerAt
    <2>2. pc[c] = Replaying => asked <= IF t = << >> THEN h ELSE t[Len(t)].id
      <3>1. pc[c] = Replaying => asked <= p[Len(p)].id
        BY <1>1, <1>2 DEF HandlerAt
      <3>2. CASE t = << >>
        <4>1. Len(p) = 1
          BY <1>3, <1>4, <3>2
        <4> QED
          BY <3>1, <3>2, <4>1 DEF h
      <3>3. CASE t # << >>
        <4>1. Len(t) \in 1 .. Len(p) - 1 /\ Len(t) + 1 = Len(p)
          BY <1>3, <1>4, <3>3
        <4>2. t[Len(t)] = p[Len(p)]
          BY <1>4, <4>1
        <4> QED
          BY <3>1, <3>3, <4>2
      <3> QED
        BY <3>2, <3>3
    <2> QED
      BY <1>1, <1>6, <1>9, <2>1, <2>2
      DEF HandlerAt, Overflowing, Replaying, Polling, Draining
  <1> QED
    BY <1>8, <1>13, <1>14, <1>15, <1>16, ClientStep DEF ClientAt

-----------------------------------------------------------------------------
(* The invariant.                                                          *)

(* The worker and the voice handler append to the buffer.                  *)
LEMMA AppendStep ==
  ASSUME StreamInv, NEW ev \in Events, AppendEvent(ev), CanEmit(ev),
         log' = Append(log, ev), waiting' = WaitingAfter(ev),
         UNCHANGED <<streamVars, received, connectedAt>>
  PROVE  StreamInv'
  <1>1. /\ TypeOK /\ RingInv /\ StreamTypes /\ LogMatches /\ WaitingForms
        /\ log \in Seq(Events) /\ nextSeq \in Nat /\ nextSeq' = nextSeq + 1
    BY DEF StreamInv, StreamTypes, TypeOK, AppendEvent
  <1>2. /\ UNCHANGED <<pc, lastSent, pending, lastEventId, received, connectedAt>>
    BY DEF streamVars
  <1>3. TypeOK' /\ RingInv'
    BY <1>1, RingStep DEF Next
  <1>4. LogMatches'
    BY <1>1, AppendMatches
  <1>5. WaitingForms'
    BY <1>1, AppendKeepsForms
  <1>6. StreamTypes'
    <2>1. log' \in Seq(Events)
      BY <1>1, AnswersGrow
    <2> QED
      BY <1>1, <1>2, <2>1 DEF StreamTypes
  <1>7. ASSUME NEW c \in Clients PROVE ClientAt(c)'
    <2>1. ClientAt(c)
      BY DEF StreamInv
    <2> QED
      BY <1>1, <1>2, <1>4, <2>1, AppendKeepsClient
  <1> QED
    BY <1>3, <1>4, <1>5, <1>6, <1>7 DEF StreamInv

(* MarkDone, a consent that is decided, and a step of something else, move *)
(* nothing of this.                                                        *)
LEMMA IdleStep ==
  ASSUME StreamInv, [MarkDone]_bufferVars,
         waiting' = waiting \/ \E r \in Consents : waiting' = waiting \ {r},
         UNCHANGED <<streamVars, log, received, connectedAt>>
  PROVE  StreamInv'
  <1>1. TypeOK' /\ RingInv'
    BY RingStep DEF StreamInv, Next
  <1>2. /\ UNCHANGED <<pc, lastSent, pending, lastEventId, log, received, connectedAt>>
        /\ UNCHANGED <<buf, start, count, nextSeq>>
    BY DEF streamVars, MarkDone, bufferVars
  <1>3. LogMatches' /\ StreamTypes'
    BY <1>2 DEF StreamInv, LogMatches, StreamTypes, Window
  <1>5. WaitingForms'
    <2>1. OpenForms(DOMAIN log)' = OpenForms(DOMAIN log)
      BY <1>2 DEF OpenForms
    <2>2. waiting' \subseteq waiting /\ waiting \subseteq waiting' \cup Consents
      OBVIOUS
    <2> QED
      BY <2>1, <2>2 DEF StreamInv, WaitingForms
  <1>4. ASSUME NEW c \in Clients PROVE ClientAt(c)'
    BY <1>2, SameClient DEF StreamInv
  <1> QED
    BY <1>1, <1>3, <1>4, <1>5 DEF StreamInv

(* An empty buffer and clients that are not connected satisfy it.         *)
LEMMA StreamInvInit == StreamInit => StreamInv
  <1> SUFFICES ASSUME StreamInit PROVE StreamInv
    OBVIOUS
  <1>1. TypeOK /\ RingInv
    BY RingInit DEF StreamInit, Init
  <1>2. /\ nextSeq = 1 /\ count = 0 /\ log = << >> /\ Len(log) = 0 /\ DOMAIN log = {}
        /\ log \in Seq(Events)
    BY DEF StreamInit, NewEventBuffer
  <1>8. waiting = {}
    BY DEF StreamInit
  <1>3. ASSUME NEW c \in Clients
        PROVE  /\ pc[c] = Off /\ lastSent[c] = 0 /\ lastEventId[c] = 0
               /\ pending[c] = << >> /\ received[c] = << >>
               /\ connectedAt[c].seq = 0 /\ connectedAt[c].len = 0
    BY DEF StreamInit
  <1>4. StreamTypes
    <2>1. << >> \in Seq(BufferedEvent) /\ << >> \in Seq(Nat)
      OBVIOUS
    <2> QED
      BY <1>2, <2>1 DEF StreamInit, StreamTypes
  <1>5. LogMatches /\ WaitingForms
    BY <1>2, <1>8 DEF LogMatches, WaitingForms, OpenForms
  <1>6. ASSUME NEW c \in Clients PROVE ClientAt(c)
    <2>1. DOMAIN received[c] = {} /\ Len(received[c]) = 0 /\ Ids(c) = {} /\ DOMAIN pending[c] = {}
      BY <1>3 DEF Ids
    <2>2. ReceivedAt(c)
      BY <1>2, <1>3, <2>1 DEF ReceivedAt
    <2>3. NothingMissing(c) /\ PendingAt(c)
      BY <1>3, <2>1 DEF NothingMissing, PendingAt
    <2>4. HandlerAt(c)
      BY <1>3 DEF HandlerAt, Off, Overflowing, Replaying, Polling, Draining
    <2> QED
      BY <2>2, <2>3, <2>4 DEF ClientAt
  <1> QED
    BY <1>1, <1>4, <1>5, <1>6 DEF StreamInv

(* Every step of a producer, of a handler and of a client preserves it.    *)
LEMMA StreamInvStep == StreamInv /\ [StreamNext]_allVars => StreamInv'
  <1> SUFFICES ASSUME StreamInv, [StreamNext]_allVars PROVE StreamInv'
    OBVIOUS
  <1>1. ASSUME NEW ev \in Events, WorkerAppend(ev) PROVE StreamInv'
    BY <1>1, AppendStep DEF WorkerAppend
  <1>8. ASSUME NEW r \in Requests, ConsentDecided(r) PROVE StreamInv'
    BY <1>8, IdleStep DEF ConsentDecided, histVars
  <1>2. ASSUME WorkerDone PROVE StreamInv'
    BY <1>2, IdleStep DEF WorkerDone, histVars, runVars
  <1>3. ASSUME AppendVoiceTranscriptionEvent PROVE StreamInv'
    <2> DEFINE ev == [type |-> "other", id |-> "none"]
    <2>1. ev \in Events
      BY EventsAssumption DEF RunEvents
    <2>2. CanEmit(ev) /\ waiting = WaitingAfter(ev)
      BY DEF CanEmit, WaitingAfter
    <2>3. /\ AppendEvent(ev) /\ log' = Append(log, ev)
          /\ UNCHANGED <<streamVars, waiting, received, connectedAt>>
      BY <1>3 DEF AppendVoiceTranscriptionEvent
    <2> HIDE DEF ev
    <2> QED
      BY <2>1, <2>2, <2>3, AppendStep
  <1>4. ASSUME NEW c \in Clients, ResumeSession(c) PROVE StreamInv'
    BY <1>4, ResumeSessionStep
  <1>5. ASSUME NEW c \in Clients, ServerStep(c) PROVE StreamInv'
    BY <1>5, SkipToNewestStep, SendStep, CheckStep, PollStep DEF ServerStep
  <1>6. ASSUME NEW c \in Clients, Disconnect(c) PROVE StreamInv'
    BY <1>6, DisconnectStep
  <1>7. ASSUME UNCHANGED allVars PROVE StreamInv'
    BY <1>7, IdleStep DEF allVars, histVars, runVars
  <1> QED
    BY <1>1, <1>2, <1>3, <1>4, <1>5, <1>6, <1>7, <1>8 DEF StreamNext, Producer

(* It holds throughout a run's stream.                                     *)
LEMMA StreamInvariant == StreamSpec => []StreamInv
  BY StreamInvInit, StreamInvStep, PTL DEF StreamSpec

-----------------------------------------------------------------------------
(* Over all its connections a client receives every event at most once and *)
(* in order: the Last-Event-ID it comes back with, the replay and the      *)
(* lastSent of resumeSession's poll loop agree on where it is.             *)
THEOREM DeliveredInOrder == StreamSpec => []DeliveryIncreasing
  <1>1. StreamInv => DeliveryIncreasing
    BY DEF StreamInv, ClientAt, ReceivedAt, DeliveryIncreasing
  <1> QED
    BY <1>1, StreamInvariant, PTL

(* Two frames received one after the other are consecutive but for forms   *)
(* already answered: resumeSession announces every other hole, whatever    *)
(* the ring evicts between its calls.                                      *)
THEOREM GapsAnnounced == StreamSpec => []NoSilentGap
  <1>1. StreamInv => NoSilentGap
    BY DEF StreamInv, ClientAt, ReceivedAt, NoSilentGap
  <1> QED
    BY <1>1, StreamInvariant, PTL

(* filterReplayableEvents hides a form only together with the event that   *)
(* resolves it: a form answered before the client connected is not shown   *)
(* again unless it is a consent or its id had been resolved before, and a  *)
(* client that has caught up shows every form the run is waiting for and   *)
(* beyond those nothing but consents.                                      *)
THEOREM FormsShown == StreamSpec => []FormsConsistent
  <1>1. StreamInv => NoStaleForm
    <2> SUFFICES ASSUME StreamInv, NEW c \in Clients, NEW i \in Ids(c), ReplayedForm(c, i)
                 PROVE  \/ log[received[c][i]].id \in connectedAt[c].open \cup Consents
                        \/ Reused(log, received[c][i])
      BY DEF NoStaleForm
    <2>1. ~Stale(log, connectedAt[c], received[c][i])
      BY DEF StreamInv, ClientAt, ReceivedAt, ReplayedForm
    <2> QED
      BY <2>1 DEF Stale, ReplayedForm
  <1>2. StreamInv => FormsAgree
    <2> DEFINE S(c) == {received[c][i] : i \in Ids(c)}
    <2> SUFFICES ASSUME StreamInv, NEW c \in Clients, pc[c] = Polling, lastSent[c] = NewestSeq,
                        nextSeq - 1 <= Capacity,
                        \A i \in DOMAIN received[c] : received[c][i] # Overflow
                 PROVE  waiting \subseteq OpenForms(S(c)) /\ OpenForms(S(c)) \subseteq waiting \cup Consents
      BY DEF FormsAgree
    <2> DEFINE s == S(c)
    <2>1. /\ Len(log) \in Nat /\ log \in Seq(Events) /\ NewestSeq = Len(log) /\ WaitingForms
          /\ NothingMissing(c) /\ HandlerAt(c) /\ lastEventId[c] \in 0 .. Len(log)
          /\ \A i \in Ids(c) : received[c][i] \in 1 .. lastEventId[c]
      BY ClientFacts
    <2>2. DOMAIN log = 1 .. Len(log)
      BY <2>1
    <2>3. InStep(c)
      <3>1. received[c] \in Seq(Nat)
        BY ClientTypes DEF StreamInv
      <3>2. received[c] = << >> \/ Len(received[c]) \in DOMAIN received[c]
        BY <3>1
      <3> QED
        BY <3>2 DEF InStep
    <2>4. lastEventId[c] = Len(log)
      BY <2>1, <2>3 DEF HandlerAt
    <2>5. \A k \in DOMAIN log : k \in s \/ Resolved(log, k, Len(log))
      <3>1. \A i \in DOMAIN received[c] : i \in Ids(c)
        BY DEF Ids
      <3> QED
        BY <2>1, <2>2, <2>4, <3>1 DEF NothingMissing
    <2>6. s \subseteq DOMAIN log
      BY <2>1, <2>2, <2>4
    <2> HIDE DEF s, S
    <2>7. ASSUME NEW r, NEW k \in DOMAIN log, Answers(log, k, r) PROVE k \in s
      BY <2>1, <2>5, <2>7, EventIs DEF Resolved
    <2>8. ASSUME NEW r \in Requests, NEW k \in DOMAIN log, Asks(log, k, r),
                 \A j \in DOMAIN log : j > k => ~Answers(log, j, r)
          PROVE  k \in s
      <3>1. log[k].id = r
        BY <2>8 DEF Asks
      <3>2. \A j \in k + 1 .. Len(log) : j \in DOMAIN log /\ j > k
        BY <2>2
      <3> QED
        BY <2>5, <2>8, <3>1, <3>2 DEF Resolved, Answers
    <2>9. ASSUME NEW r \in Requests
          PROVE  (\E k \in s : Asks(log, k, r) /\ \A j \in s : j > k => ~Answers(log, j, r))
                 <=> (\E k \in DOMAIN log :
                        Asks(log, k, r) /\ \A j \in DOMAIN log : j > k => ~Answers(log, j, r))
      BY <2>6, <2>7, <2>8
    <2>10. OpenForms(s) = OpenForms(DOMAIN log)
      BY <2>9 DEF OpenForms, Asks, Answers
    <2>11. waiting \subseteq OpenForms(s) /\ OpenForms(s) \subseteq waiting \cup Consents
      BY <2>1, <2>10 DEF WaitingForms
    <2> QED
      BY <2>11 DEF s
  <1> QED
    BY <1>1, <1>2, StreamInvariant, PTL DEF FormsConsistent
=============================================================================
