-------------------------- MODULE UserInputProofs ---------------------------
(***************************************************************************)
(* For any runs, pods, requests and answers: a request that waits can be   *)
(* answered, and the answer it gets, and the one its row gets, is the one  *)
(* its user gave, with the exceptions that the properties name.            *)
(***************************************************************************)
EXTENDS UserInput, FiniteSetTheorems, SequenceTheorems, WellFoundedInduction, TLAPS

-----------------------------------------------------------------------------
(* The inductive invariant.                                                *)

Kinds == {"ask_user", "consent", "action"}
Ids == ({"call"} \X Nat) \cup ({"consent"} \X InputRuns)
Entries == [req : Nat, answer : Nat]
ARequest == [run : InputRuns, kind : Kinds, id : Ids, at : InputRuns \cup {NoHandler}]
ARow == [state : {"none", "suspended", "resumed"}, by : Nat]
AResult == [state : {"waiting", "cancelled", "answered"}, by : Nat]
AnAnswer == [for : Nat, pod : InputPods, state : {"sent", "resolve", "acked", "refused"},
             handled : BOOLEAN]

InputTypes ==
  /\ runState \in [InputRuns -> {"new", "running", "waiting", "over"}]
  /\ cancelled \in [InputRuns -> BOOLEAN]
  /\ handlerOf \in [InputPods -> InputRuns \cup {NoHandler}]
  /\ queue \in [InputRuns -> Seq(Entries)]
  /\ requests \in Seq(ARequest) /\ rows \in Seq(ARow) /\ results \in Seq(AResult)
  /\ answers \in Seq(AnAnswer)
  /\ disturbed \subseteq InputRuns
  /\ Len(rows) = Len(requests) /\ Len(results) = Len(requests)
  /\ Len(requests) <= MaxCalls /\ Len(answers) <= MaxAnswers

(* The registration of a run lasts as long as the run, unless another run  *)
(* of the session disturbs it.                                             *)
HandlerKept ==
  \A r \in InputRuns :
    runState[r] \in {"running", "waiting"} /\ r \notin disturbed => handlerOf[PodOf[r]] = r

(* A run waits for one request at a time.                                  *)
OneWaits ==
  /\ \A r \in InputRuns : runState[r] = "waiting" =>
       \E n \in DOMAIN requests : Owner(n) = r /\ Waits(n)
  /\ \A m, n \in DOMAIN requests : Waits(m) /\ Waits(n) /\ Owner(m) = Owner(n) => m = n

(* The queue holds the request, or request n with answer a.                *)
Queued(h, n) == \E k \in DOMAIN queue[h] : queue[h][k].req = n
QueuedWith(h, n, a) == \E k \in DOMAIN queue[h] : queue[h][k].req = n /\ queue[h][k].answer = a

(* Every request has its place and an id that only consents share.         *)
RequestAt(n) ==
  /\ requests[n].id = IF requests[n].kind = "consent" THEN <<"consent", Owner(n)>> ELSE <<"call", n>>
  /\ requests[n].kind # "action" => requests[n].at = Owner(n)
  /\ Waits(n) => runState[Owner(n)] = "waiting" /\ requests[n].at \in InputRuns /\ Queued(requests[n].at, n)
  /\ Waits(n) /\ Owner(n) \notin disturbed => requests[n].at = Owner(n)
  /\ results[n].state = "cancelled" /\ requests[n].kind = "consent" => cancelled[Owner(n)]

(* Answer a has been taken for request n: it was given to n, or to another *)
(* consent with the id of n.                                               *)
Taken(a, n) ==
  /\ a \in DOMAIN answers /\ answers[a].state # "sent"
  /\ requests[answers[a].for].id = requests[n].id
  /\ answers[a].for = n \/ Displaced(n)

(* A queue holds a request once, and one that is not answered can be.      *)
EntryAt(h, k) ==
  LET e == queue[h][k]
  IN  /\ e.req \in DOMAIN requests /\ requests[e.req].at = h
      /\ e.answer = 0 => results[e.req].state # "answered"
      /\ e.answer # 0 => Taken(e.answer, e.req)
      /\ \A j \in DOMAIN queue[h] : queue[h][j].req = e.req => j = k

ResultAt(n) ==
  /\ results[n].state = "answered" => Taken(results[n].by, n)
  /\ results[n].state # "answered" => results[n].by = 0

(* What may keep the run from being told the answer its row has.           *)
Shares(n) == requests[n].kind = "consent" /\ \E m \in DOMAIN requests : m # n /\ Owner(m) = Owner(n)
Excused(n) == results[n].state = "cancelled" \/ Repeated(n) \/ Owner(n) \in disturbed \/ Shares(n)
Told(a, n) == results[n].by = a \/ (Waits(n) /\ QueuedWith(Owner(n), n, a))

AnswerAt(a) ==
  /\ answers[a].for \in DOMAIN requests
  /\ answers[a].state # "sent" =>
       \/ answers[a].pod # PodOf[Owner(answers[a].for)]
       \/ Excused(answers[a].for) \/ Told(a, answers[a].for)

RowAt(n) ==
  /\ rows[n].state # "resumed" => rows[n].by = 0
  /\ rows[n].state = "resumed" =>
       /\ rows[n].by \in DOMAIN answers /\ answers[rows[n].by].state # "sent"
       /\ answers[rows[n].by].for = n \/ Shares(n)

InputInv ==
  /\ InputTypes /\ HandlerKept /\ OneWaits
  /\ \A n \in DOMAIN requests : RequestAt(n) /\ ResultAt(n) /\ RowAt(n)
  /\ \A h \in InputRuns : \A k \in DOMAIN queue[h] : EntryAt(h, k)
  /\ \A a \in DOMAIN answers : AnswerAt(a)

-----------------------------------------------------------------------------
(* What the invariant says of the parts.                                   *)

(* The types of what the sequences hold.                                   *)
LEMMA InputFacts ==
  ASSUME InputTypes
  PROVE  /\ Len(requests) \in Nat /\ DOMAIN requests = 1 .. Len(requests)
         /\ DOMAIN rows = DOMAIN requests /\ DOMAIN results = DOMAIN requests
         /\ Len(answers) \in Nat /\ DOMAIN answers = 1 .. Len(answers)
         /\ \A n \in DOMAIN requests :
              /\ Owner(n) \in InputRuns /\ requests[n].kind \in Kinds
              /\ requests[n].at \in InputRuns \cup {NoHandler}
              /\ results[n].state \in {"waiting", "cancelled", "answered"} /\ results[n].by \in Nat
              /\ rows[n].state \in {"none", "suspended", "resumed"} /\ rows[n].by \in Nat
         /\ \A a \in DOMAIN answers :
              /\ answers[a].pod \in InputPods /\ answers[a].for \in Nat
              /\ answers[a].state \in {"sent", "resolve", "acked", "refused"}
         /\ \A h \in InputRuns :
              /\ queue[h] \in Seq(Entries) /\ Len(queue[h]) \in Nat
              /\ DOMAIN queue[h] = 1 .. Len(queue[h])
              /\ \A k \in DOMAIN queue[h] :
                   queue[h][k] \in Entries /\ queue[h][k].req \in Nat /\ queue[h][k].answer \in Nat
  <1>1. /\ Len(requests) \in Nat /\ DOMAIN requests = 1 .. Len(requests)
        /\ DOMAIN rows = DOMAIN requests /\ DOMAIN results = DOMAIN requests
        /\ Len(answers) \in Nat /\ DOMAIN answers = 1 .. Len(answers)
    BY DEF InputTypes
  <1>2. ASSUME NEW n \in DOMAIN requests
        PROVE  /\ Owner(n) \in InputRuns /\ requests[n].kind \in Kinds
               /\ requests[n].at \in InputRuns \cup {NoHandler}
               /\ results[n].state \in {"waiting", "cancelled", "answered"} /\ results[n].by \in Nat
               /\ rows[n].state \in {"none", "suspended", "resumed"} /\ rows[n].by \in Nat
    <2>1. requests[n] \in ARequest /\ rows[n] \in ARow /\ results[n] \in AResult
      BY <1>1 DEF InputTypes
    <2> QED
      BY <2>1 DEF Owner, ARequest, ARow, AResult
  <1>3. ASSUME NEW a \in DOMAIN answers
        PROVE  /\ answers[a].pod \in InputPods /\ answers[a].for \in Nat
               /\ answers[a].state \in {"sent", "resolve", "acked", "refused"}
    <2>1. answers[a] \in AnAnswer
      BY <1>1 DEF InputTypes
    <2> QED
      BY <2>1 DEF AnAnswer
  <1>4. ASSUME NEW h \in InputRuns
        PROVE  /\ queue[h] \in Seq(Entries) /\ Len(queue[h]) \in Nat
               /\ DOMAIN queue[h] = 1 .. Len(queue[h])
               /\ \A k \in DOMAIN queue[h] :
                    queue[h][k] \in Entries /\ queue[h][k].req \in Nat /\ queue[h][k].answer \in Nat
    <2>1. queue[h] \in Seq(Entries)
      BY DEF InputTypes
    <2>2. \A k \in DOMAIN queue[h] : queue[h][k] \in Entries
      BY <2>1
    <2> QED
      BY <2>1, <2>2 DEF Entries
  <1> QED
    BY <1>1, <1>2, <1>3, <1>4

(* What the steps below use of the invariant.                              *)
LEMMA InvFacts ==
  ASSUME InputInv
  PROVE  /\ InputTypes
         /\ Len(requests) \in Nat /\ DOMAIN requests = 1 .. Len(requests)
         /\ DOMAIN rows = DOMAIN requests /\ DOMAIN results = DOMAIN requests
         /\ Len(answers) \in Nat /\ DOMAIN answers = 1 .. Len(answers)
         /\ \A n \in DOMAIN requests :
              RequestAt(n) /\ ResultAt(n) /\ RowAt(n) /\ Owner(n) \in InputRuns /\ PodOf[Owner(n)] \in InputPods
         /\ \A a \in DOMAIN answers : AnswerAt(a) /\ answers[a].for \in DOMAIN requests
         /\ \A h \in InputRuns : \A k \in DOMAIN queue[h] :
              EntryAt(h, k) /\ queue[h][k].req \in DOMAIN requests
  BY InputFacts, UserInputAssumptions DEF InputInv, AnswerAt, EntryAt

(* Only the consents of a run share an id.                                 *)
LEMMA IdsApart ==
  ASSUME InputInv, NEW m \in DOMAIN requests, NEW n \in DOMAIN requests
  PROVE  requests[m].id = requests[n].id <=>
           \/ m = n
           \/ requests[m].kind = "consent" /\ requests[n].kind = "consent" /\ Owner(m) = Owner(n)
  <1>1. RequestAt(m) /\ RequestAt(n)
    BY InvFacts
  <1>2. /\ requests[m].id = IF requests[m].kind = "consent" THEN <<"consent", Owner(m)>> ELSE <<"call", m>>
        /\ requests[n].id = IF requests[n].kind = "consent" THEN <<"consent", Owner(n)>> ELSE <<"call", n>>
    BY <1>1 DEF RequestAt
  <1> QED
    BY <1>2

(* The request a run waits for, and its entry.                             *)
LEMMA AwaitedIs ==
  ASSUME InputInv, NEW r \in InputRuns, runState[r] = "waiting"
  PROVE  LET n == Awaited(r)
         IN  /\ n \in DOMAIN requests /\ Owner(n) = r /\ Waits(n) /\ requests[n].at \in InputRuns
             /\ \E k \in DOMAIN queue[requests[n].at] :
                  queue[requests[n].at][k].req = n /\ Entry(r, n) = queue[requests[n].at][k]
  <1> DEFINE n == Awaited(r)
  <1>1. \E i \in DOMAIN requests : requests[i].run = r /\ Waits(i)
    BY DEF InputInv, OneWaits, Owner
  <1>2. n \in DOMAIN requests /\ requests[n].run = r /\ Waits(n)
    BY <1>1, Zenon DEF Awaited
  <1> HIDE DEF n
  <1>3. requests[n].at \in InputRuns /\ Queued(requests[n].at, n)
    BY <1>2, InvFacts DEF RequestAt
  <1> DEFINE q == queue[requests[n].at]
  <1>4. \E e \in ToSet(q) : e.req = n
    BY <1>3 DEF Queued, ToSet
  <1>5. Entry(r, n) \in ToSet(q) /\ Entry(r, n).req = n
    BY <1>4, Zenon DEF Entry
  <1> QED
    BY <1>2, <1>3, <1>5 DEF ToSet, n, Owner

-----------------------------------------------------------------------------
(* Numbers and queues.                                                     *)

(* Every set of numbers that is not empty has a least one.                 *)
LEMMA LeastOf ==
  ASSUME NEW T, T \subseteq Nat, T # {}
  PROVE  \E m \in T : \A k \in T : m <= k
  <1> DEFINE R == OpToRel(<, Nat)
  <1>1. IsWellFoundedOn(R, Nat)
    BY NatLessThanWellFounded
  <1>2. \A y, x \in Nat : y < x => <<y, x>> \in R
    BY DEF OpToRel
  <1> HIDE DEF R
  <1>3. PICK m \in T : \A y \in T : ~(<<y, m>> \in R)
    BY <1>1, WFMin
  <1>4. \A y \in T : y \in Nat /\ m \in Nat /\ ~(y < m)
    BY <1>2, <1>3, Zenon
  <1> QED
    BY <1>3, <1>4

(* Min finds it.                                                           *)
LEMMA MinIsLeast ==
  ASSUME NEW T, T \subseteq Nat, T # {}
  PROVE  Min(T) \in T /\ \A k \in T : Min(T) <= k
  BY LeastOf, Zenon DEF Min

(* A bounded one has a greatest.                                           *)
LEMMA GreatestOf ==
  ASSUME NEW b \in Nat, NEW T, T \subseteq 0 .. b, T # {}
  PROVE  \E m \in T : \A k \in T : k <= m
  <1> DEFINE U == {i \in Nat : b - i \in T}
  <1>1. \A m \in T : b - m \in U /\ m \in Nat
    OBVIOUS
  <1>2. PICK i \in U : \A j \in U : i <= j
    <2>1. U \subseteq Nat /\ U # {}
      BY <1>1
    <2> HIDE DEF U
    <2> QED
      BY <2>1, LeastOf
  <1>3. b - i \in T /\ i \in Nat
    OBVIOUS
  <1> HIDE DEF U
  <1>4. ASSUME NEW k \in T PROVE k <= b - i
    <2>1. i <= b - k /\ k \in Nat
      BY <1>1, <1>2
    <2> QED
      BY <1>3, <2>1
  <1> QED
    BY <1>3, <1>4

-----------------------------------------------------------------------------
(* What a step never takes back.                                           *)

Later ==
  /\ DOMAIN requests \subseteq DOMAIN requests'
  /\ \A n \in DOMAIN requests : requests'[n] = requests[n]
  /\ DOMAIN answers \subseteq DOMAIN answers'
  /\ \A a \in DOMAIN answers :
       /\ answers'[a].for = answers[a].for /\ answers'[a].pod = answers[a].pod
       /\ answers[a].state # "sent" => answers'[a].state # "sent"
  /\ \A r \in InputRuns : cancelled[r] => cancelled'[r]
  /\ disturbed \subseteq disturbed'

(* A request two answers were sent to is answered repeatedly.              *)
LEMMA RepeatedByTwo ==
  ASSUME InputTypes, NEW n, NEW a \in DOMAIN answers, NEW b \in DOMAIN answers,
         a # b, answers[a].for = n, answers[b].for = n
  PROVE  Repeated(n)
  <1> DEFINE S == {i \in DOMAIN answers : answers[i].for = n}
  <1>1. {a, b} \subseteq S /\ S \subseteq 1 .. Len(answers) /\ Len(answers) \in Nat
    BY InputFacts
  <1>2. IsFiniteSet(S)
    BY <1>1, FS_Interval, FS_Subset
  <1> HIDE DEF S
  <1>3. Cardinality({a, b}) <= Cardinality(S)
    BY <1>1, <1>2, FS_Subset
  <1>4. Cardinality({b}) = 1 /\ IsFiniteSet({b}) /\ {b} \cup {a} = {a, b}
    BY FS_Singleton
  <1>5. Cardinality({a, b}) = 2
    BY <1>4, FS_AddElement
  <1>6. Cardinality(S) \in Nat
    BY <1>2, FS_CardinalityType
  <1> QED
    BY <1>3, <1>5, <1>6 DEF Repeated, S

(* What has become of a request and its answers stays so.                  *)
LEMMA LaterKeeps ==
  ASSUME InputInv, InputTypes', Later
  PROVE  /\ \A n \in DOMAIN requests :
              /\ Repeated(n) => Repeated(n)'
              /\ Displaced(n) => Displaced(n)'
              /\ Shares(n) => Shares(n)'
              /\ \A a : Taken(a, n) => Taken(a, n)'
              /\ Owner(n)' = Owner(n)
  <1>0. \A n \in DOMAIN requests : requests'[n] = requests[n] /\ n \in DOMAIN requests' /\ Owner(n)' = Owner(n)
                                   /\ Owner(n) \in InputRuns
    BY InvFacts DEF Later, Owner
  <1>1. ASSUME NEW n, Repeated(n) PROVE Repeated(n)'
    <2> DEFINE S == {a \in DOMAIN answers : answers[a].for = n}
               T == {a \in DOMAIN answers' : answers'[a].for = n}
    <2>1. S \subseteq T
      BY DEF Later
    <2>2. Len(answers') \in Nat /\ T \subseteq 1 .. Len(answers')
      <3>1. answers' \in Seq(AnAnswer)
        BY DEF InputTypes
      <3> QED
        BY <3>1
    <2>3. IsFiniteSet(T)
      BY <2>2, FS_Interval, FS_Subset
    <2> HIDE DEF S, T
    <2>4. /\ IsFiniteSet(S) /\ Cardinality(S) <= Cardinality(T)
          /\ Cardinality(S) \in Nat /\ Cardinality(T) \in Nat
      BY <2>1, <2>3, FS_Subset, FS_CardinalityType
    <2>5. Cardinality(S) > 1
      BY <1>1 DEF Repeated, S
    <2>6. Cardinality(T) > 1
      BY <2>4, <2>5
    <2> QED
      BY <2>6 DEF Repeated, T
  <1>2. ASSUME NEW n \in DOMAIN requests, Displaced(n) PROVE Displaced(n)'
    <2>1. CASE cancelled[Owner(n)]
      BY <1>0, <1>2, <2>1 DEF Displaced, Later
    <2>2. CASE \E m \in DOMAIN requests : requests[m].id = requests[n].id /\ Repeated(m)
      BY <1>0, <1>1, <1>2, <2>2 DEF Displaced
    <2> QED
      BY <1>2, <2>1, <2>2 DEF Displaced
  <1>3. ASSUME NEW n \in DOMAIN requests, Shares(n) PROVE Shares(n)'
    BY <1>0, <1>3 DEF Shares
  <1>4. ASSUME NEW n \in DOMAIN requests, NEW a, Taken(a, n) PROVE Taken(a, n)'
    <2>1. a \in DOMAIN answers /\ answers[a].for \in DOMAIN requests
      BY <1>4, InvFacts DEF Taken
    <2>2. a \in DOMAIN answers' /\ answers'[a].for = answers[a].for /\ answers'[a].state # "sent"
      BY <1>4, <2>1 DEF Later, Taken
    <2> QED
      BY <1>0, <1>2, <1>4, <2>1, <2>2 DEF Taken
  <1> QED
    BY <1>0, <1>1, <1>2, <1>3, <1>4

(* A step that leaves requests, results and queues, and settles the rows   *)
(* and answers that it touches.                                            *)
LEMMA QuietStep ==
  ASSUME InputInv, UNCHANGED <<queue, requests, results>>,
         InputTypes', Later, HandlerKept',
         \A r \in InputRuns : runState'[r] = "waiting" <=> runState[r] = "waiting",
         \A n \in DOMAIN requests : rows'[n] = rows[n] \/ RowAt(n)',
         \A a \in DOMAIN answers' :
           \/ a \in DOMAIN answers /\ (answers'[a].state # "sent" => answers[a].state # "sent")
           \/ AnswerAt(a)'
  PROVE  InputInv'
  <1>1. \A n \in DOMAIN requests :
           /\ Repeated(n) => Repeated(n)'
           /\ Shares(n) => Shares(n)'
           /\ \A a : Taken(a, n) => Taken(a, n)'
           /\ Owner(n)' = Owner(n) /\ Owner(n) \in InputRuns
           /\ Waits(n)' <=> Waits(n)
           /\ requests'[n] = requests[n] /\ results'[n] = results[n]
    BY LaterKeeps, InvFacts DEF Waits
  <1>2. disturbed \subseteq disturbed' /\ \A r \in InputRuns : cancelled[r] => cancelled'[r]
    BY DEF Later
  <1>3. OneWaits'
    BY <1>1 DEF InputInv, OneWaits
  <1>4. ASSUME NEW n \in DOMAIN requests PROVE RequestAt(n)' /\ ResultAt(n)' /\ RowAt(n)'
    <2>1. RequestAt(n) /\ ResultAt(n) /\ RowAt(n)
      BY InvFacts
    <2>2. RequestAt(n)'
      BY <1>1, <1>2, <2>1 DEF RequestAt, Queued
    <2>3. ResultAt(n)'
      BY <1>1, <2>1 DEF ResultAt
    <2>4. CASE rows'[n] = rows[n]
      <3>1. ASSUME rows[n].state = "resumed"
            PROVE  /\ rows[n].by \in DOMAIN answers' /\ answers'[rows[n].by].state # "sent"
                   /\ answers'[rows[n].by].for = answers[rows[n].by].for
        BY <2>1, <3>1 DEF RowAt, Later
      <3> QED
        BY <1>1, <2>1, <2>2, <2>3, <2>4, <3>1 DEF RowAt
    <2> QED
      BY <2>2, <2>3, <2>4
  <1>5. ASSUME NEW h \in InputRuns, NEW k \in DOMAIN queue[h] PROVE EntryAt(h, k)'
    <2>1. EntryAt(h, k) /\ queue[h][k].req \in DOMAIN requests
      BY InvFacts
    <2> QED
      BY <1>1, <2>1 DEF EntryAt
  <1>6. ASSUME NEW a \in DOMAIN answers' PROVE AnswerAt(a)'
    <2>1. CASE a \in DOMAIN answers /\ (answers'[a].state # "sent" => answers[a].state # "sent")
      <3>1. /\ AnswerAt(a) /\ answers[a].for \in DOMAIN requests
            /\ answers'[a].for = answers[a].for /\ answers'[a].pod = answers[a].pod
        BY <2>1, InvFacts DEF Later
      <3>2. Excused(answers[a].for) => Excused(answers[a].for)'
        BY <1>1, <1>2, <3>1 DEF Excused
      <3>3. Told(a, answers[a].for) => Told(a, answers[a].for)'
        BY <1>1, <3>1 DEF Told, QueuedWith
      <3> QED
        BY <1>1, <2>1, <3>1, <3>2, <3>3 DEF AnswerAt
    <2> QED
      BY <2>1
  <1> QED
    BY <1>3, <1>4, <1>5, <1>6 DEF InputInv

(* A run begins or ends, which may disturb others, or is cancelled.        *)
LEMMA RegistrationSteps ==
  ASSUME InputInv, NEW r \in InputRuns,
         RegisterHandlers(r) \/ UnregisterHandlers(r) \/ CancelRun(r)
  PROVE  InputInv'
  <1>1. /\ UNCHANGED <<queue, requests, results, rows, answers>>
        /\ InputTypes /\ HandlerKept /\ PodOf[r] \in InputPods
    BY InvFacts, UserInputAssumptions DEF InputInv, RegisterHandlers, UnregisterHandlers, CancelRun
  <1>2. \A q \in InputRuns : runState'[q] = "waiting" <=> runState[q] = "waiting"
    BY <1>1 DEF InputTypes, RegisterHandlers, UnregisterHandlers, CancelRun
  <1>3. disturbed \subseteq disturbed' /\ \A q \in InputRuns : cancelled[q] => cancelled'[q]
    BY <1>1 DEF InputTypes, RegisterHandlers, UnregisterHandlers, CancelRun
  <1>4. Later
    BY <1>1, <1>3 DEF Later
  <1>5. InputTypes'
    <2>1. /\ runState' \in [InputRuns -> {"new", "running", "waiting", "over"}]
          /\ cancelled' \in [InputRuns -> BOOLEAN]
      BY <1>1 DEF InputTypes, RegisterHandlers, UnregisterHandlers, CancelRun
    <2>2. handlerOf' \in [InputPods -> InputRuns \cup {NoHandler}] /\ disturbed' \subseteq InputRuns
      BY <1>1 DEF InputTypes, RegisterHandlers, UnregisterHandlers, CancelRun, Others
    <2> QED
      BY <1>1, <2>1, <2>2 DEF InputTypes
  <1>6. HandlerKept'
    <2>1. CASE RegisterHandlers(r)
      BY <1>1, <2>1, UserInputAssumptions DEF HandlerKept, InputTypes, RegisterHandlers, Others
    <2>2. CASE UnregisterHandlers(r)
      BY <1>1, <2>2, UserInputAssumptions DEF HandlerKept, InputTypes, UnregisterHandlers, Others
    <2>3. CASE CancelRun(r)
      BY <1>1, <2>3 DEF HandlerKept, CancelRun
    <2> QED
      BY <2>1, <2>2, <2>3
  <1> QED
    BY <1>1, <1>2, <1>4, <1>5, <1>6, QuietStep

(* The user answers: the answer is on its way.                             *)
LEMMA SendAnswerStep ==
  ASSUME InputInv, NEW n \in DOMAIN requests, NEW p \in InputPods, SendAnswer(n, p)
  PROVE  InputInv'
  <1> DEFINE sent == [for |-> n, pod |-> p, state |-> "sent", handled |-> FALSE]
  <1>1. /\ InputTypes /\ HandlerKept /\ answers' = Append(answers, sent) /\ Len(answers) < MaxAnswers
        /\ UNCHANGED <<runState, cancelled, handlerOf, queue, requests, rows, results, disturbed>>
    BY InvFacts DEF InputInv, SendAnswer
  <1>2. answers \in Seq(AnAnswer) /\ sent \in AnAnswer /\ Len(answers) \in Nat /\ n \in Nat
    BY <1>1, InvFacts DEF InputTypes, AnAnswer
  <1>3. sent.for = n /\ sent.state = "sent"
    OBVIOUS
  <1> HIDE DEF sent
  <1>4. /\ answers' \in Seq(AnAnswer) /\ Len(answers') = Len(answers) + 1
        /\ DOMAIN answers = 1 .. Len(answers) /\ DOMAIN answers' = 1 .. Len(answers) + 1
        /\ \A a \in DOMAIN answers : answers'[a] = answers[a]
        /\ answers'[Len(answers) + 1] = sent
    BY <1>1, <1>2
  <1>5. InputTypes'
    BY <1>1, <1>2, <1>4, UserInputAssumptions DEF InputTypes
  <1>6. Later /\ HandlerKept'
    BY <1>1, <1>2, <1>4 DEF Later, HandlerKept
  <1>7. \A a \in DOMAIN answers' : a \in DOMAIN answers \/ AnswerAt(a)'
    BY <1>1, <1>2, <1>3, <1>4 DEF AnswerAt
  <1> QED
    BY <1>1, <1>4, <1>5, <1>6, <1>7, QuietStep

(* The row the answer resolves is the latest suspended one of its id: the  *)
(* request's own, or a consent's of the same run.                          *)
LEMMA ResolveStep ==
  ASSUME InputInv, NEW a \in DOMAIN answers, ResolveToolSuspendState(a)
  PROVE  InputInv'
  <1> DEFINE id == requests[answers[a].for].id
             open == {n \in DOMAIN rows : requests[n].id = id /\ rows[n].state = "suspended"}
             latest == CHOOSE n \in open : \A m \in open : m <= n
  <1>1. /\ InputTypes /\ HandlerKept /\ answers[a].state = "resolve"
        /\ rows' = (IF open = {} THEN rows ELSE [rows EXCEPT ![latest] = By("resumed", a)])
        /\ answers' = [answers EXCEPT ![a].state =
                         IF answers[a].handled \/ open # {} THEN "acked" ELSE "refused"]
        /\ UNCHANGED <<runState, cancelled, handlerOf, queue, requests, results, disturbed>>
    BY DEF InputInv, ResolveToolSuspendState
  <1>2. /\ answers[a].for \in DOMAIN requests /\ DOMAIN rows = DOMAIN requests
        /\ DOMAIN requests = 1 .. Len(requests) /\ Len(requests) \in Nat
    BY InvFacts
  <1>3. open # {} => latest \in open
    <2> SUFFICES ASSUME open # {} PROVE latest \in open
      OBVIOUS
    <2>1. open \subseteq 0 .. Len(requests)
      BY <1>2
    <2>2. \E n \in open : \A m \in open : m <= n
      <3> HIDE DEF open
      <3> QED
        BY <1>2, <2>1, GreatestOf
    <2> QED
      BY <2>2, Zenon
  <1>4. open # {} => /\ latest \in DOMAIN requests /\ requests[latest].id = id
    BY <1>2, <1>3
  <1> HIDE DEF latest, open
  <1>5. /\ answers' \in Seq(AnAnswer) /\ Len(answers') = Len(answers) /\ DOMAIN answers' = DOMAIN answers
        /\ answers'[a].state # "sent"
        /\ \A b \in DOMAIN answers :
             /\ answers'[b].for = answers[b].for /\ answers'[b].pod = answers[b].pod
             /\ (answers'[b].state # "sent" <=> answers[b].state # "sent")
    <2> DEFINE s == IF answers[a].handled \/ open # {} THEN "acked" ELSE "refused"
    <2>1. answers' = [answers EXCEPT ![a].state = s] /\ s \in {"acked", "refused"}
      BY <1>1
    <2> HIDE DEF s
    <2>2. answers \in Seq(AnAnswer) /\ Len(answers) \in Nat /\ DOMAIN answers = 1 .. Len(answers)
      BY <1>1, InvFacts DEF InputTypes
    <2>3. answers[a] \in AnAnswer
      BY <2>2
    <2>4. [answers[a] EXCEPT !.state = s] \in AnAnswer
      BY <2>1, <2>3 DEF AnAnswer
    <2>5. answers' = [answers EXCEPT ![a] = [answers[a] EXCEPT !.state = s]]
      BY <2>1
    <2>6. answers' \in Seq(AnAnswer) /\ Len(answers') = Len(answers) /\ DOMAIN answers' = DOMAIN answers
      BY <2>2, <2>4, <2>5
    <2>7. \A b \in DOMAIN answers : b # a => answers'[b] = answers[b]
      BY <2>5
    <2>8. answers'[a] = [answers[a] EXCEPT !.state = s]
      BY <2>2, <2>5
    <2>9. answers'[a].for = answers[a].for /\ answers'[a].pod = answers[a].pod /\ answers'[a].state = s
      BY <2>3, <2>8 DEF AnAnswer
    <2> QED
      BY <1>1, <2>1, <2>6, <2>7, <2>9
  <1>6. /\ rows' \in Seq(ARow) /\ Len(rows') = Len(rows)
        /\ \A n \in DOMAIN requests :
             rows'[n] = rows[n] \/ (open # {} /\ n = latest /\ rows'[n] = By("resumed", a))
    <2>1. rows \in Seq(ARow) /\ By("resumed", a) \in ARow
      BY <1>1, InvFacts DEF InputTypes, ARow, By
    <2> QED
      BY <1>1, <1>2, <1>4, <2>1
  <1>7. InputTypes'
    BY <1>1, <1>5, <1>6 DEF InputTypes
  <1>8. Later /\ HandlerKept'
    BY <1>1, <1>5 DEF Later, HandlerKept
  <1>9. ASSUME NEW n \in DOMAIN requests PROVE rows'[n] = rows[n] \/ RowAt(n)'
    <2> SUFFICES ASSUME open # {}, n = latest, rows'[n] = By("resumed", a) PROVE RowAt(n)'
      BY <1>6
    <2>1. requests[n].id = requests[answers[a].for].id
      BY <1>4
    <2>2. answers[a].for = n \/ Shares(n)
      BY <1>2, <2>1, IdsApart DEF Shares
    <2>3. Shares(n)' <=> Shares(n)
      BY <1>1 DEF Shares, Owner
    <2>4. rows'[n].state = "resumed" /\ rows'[n].by = a
      BY DEF By
    <2> QED
      BY <1>5, <2>2, <2>3, <2>4 DEF RowAt
  <1>10. /\ UNCHANGED <<queue, requests, results>>
         /\ \A r \in InputRuns : runState'[r] = "waiting" <=> runState[r] = "waiting"
         /\ \A b \in DOMAIN answers' :
              b \in DOMAIN answers /\ (answers'[b].state # "sent" => answers[b].state # "sent")
    BY <1>1, <1>5
  <1> QED
    BY <1>7, <1>8, <1>9, <1>10, QuietStep

(* An answer taken for a request that another answer is on its way to: the *)
(* request was answered twice, or has siblings.                            *)
LEMMA TakenByAnother ==
  ASSUME InputInv, NEW a \in DOMAIN answers, answers[a].state = "sent",
         NEW n \in DOMAIN requests, answers[a].for = n, NEW b, Taken(b, n)
  PROVE  b # a /\ (Repeated(n) \/ (Displaced(n) /\ Shares(n)))
  <1>1. b \in DOMAIN answers /\ b # a /\ answers[b].for \in DOMAIN requests /\ InputTypes
    BY InvFacts DEF Taken
  <1>2. CASE answers[b].for = n
    BY <1>1, <1>2, RepeatedByTwo
  <1>3. CASE answers[b].for # n
    <2>1. requests[answers[b].for].id = requests[n].id /\ Displaced(n)
      BY <1>3 DEF Taken
    <2>2. Shares(n)
      BY <1>1, <1>3, <2>1, IdsApart DEF Shares
    <2> QED
      BY <1>1, <2>1, <2>2
  <1> QED
    BY <1>2, <1>3

(* An answer found no request of its id to take: its run, if it can be     *)
(* reached, is excused or has been told.                                   *)
LEMMA NothingOpen ==
  ASSUME InputInv, NEW a \in DOMAIN answers, answers[a].state = "sent",
         LET n == answers[a].for
             h == handlerOf[answers[a].pod]
         IN  h \in InputRuns =>
               \A k \in DOMAIN queue[h] : requests[queue[h][k].req].id = requests[n].id => queue[h][k].answer # 0
  PROVE  answers[a].pod # PodOf[Owner(answers[a].for)] \/ Excused(answers[a].for)
  <1> DEFINE n == answers[a].for
             r == Owner(n)
  <1>1. /\ n \in DOMAIN requests /\ r \in InputRuns /\ RequestAt(n) /\ ResultAt(n) /\ HandlerKept
        /\ results[n].state \in {"waiting", "cancelled", "answered"}
    BY InvFacts, InputFacts DEF InputInv
  <1> SUFFICES ASSUME answers[a].pod = PodOf[r], ~Excused(n) PROVE FALSE
    OBVIOUS
  <1>2. results[n].state # "cancelled" /\ ~Repeated(n) /\ r \notin disturbed /\ ~Shares(n)
    BY DEF Excused
  <1>3. \A b : ~Taken(b, n)
    BY <1>1, <1>2, TakenByAnother
  <1>4. CASE Waits(n)
    <2>1. runState[r] = "waiting" /\ requests[n].at = r /\ Queued(r, n)
      BY <1>1, <1>2, <1>4 DEF RequestAt
    <2>2. handlerOf[answers[a].pod] = r
      BY <1>1, <1>2, <2>1 DEF HandlerKept
    <2>3. PICK k \in DOMAIN queue[r] : queue[r][k].req = n
      BY <2>1 DEF Queued
    <2>4. queue[r][k].answer # 0
      BY <1>1, <2>2, <2>3
    <2>5. Taken(queue[r][k].answer, n)
      BY <1>1, <2>3, <2>4, InvFacts DEF EntryAt
    <2> QED
      BY <1>3, <2>5
  <1>5. CASE results[n].state = "answered"
    BY <1>1, <1>3, <1>5 DEF ResultAt
  <1> QED
    BY <1>1, <1>2, <1>4, <1>5 DEF Waits

(* The handler takes answer a for its k-th request.                        *)
LEMMA RespondTakes ==
  ASSUME InputInv, NEW a \in DOMAIN answers, answers[a].state = "sent",
         NEW h \in InputRuns, NEW k \in DOMAIN queue[h],
         requests[queue[h][k].req].id = requests[answers[a].for].id, queue[h][k].answer = 0
  PROVE  LET n == answers[a].for
             m == queue[h][k].req
         IN  /\ n = m \/ Displaced(m)
             /\ n # m => Shares(n)
             /\ n = m => results[n].state = "cancelled"
                           \/ (Waits(n) /\ (Owner(n) \notin disturbed => h = Owner(n)))
  <1> DEFINE n == answers[a].for
             m == queue[h][k].req
             r == Owner(n)
  <1>1. /\ n \in DOMAIN requests /\ m \in DOMAIN requests /\ EntryAt(h, k) /\ requests[m].id = requests[n].id
        /\ RequestAt(n) /\ RequestAt(m) /\ ResultAt(n) /\ ResultAt(m) /\ OneWaits /\ InputTypes
        /\ results[n].state \in {"waiting", "cancelled", "answered"}
        /\ results[m].state \in {"waiting", "cancelled", "answered"}
    BY InvFacts, InputFacts DEF InputInv
  <1>2. requests[m].at = h /\ results[m].state # "answered"
    BY <1>1 DEF EntryAt
  <1>3. ASSUME n = m
        PROVE  results[n].state = "cancelled" \/ (Waits(n) /\ (r \notin disturbed => h = r))
    BY <1>1, <1>2, <1>3 DEF RequestAt, Waits
  <1>4. ASSUME n # m PROVE Displaced(m) /\ Shares(n)
    <2>0. \A b : Taken(b, n) => Repeated(n) \/ Displaced(n)
      BY <1>1, TakenByAnother
    <2> HIDE DEF n, m
    <2>1. requests[n].kind = "consent" /\ requests[m].kind = "consent" /\ Owner(m) = r
      BY <1>1, <1>4, IdsApart
    <2>2. h = r /\ Shares(n)
      BY <1>1, <1>2, <1>4, <2>1 DEF RequestAt, Shares
    <2> SUFFICES Displaced(m)
      BY <2>2
    <2>3. \A b : Taken(b, n) => Displaced(m)
      <3> SUFFICES ASSUME NEW b, Taken(b, n) PROVE Displaced(m)
        OBVIOUS
      <3>1. Repeated(n) \/ Displaced(n)
        BY <2>0
      <3> QED
        BY <1>1, <2>1, <3>1 DEF Displaced
    <2>4. CASE results[n].state = "cancelled"
      BY <1>1, <2>1, <2>4 DEF RequestAt, Displaced
    <2>5. CASE results[n].state = "answered"
      BY <1>1, <2>3, <2>5 DEF ResultAt
    <2>6. CASE Waits(n)
      <3>1. PICK j \in DOMAIN queue[h] : queue[h][j].req = n
        BY <1>1, <2>1, <2>2, <2>6 DEF RequestAt, Queued
      <3>2. CASE queue[h][j].answer # 0
        BY <2>3, <3>1, <3>2, InvFacts DEF EntryAt
      <3>3. CASE queue[h][j].answer = 0
        <4>1. ~Waits(m)
          BY <1>1, <1>4, <2>1, <2>6 DEF OneWaits
        <4>2. results[m].state = "cancelled"
          BY <1>1, <1>2, <4>1 DEF Waits
        <4> QED
          BY <1>1, <2>1, <4>2 DEF RequestAt, Displaced
      <3> QED
        BY <3>2, <3>3
    <2> QED
      BY <1>1, <2>4, <2>5, <2>6 DEF Waits
  <1> QED
    BY <1>3, <1>4

(* The answers after one of them has changed.                              *)
LEMMA AnswerReplaced ==
  ASSUME InputTypes, NEW a \in DOMAIN answers, NEW e \in AnAnswer,
         answers' = [answers EXCEPT ![a] = e]
  PROVE  /\ answers' \in Seq(AnAnswer) /\ Len(answers') = Len(answers) /\ DOMAIN answers' = DOMAIN answers
         /\ answers'[a] = e /\ \A b \in DOMAIN answers : b # a => answers'[b] = answers[b]
  <1>1. answers \in Seq(AnAnswer) /\ Len(answers) \in Nat /\ DOMAIN answers = 1 .. Len(answers)
    BY InputFacts DEF InputTypes
  <1> QED
    BY <1>1

(* Respond changes no more of the answers than the state of one.           *)
LEMMA RespondAnswers ==
  ASSUME InputTypes, NEW a \in DOMAIN answers, NEW x \in BOOLEAN, NEW s \in {"acked", "resolve"},
         answers' = [answers EXCEPT ![a].handled = x, ![a].state = s]
  PROVE  /\ answers' \in Seq(AnAnswer) /\ Len(answers') = Len(answers) /\ DOMAIN answers' = DOMAIN answers
         /\ \A b \in DOMAIN answers : b # a => answers'[b] = answers[b]
         /\ answers'[a].for = answers[a].for /\ answers'[a].pod = answers[a].pod
         /\ answers'[a].state = s
  <1>1. answers \in Seq(AnAnswer) /\ Len(answers) \in Nat /\ DOMAIN answers = 1 .. Len(answers)
    BY InputFacts DEF InputTypes
  <1>2. answers[a] \in AnAnswer
    BY <1>1
  <1> DEFINE e == [answers[a] EXCEPT !.handled = x, !.state = s]
  <1>3. e \in AnAnswer /\ e.for = answers[a].for /\ e.pod = answers[a].pod /\ e.state = s
    BY <1>2 DEF AnAnswer
  <1>4. answers' = [answers EXCEPT ![a] = e]
    <2>1. answers' = [[answers EXCEPT ![a].handled = x] EXCEPT ![a].state = s]
      BY Zenon
    <2> DEFINE f == [answers EXCEPT ![a].handled = x]
    <2>2. f = [answers EXCEPT ![a] = [answers[a] EXCEPT !.handled = x]]
      OBVIOUS
    <2>3. DOMAIN f = DOMAIN answers /\ f[a] = [answers[a] EXCEPT !.handled = x]
          /\ \A b \in DOMAIN answers : b # a => f[b] = answers[b]
      BY <1>1
    <2> HIDE DEF f
    <2>4. answers' = [f EXCEPT ![a] = [f[a] EXCEPT !.state = s]]
      BY <2>1 DEF f
    <2>5. [f[a] EXCEPT !.state = s] = e
      BY <1>2, <2>3 DEF AnAnswer
    <2> QED
      BY <1>1, <2>3, <2>4, <2>5
  <1> HIDE DEF e
  <1> QED
    BY <1>3, <1>4, AnswerReplaced

(* Respond, with what it finds: entry k of the handler's queue is the one  *)
(* that takes answer a, if k is not 0.                                     *)
RespondsWith(a, n, h, k) ==
  /\ answers[a].state = "sent" /\ n \in DOMAIN requests /\ n = answers[a].for
  /\ h \in InputRuns \cup {NoHandler} /\ h = handlerOf[answers[a].pod]
  /\ \/ /\ k = 0 /\ queue' = queue
        /\ h \in InputRuns => \A i \in DOMAIN queue[h] :
             requests[queue[h][i].req].id = requests[n].id => queue[h][i].answer # 0
     \/ /\ h \in InputRuns /\ k \in DOMAIN queue[h] /\ queue' = [queue EXCEPT ![h][k].answer = a]
        /\ requests[queue[h][k].req].id = requests[n].id /\ queue[h][k].answer = 0
  /\ answers' \in Seq(AnAnswer) /\ Len(answers') = Len(answers) /\ DOMAIN answers' = DOMAIN answers
  /\ \A b \in DOMAIN answers : b # a => answers'[b] = answers[b]
  /\ answers'[a].for = n /\ answers'[a].pod = answers[a].pod /\ answers'[a].state # "sent"
  /\ UNCHANGED <<runState, cancelled, handlerOf, requests, rows, results, disturbed>>

LEMMA RespondDone ==
  ASSUME InputInv, NEW a \in DOMAIN answers, Respond(a)
  PROVE  \E n, h, k : RespondsWith(a, n, h, k)
  <1> DEFINE n == answers[a].for
             h == handlerOf[answers[a].pod]
             k == IF h = NoHandler THEN 0
                  ELSE SelectInSeq(queue[h], LAMBDA e : requests[e.req].id = requests[n].id /\ e.answer = 0)
             s == IF requests[n].kind = "action" THEN "acked" ELSE "resolve"
  <1>1. /\ answers[a].state = "sent"
        /\ queue' = (IF k = 0 THEN queue ELSE [queue EXCEPT ![h][k].answer = a])
        /\ answers' = [answers EXCEPT ![a].handled = (k # 0), ![a].state = s]
        /\ UNCHANGED <<runState, cancelled, handlerOf, requests, rows, results, disturbed>>
    BY DEF Respond
  <1>2. /\ InputTypes /\ h \in InputRuns \cup {NoHandler} /\ s \in {"acked", "resolve"}
        /\ n \in DOMAIN requests /\ NoHandler \notin InputRuns
    BY InvFacts, InputFacts, UserInputAssumptions DEF InputInv, InputTypes
  <1>3. \/ /\ k = 0
           /\ h \in InputRuns => \A i \in DOMAIN queue[h] :
                requests[queue[h][i].req].id = requests[n].id => queue[h][i].answer # 0
        \/ /\ h \in InputRuns /\ k \in DOMAIN queue[h]
           /\ requests[queue[h][k].req].id = requests[n].id /\ queue[h][k].answer = 0
    <2>1. CASE h = NoHandler
      BY <1>2, <2>1
    <2>2. CASE h \in InputRuns
      <3> DEFINE I == {i \in 1 .. Len(queue[h]) :
                         requests[queue[h][i].req].id = requests[n].id /\ queue[h][i].answer = 0}
      <3>0. PICK J : J = I
        OBVIOUS
      <3>1. k = SelectInSeq(queue[h], LAMBDA e : requests[e.req].id = requests[n].id /\ e.answer = 0)
        BY <1>2, <2>2
      <3>2. SelectInSeq(queue[h], LAMBDA e : requests[e.req].id = requests[n].id /\ e.answer = 0)
              = IF I # {} THEN Min(I) ELSE 0
        BY DEF SelectInSeq
      <3>3. k = IF J # {} THEN Min(J) ELSE 0
        BY <3>0, <3>1, <3>2, Zenon
      <3> HIDE DEF k
      <3>4. DOMAIN queue[h] = 1 .. Len(queue[h]) /\ J \subseteq Nat
        BY <2>2, <3>0, InvFacts, InputFacts
      <3>5. CASE J = {}
        BY <2>2, <3>0, <3>3, <3>4, <3>5
      <3>6. CASE J # {}
        <4>1. k \in J
          BY <3>3, <3>4, <3>6, MinIsLeast
        <4> QED
          BY <2>2, <3>0, <3>4, <4>1
      <3> QED
        BY <3>5, <3>6
    <2> QED
      BY <1>2, <2>1, <2>2
  <1> HIDE DEF k, s
  <1>4. /\ answers' \in Seq(AnAnswer) /\ Len(answers') = Len(answers) /\ DOMAIN answers' = DOMAIN answers
        /\ \A b \in DOMAIN answers : b # a => answers'[b] = answers[b]
        /\ answers'[a].for = n /\ answers'[a].pod = answers[a].pod /\ answers'[a].state # "sent"
    <2>1. (k # 0) \in BOOLEAN
      OBVIOUS
    <2> QED
      BY <1>1, <1>2, <2>1, RespondAnswers
  <1>5. h \in InputRuns => 0 \notin DOMAIN queue[h]
    BY InvFacts, InputFacts
  <1>6. \/ /\ k = 0 /\ queue' = queue
           /\ h \in InputRuns => \A i \in DOMAIN queue[h] :
                requests[queue[h][i].req].id = requests[n].id => queue[h][i].answer # 0
        \/ /\ h \in InputRuns /\ k \in DOMAIN queue[h] /\ queue' = [queue EXCEPT ![h][k].answer = a]
           /\ requests[queue[h][k].req].id = requests[n].id /\ queue[h][k].answer = 0
    <2>1. CASE k = 0
      BY <1>1, <1>3, <1>5, <2>1
    <2>2. CASE k # 0
      BY <1>1, <1>3, <2>2
    <2> QED
      BY <2>1, <2>2
  <1>7. n = answers[a].for /\ h = handlerOf[answers[a].pod]
    OBVIOUS
  <1> HIDE DEF n, h
  <1>8. RespondsWith(a, n, h, k)
    BY <1>1, <1>2, <1>4, <1>6, <1>7 DEF RespondsWith
  <1> QED
    BY <1>8

(* The queues after one of their requests has got an answer.               *)
LEMMA EntryAnswered ==
  ASSUME InputTypes, NEW h \in InputRuns, NEW k \in DOMAIN queue[h], NEW a \in Nat,
         queue' = [queue EXCEPT ![h][k].answer = a]
  PROVE  /\ queue' \in [InputRuns -> Seq(Entries)]
         /\ \A g \in InputRuns : DOMAIN queue'[g] = DOMAIN queue[g]
         /\ \A g \in InputRuns : \A j \in DOMAIN queue[g] :
              /\ queue'[g][j].req = queue[g][j].req
              /\ ~(g = h /\ j = k) => queue'[g][j] = queue[g][j]
         /\ queue'[h][k].answer = a
  <1> DEFINE e == [queue[h][k] EXCEPT !.answer = a]
             q == [queue[h] EXCEPT ![k] = e]
  <1>1. queue \in [InputRuns -> Seq(Entries)] /\ queue[h] \in Seq(Entries) /\ queue[h][k] \in Entries
    BY InputFacts DEF InputTypes
  <1>2. e \in Entries /\ e.req = queue[h][k].req /\ e.answer = a
    BY <1>1 DEF Entries
  <1>3. queue' = [queue EXCEPT ![h] = q]
    OBVIOUS
  <1> HIDE DEF e
  <1>4. q \in Seq(Entries) /\ DOMAIN q = DOMAIN queue[h] /\ q[k] = e
        /\ \A j \in DOMAIN queue[h] : j # k => q[j] = queue[h][j]
    <2>1. e \in Entries
      BY <1>2
    <2> QED
      BY <1>1, <2>1
  <1> HIDE DEF q
  <1>5. queue'[h] = q /\ \A g \in InputRuns : g # h => queue'[g] = queue[g]
    BY <1>1, <1>3
  <1>6. queue' \in [InputRuns -> Seq(Entries)]
    BY <1>1, <1>3, <1>4
  <1> QED
    BY <1>2, <1>4, <1>5, <1>6

(* An answer is given to a request of its id that has none, if the handler *)
(* registered on the pod has one.                                          *)
LEMMA RespondStep ==
  ASSUME InputInv, NEW a \in DOMAIN answers, Respond(a)
  PROVE  InputInv'
  <1> PICK n, h, k : RespondsWith(a, n, h, k)
    BY RespondDone
  <1>0. /\ answers[a].state = "sent" /\ n \in DOMAIN requests /\ n = answers[a].for
        /\ h \in InputRuns \cup {NoHandler} /\ h = handlerOf[answers[a].pod]
        /\ answers' \in Seq(AnAnswer) /\ Len(answers') = Len(answers) /\ DOMAIN answers' = DOMAIN answers
        /\ \A b \in DOMAIN answers : b # a => answers'[b] = answers[b]
        /\ answers'[a].for = n /\ answers'[a].pod = answers[a].pod /\ answers'[a].state # "sent"
        /\ UNCHANGED <<runState, cancelled, handlerOf, requests, rows, results, disturbed>>
    BY DEF RespondsWith
  <1>1. InputTypes /\ HandlerKept /\ AnswerAt(a)
    BY InvFacts DEF InputInv
  <1>2. Later /\ HandlerKept'
    BY <1>0, <1>1 DEF Later, HandlerKept
  <1>3. ASSUME queue' = queue, h \in InputRuns => \A i \in DOMAIN queue[h] :
                 requests[queue[h][i].req].id = requests[n].id => queue[h][i].answer # 0
        PROVE  InputInv'
    <2>2. InputTypes'
      BY <1>0, <1>1, <1>3 DEF InputTypes
    <2>3. answers[a].pod # PodOf[Owner(n)] \/ Excused(n)
      BY <1>0, <1>3, NothingOpen
    <2>4. Excused(n) => Excused(n)'
      BY <1>0, <1>2, <2>2, LaterKeeps DEF Excused
    <2>5. AnswerAt(a)'
      BY <1>0, <2>3, <2>4 DEF AnswerAt, Owner
    <2>6. \A b \in DOMAIN answers' :
            \/ b \in DOMAIN answers /\ (answers'[b].state # "sent" => answers[b].state # "sent")
            \/ AnswerAt(b)'
      BY <1>0, <2>5
    <2> QED
      BY <1>0, <1>2, <1>3, <2>2, <2>6, QuietStep
  <1>4. ASSUME h \in InputRuns, k \in DOMAIN queue[h], queue' = [queue EXCEPT ![h][k].answer = a],
               requests[queue[h][k].req].id = requests[n].id, queue[h][k].answer = 0
        PROVE  InputInv'
    <2> PICK m : m = queue[h][k].req
      OBVIOUS
    <2>1. /\ m \in DOMAIN requests /\ EntryAt(h, k) /\ requests[m].at = h
          /\ results[m].state # "answered" /\ a \in Nat /\ a # 0
      BY <1>4, InvFacts DEF EntryAt
    <2>2. /\ n = m \/ Displaced(m)
          /\ n # m => Shares(n)
          /\ n = m => results[n].state = "cancelled"
                        \/ (Waits(n) /\ (Owner(n) \notin disturbed => h = Owner(n)))
      BY <1>0, <1>4, RespondTakes
    <2>3. /\ queue' \in [InputRuns -> Seq(Entries)]
          /\ \A g \in InputRuns : DOMAIN queue'[g] = DOMAIN queue[g]
          /\ \A g \in InputRuns : \A j \in DOMAIN queue[g] :
               /\ queue'[g][j].req = queue[g][j].req
               /\ ~(g = h /\ j = k) => queue'[g][j] = queue[g][j]
          /\ queue'[h][k].answer = a
      BY <1>1, <1>4, <2>1, EntryAnswered
    <2>4. InputTypes'
      BY <1>0, <1>1, <2>3 DEF InputTypes
    <2>5. \A i \in DOMAIN requests :
            /\ Repeated(i) => Repeated(i)'
            /\ Displaced(i) => Displaced(i)'
            /\ Shares(i) => Shares(i)'
            /\ \A b : Taken(b, i) => Taken(b, i)'
            /\ Owner(i)' = Owner(i) /\ Owner(i) \in InputRuns
            /\ Waits(i)' <=> Waits(i)
      BY <1>0, <1>2, <2>4, LaterKeeps, InvFacts DEF Waits
    <2>6. OneWaits'
      BY <1>0, <2>5 DEF InputInv, OneWaits
    <2>7. ASSUME NEW i \in DOMAIN requests PROVE RequestAt(i)' /\ ResultAt(i)' /\ RowAt(i)'
      <3>1. RequestAt(i) /\ ResultAt(i) /\ RowAt(i)
        BY InvFacts
      <3>2. \A g \in InputRuns : Queued(g, i) => Queued(g, i)'
        BY <2>3 DEF Queued
      <3>3. RequestAt(i)'
        BY <1>0, <2>5, <3>1, <3>2 DEF RequestAt
      <3>4. ResultAt(i)'
        BY <1>0, <2>5, <3>1 DEF ResultAt
      <3>5. RowAt(i)'
        BY <1>0, <2>5, <3>1 DEF RowAt
      <3> QED
        BY <3>3, <3>4, <3>5
    <2>8. Taken(a, m)'
      BY <1>0, <1>4, <2>1, <2>2, <2>5 DEF Taken
    <2>9. ASSUME NEW g \in InputRuns, NEW j \in DOMAIN queue[g] PROVE EntryAt(g, j)'
      <3>1. EntryAt(g, j) /\ queue[g][j].req \in DOMAIN requests
        BY InvFacts
      <3>0. /\ j \in DOMAIN queue'[g] /\ queue'[g][j].req = queue[g][j].req
            /\ \A l \in DOMAIN queue'[g] : queue'[g][l].req = queue'[g][j].req => l = j
        BY <2>3, <3>1 DEF EntryAt
      <3>2. CASE g = h /\ j = k
        <4>1. queue'[g][j].req = m /\ queue'[g][j].answer = a
          BY <2>3, <3>0, <3>2
        <4>2. requests'[m].at = g /\ m \in DOMAIN requests'
          BY <1>0, <2>1, <3>2
        <4> QED
          BY <2>1, <2>8, <3>0, <4>1, <4>2 DEF EntryAt
      <3>3. CASE ~(g = h /\ j = k)
        <4>1. queue'[g][j] = queue[g][j]
          BY <2>3, <3>3
        <4> QED
          BY <1>0, <2>5, <3>0, <3>1, <4>1 DEF EntryAt
      <3> QED
        BY <3>2, <3>3
    <2>10. ASSUME NEW b \in DOMAIN answers, b # a PROVE AnswerAt(b)'
      <3>1. AnswerAt(b) /\ answers[b].for \in DOMAIN requests /\ answers'[b] = answers[b] /\ b # 0
        BY <1>0, <2>10, InvFacts
      <3>2. \A g \in InputRuns : \A i : QueuedWith(g, i, b) => QueuedWith(g, i, b)'
        BY <1>4, <2>3, <3>1 DEF QueuedWith
      <3>3. Excused(answers[b].for) => Excused(answers[b].for)'
        BY <1>0, <2>5, <3>1 DEF Excused
      <3>4. Told(b, answers[b].for) => Told(b, answers[b].for)'
        BY <1>0, <2>5, <3>1, <3>2 DEF Told
      <3> QED
        BY <1>0, <2>5, <3>1, <3>3, <3>4 DEF AnswerAt
    <2>11. AnswerAt(a)'
      <3>1. CASE Excused(n)
        BY <1>0, <2>5, <3>1 DEF AnswerAt, Excused
      <3>2. CASE ~Excused(n)
        <4>1. n = m /\ Waits(n) /\ h = Owner(n)
          BY <2>2, <3>2 DEF Excused
        <4>2. QueuedWith(h, n, a)'
          BY <1>4, <2>3, <4>1 DEF QueuedWith
        <4> QED
          BY <1>0, <2>5, <4>1, <4>2 DEF AnswerAt, Told
      <3> QED
        BY <3>1, <3>2
    <2> QED
      BY <1>0, <1>2, <2>3, <2>4, <2>6, <2>7, <2>9, <2>10, <2>11 DEF InputInv
  <1> QED
    BY <1>0, <1>3, <1>4 DEF RespondsWith

-----------------------------------------------------------------------------
(* A run makes a request and waits for it, except when its session has no  *)
(* handler for a client action.                                            *)

Submits(r, kind, at, state, stored) ==
  /\ runState[r] = "running" /\ Len(requests) < MaxCalls
  /\ kind \in Kinds /\ at \in InputRuns \cup {NoHandler} /\ stored \in {"none", "suspended"}
  /\ requests' = Append(requests, [run |-> r, kind |-> kind, id |-> RequestId(r, kind), at |-> at])
  /\ rows' = Append(rows, By(stored, 0))
  /\ results' = Append(results, By(state, 0))
  /\ \/ state = "cancelled" /\ kind = "action" /\ UNCHANGED <<queue, runState>>
     \/ /\ state = "waiting" /\ at \in InputRuns
        /\ kind # "action" \/ r \notin disturbed => at = r
        /\ queue' = [queue EXCEPT ![at] = Append(@, [req |-> Len(requests) + 1, answer |-> 0])]
        /\ runState' = [runState EXCEPT ![r] = "waiting"]
  /\ UNCHANGED <<cancelled, handlerOf, answers, disturbed>>

(* Both ways to submit do that.                                            *)
LEMMA SubmitDone ==
  ASSUME InputInv, NEW r \in InputRuns,
         \/ \E kind \in {"ask_user", "consent"}, stored \in BOOLEAN : Submit(r, kind, stored)
         \/ SubmitAction(r)
  PROVE  \E kind, at, state, stored : Submits(r, kind, at, state, stored)
  <1>0. InputTypes /\ HandlerKept /\ PodOf[r] \in InputPods
    BY UserInputAssumptions DEF InputInv
  <1>1. ASSUME NEW kind \in {"ask_user", "consent"}, NEW stored \in BOOLEAN, Submit(r, kind, stored)
        PROVE  Submits(r, kind, r, "waiting", IF stored THEN "suspended" ELSE "none")
    BY <1>1 DEF Submit, Enqueue, Submits, Kinds
  <1>2. ASSUME SubmitAction(r)
        PROVE  \E state : Submits(r, "action", handlerOf[PodOf[r]], state, "none")
    <2> DEFINE at == handlerOf[PodOf[r]]
    <2>1. at \in InputRuns \cup {NoHandler} /\ (runState[r] = "running" /\ r \notin disturbed => at = r)
      BY <1>0 DEF InputTypes, HandlerKept
    <2>2. CASE at = NoHandler
      <3>1. Submits(r, "action", at, "cancelled", "none")
        BY <1>2, <2>1, <2>2 DEF SubmitAction, Enqueue, Submits, Kinds
      <3> QED
        BY <3>1
    <2>3. CASE at # NoHandler
      <3>1. Submits(r, "action", at, "waiting", "none")
        BY <1>2, <2>1, <2>3 DEF SubmitAction, Enqueue, Submits, Kinds
      <3> QED
        BY <3>1
    <2> QED
      BY <2>2, <2>3
  <1> QED
    BY <1>1, <1>2

(* What is there after it: the new request, n, and all of before.          *)
Requested(n, r, kind, at, state, stored) ==
  /\ requests' \in Seq(ARequest) /\ Len(requests') = n /\ DOMAIN requests' = DOMAIN requests \cup {n}
  /\ rows' \in Seq(ARow) /\ Len(rows') = n /\ results' \in Seq(AResult) /\ Len(results') = n
  /\ n \notin DOMAIN requests /\ n \in Nat
  /\ \A i \in DOMAIN requests :
       requests'[i] = requests[i] /\ rows'[i] = rows[i] /\ results'[i] = results[i]
  /\ requests'[n] = [run |-> r, kind |-> kind, id |-> RequestId(r, kind), at |-> at]
  /\ rows'[n] = By(stored, 0) /\ results'[n] = By(state, 0)

LEMMA SubmitsShape ==
  ASSUME InputInv, NEW r \in InputRuns, NEW kind, NEW at, NEW state, NEW stored,
         Submits(r, kind, at, state, stored), NEW n, n = Len(requests) + 1
  PROVE  Requested(n, r, kind, at, state, stored)
  <1>1. /\ InputTypes /\ Len(requests) \in Nat /\ Len(rows) = Len(requests) /\ Len(results) = Len(requests)
        /\ DOMAIN requests = 1 .. Len(requests)
    BY InvFacts DEF InputTypes
  <1> DEFINE e == [run |-> r, kind |-> kind, id |-> RequestId(r, kind), at |-> at]
  <1>2. RequestId(r, kind) \in Ids
    BY <1>1 DEF RequestId, Ids
  <1>3. e \in ARequest /\ By(stored, 0) \in ARow /\ By(state, 0) \in AResult
    BY <1>2 DEF Submits, ARequest, ARow, AResult, By
  <1>4. requests' = Append(requests, e) /\ rows' = Append(rows, By(stored, 0)) /\ results' = Append(results, By(state, 0))
    BY DEF Submits
  <1> HIDE DEF e
  <1>5. requests' \in Seq(ARequest) /\ Len(requests') = n /\ DOMAIN requests' = DOMAIN requests \cup {n}
        /\ requests'[n] = e /\ \A i \in DOMAIN requests : requests'[i] = requests[i]
    BY <1>1, <1>3, <1>4 DEF InputTypes
  <1>6. rows' \in Seq(ARow) /\ Len(rows') = n
        /\ rows'[n] = By(stored, 0) /\ \A i \in DOMAIN requests : rows'[i] = rows[i]
    BY <1>1, <1>3, <1>4 DEF InputTypes
  <1>7. results' \in Seq(AResult) /\ Len(results') = n
        /\ results'[n] = By(state, 0) /\ \A i \in DOMAIN requests : results'[i] = results[i]
    BY <1>1, <1>3, <1>4 DEF InputTypes
  <1> QED
    BY <1>1, <1>5, <1>6, <1>7 DEF Requested, e

(* And in the queues.                                                      *)
LEMMA SubmitsQueues ==
  ASSUME InputInv, NEW r \in InputRuns, NEW kind, NEW at, NEW state, NEW stored,
         Submits(r, kind, at, state, stored), NEW n, n = Len(requests) + 1
  PROVE  /\ queue' \in [InputRuns -> Seq(Entries)]
         /\ \A g \in InputRuns : \A j \in DOMAIN queue[g] : j \in DOMAIN queue'[g] /\ queue'[g][j] = queue[g][j]
         /\ \A g \in InputRuns : \A j \in DOMAIN queue'[g] :
              \/ j \in DOMAIN queue[g]
              \/ /\ state = "waiting" /\ g = at /\ j = Len(queue[at]) + 1
                 /\ queue'[g][j].req = n /\ queue'[g][j].answer = 0
         /\ state = "waiting" => Queued(at, n)'
  <1>1. InputTypes /\ queue \in [InputRuns -> Seq(Entries)] /\ Len(requests) \in Nat
    BY InvFacts DEF InputTypes
  <1>2. CASE queue' = queue /\ state # "waiting"
    BY <1>1, <1>2
  <1>3. CASE state = "waiting"
    <2> DEFINE e == [req |-> n, answer |-> 0]
               q == Append(queue[at], e)
    <2>1. at \in InputRuns /\ queue' = [queue EXCEPT ![at] = q]
      BY <1>3 DEF Submits
    <2>2. e \in Entries /\ e.req = n /\ e.answer = 0
      BY <1>1 DEF Entries
    <2> HIDE DEF e
    <2>3. /\ queue[at] \in Seq(Entries) /\ Len(queue[at]) \in Nat /\ DOMAIN queue[at] = 1 .. Len(queue[at])
      BY <1>1, <2>1
    <2>4. q \in Seq(Entries) /\ DOMAIN q = DOMAIN queue[at] \cup {Len(queue[at]) + 1}
          /\ q[Len(queue[at]) + 1] = e /\ \A j \in DOMAIN queue[at] : q[j] = queue[at][j]
      <3>1. e \in Entries
        BY <2>2
      <3> QED
        BY <2>3, <3>1
    <2> HIDE DEF q
    <2>5. queue'[at] = q /\ \A g \in InputRuns : g # at => queue'[g] = queue[g]
      BY <1>1, <2>1
    <2>6. queue' \in [InputRuns -> Seq(Entries)]
      BY <1>1, <2>1, <2>4
    <2>7. Queued(at, n)'
      BY <2>2, <2>4, <2>5 DEF Queued
    <2> QED
      BY <1>3, <2>2, <2>4, <2>5, <2>6, <2>7
  <1> QED
    BY <1>2, <1>3 DEF Submits

(* A new request keeps the invariant.                                      *)
LEMMA SubmitStep ==
  ASSUME InputInv, NEW r \in InputRuns, NEW kind, NEW at, NEW state, NEW stored,
         Submits(r, kind, at, state, stored)
  PROVE  InputInv'
  <1> PICK n : n = Len(requests) + 1
    OBVIOUS
  <1>1. /\ InputTypes /\ HandlerKept /\ OneWaits
        /\ runState[r] = "running" /\ n \in Nat /\ n <= MaxCalls /\ Len(requests) \in Nat
        /\ state \in {"cancelled", "waiting"} /\ stored \in {"none", "suspended"} /\ kind \in Kinds
        /\ UNCHANGED <<cancelled, handlerOf, answers, disturbed>>
    BY InvFacts, UserInputAssumptions DEF InputInv, Submits
  <1>2. /\ requests' \in Seq(ARequest) /\ Len(requests') = n /\ DOMAIN requests' = DOMAIN requests \cup {n}
        /\ rows' \in Seq(ARow) /\ Len(rows') = n /\ results' \in Seq(AResult) /\ Len(results') = n
        /\ n \notin DOMAIN requests
        /\ \A i \in DOMAIN requests :
             requests'[i] = requests[i] /\ rows'[i] = rows[i] /\ results'[i] = results[i]
        /\ requests'[n] = [run |-> r, kind |-> kind, id |-> RequestId(r, kind), at |-> at]
        /\ rows'[n] = By(stored, 0) /\ results'[n] = By(state, 0)
    <2>1. Requested(n, r, kind, at, state, stored)
      BY SubmitsShape
    <2> QED
      BY <2>1 DEF Requested
  <1>3. /\ queue' \in [InputRuns -> Seq(Entries)]
        /\ \A g \in InputRuns : \A j \in DOMAIN queue[g] : j \in DOMAIN queue'[g] /\ queue'[g][j] = queue[g][j]
        /\ \A g \in InputRuns : \A j \in DOMAIN queue'[g] :
             \/ j \in DOMAIN queue[g]
             \/ /\ state = "waiting" /\ g = at /\ j = Len(queue[at]) + 1
                /\ queue'[g][j].req = n /\ queue'[g][j].answer = 0
        /\ state = "waiting" => Queued(at, n)'
    BY SubmitsQueues
  <1>4. /\ state = "waiting" => /\ at \in InputRuns /\ (kind # "action" \/ r \notin disturbed => at = r)
                                /\ runState' = [runState EXCEPT ![r] = "waiting"]
        /\ state = "cancelled" => kind = "action" /\ runState' = runState
    BY DEF Submits
  <1>5. runState' \in [InputRuns -> {"new", "running", "waiting", "over"}]
    BY <1>1, <1>4 DEF InputTypes
  <1>6. InputTypes'
    BY <1>1, <1>2, <1>3, <1>5 DEF InputTypes
  <1>7. Later /\ HandlerKept'
    BY <1>1, <1>2, <1>4 DEF Later, HandlerKept, InputTypes
  <1>8. \A i \in DOMAIN requests :
          /\ Repeated(i) => Repeated(i)'
          /\ Shares(i) => Shares(i)'
          /\ \A b : Taken(b, i) => Taken(b, i)'
          /\ Owner(i)' = Owner(i) /\ Owner(i) \in InputRuns
          /\ Waits(i)' <=> Waits(i)
    BY <1>2, <1>6, <1>7, LaterKeeps, InvFacts DEF Waits
  <1>9. \A i \in DOMAIN requests : Waits(i) => Owner(i) # r /\ runState[Owner(i)] = "waiting"
    BY <1>1, InvFacts DEF RequestAt
  <1>10. /\ Owner(n)' = r /\ requests'[n].kind = kind /\ requests'[n].at = at
         /\ requests'[n].id = RequestId(r, kind)
         /\ results'[n].state = state /\ results'[n].by = 0 /\ rows'[n].state = stored /\ rows'[n].by = 0
    BY <1>2 DEF Owner, By
  <1>11. OneWaits'
    <2>1. ASSUME NEW q \in InputRuns, runState'[q] = "waiting"
          PROVE  \E i \in DOMAIN requests' : Owner(i)' = q /\ Waits(i)'
      <3>1. CASE q = r /\ state = "waiting"
        BY <1>2, <1>10, <3>1 DEF Waits
      <3>2. CASE ~(q = r /\ state = "waiting")
        <4>1. runState[q] = "waiting"
          BY <1>1, <1>4, <2>1, <3>2 DEF InputTypes
        <4>2. PICK i \in DOMAIN requests : Owner(i) = q /\ Waits(i)
          BY <1>1, <4>1 DEF OneWaits
        <4> QED
          BY <1>2, <1>8, <4>2
      <3> QED
        BY <3>1, <3>2
    <2>2. ASSUME NEW i \in DOMAIN requests', NEW j \in DOMAIN requests',
                 Waits(i)', Waits(j)', Owner(i)' = Owner(j)'
          PROVE  i = j
      BY <1>1, <1>2, <1>8, <1>9, <1>10, <2>2 DEF OneWaits
    <2> QED
      BY <2>1, <2>2 DEF OneWaits
  <1>12. ASSUME NEW i \in DOMAIN requests PROVE RequestAt(i)' /\ ResultAt(i)' /\ RowAt(i)'
    <2>1. RequestAt(i) /\ ResultAt(i) /\ RowAt(i)
      BY InvFacts
    <2>2. \A g \in InputRuns : Queued(g, i) => Queued(g, i)'
      BY <1>3 DEF Queued
    <2>3. Waits(i) => runState'[Owner(i)] = "waiting"
      BY <1>1, <1>4, <1>8, <1>9 DEF InputTypes
    <2>4. RequestAt(i)'
      BY <1>1, <1>2, <1>8, <2>1, <2>2, <2>3 DEF RequestAt
    <2>5. ResultAt(i)'
      BY <1>2, <1>8, <2>1 DEF ResultAt
    <2>6. RowAt(i)'
      BY <1>1, <1>2, <1>8, <2>1 DEF RowAt
    <2> QED
      BY <2>4, <2>5, <2>6
  <1>13. RequestAt(n)' /\ ResultAt(n)' /\ RowAt(n)'
    <2>1. requests'[n].id = IF kind = "consent" THEN <<"consent", r>> ELSE <<"call", n>>
      BY <1>10 DEF RequestId
    <2>2. state = "waiting" => runState'[r] = "waiting"
      BY <1>1, <1>4 DEF InputTypes
    <2>3. Waits(n)' <=> state = "waiting"
      BY <1>10 DEF Waits
    <2>4. kind # "action" => at = r
      BY <1>1, <1>4
    <2>5. RequestAt(n)'
      BY <1>1, <1>3, <1>4, <1>10, <2>1, <2>2, <2>3, <2>4 DEF RequestAt
    <2> QED
      BY <1>1, <1>10, <2>5 DEF ResultAt, RowAt
  <1>14. ASSUME NEW g \in InputRuns, NEW j \in DOMAIN queue'[g] PROVE EntryAt(g, j)'
    <2>1. CASE j \in DOMAIN queue[g]
      <3>1. EntryAt(g, j) /\ queue[g][j].req \in DOMAIN requests /\ queue'[g][j] = queue[g][j]
        BY <1>3, <2>1, InvFacts
      <3>2. \A i \in DOMAIN queue'[g] : queue'[g][i].req = queue[g][j].req => i = j
        BY <1>2, <1>3, <2>1, <3>1 DEF EntryAt
      <3> QED
        BY <1>2, <1>8, <3>1, <3>2 DEF EntryAt
    <2>2. CASE j \notin DOMAIN queue[g]
      <3>1. state = "waiting" /\ g = at /\ j = Len(queue[at]) + 1 /\ queue'[g][j].req = n /\ queue'[g][j].answer = 0
        BY <1>3, <2>2
      <3>2. \A i \in DOMAIN queue'[g] : queue'[g][i].req = n => i = j
        <4> SUFFICES ASSUME NEW i \in DOMAIN queue'[g], queue'[g][i].req = n PROVE i = j
          OBVIOUS
        <4>1. i \notin DOMAIN queue[g]
          BY <1>2, <1>3, InvFacts
        <4> QED
          BY <1>3, <3>1, <4>1
      <3> QED
        BY <1>2, <1>10, <3>1, <3>2 DEF EntryAt
    <2> QED
      BY <2>1, <2>2
  <1>15. ASSUME NEW a \in DOMAIN answers PROVE AnswerAt(a)'
    <2>1. AnswerAt(a) /\ answers[a].for \in DOMAIN requests
      BY InvFacts
    <2>2. \A g \in InputRuns : \A i : QueuedWith(g, i, a) => QueuedWith(g, i, a)'
      BY <1>3 DEF QueuedWith
    <2>3. Excused(answers[a].for) => Excused(answers[a].for)'
      BY <1>1, <1>2, <1>8, <2>1 DEF Excused
    <2>4. Told(a, answers[a].for) => Told(a, answers[a].for)'
      BY <1>1, <1>2, <1>8, <2>1, <2>2 DEF Told
    <2> QED
      BY <1>1, <1>2, <1>8, <2>1, <2>3, <2>4 DEF AnswerAt
  <1> QED
    BY <1>1, <1>2, <1>6, <1>7, <1>11, <1>12, <1>13, <1>14, <1>15 DEF InputInv

-----------------------------------------------------------------------------
(* A request is settled: its run has the answer a, or has given up.  Every *)
(* other request that waits keeps its place in the queues.                 *)

Settles(r, n, state, a) ==
  /\ n \in DOMAIN requests /\ Owner(n) = r /\ Waits(n) /\ runState[r] = "waiting"
  /\ Returns(r, n, By(state, a)) /\ a \in Nat
  /\ \/ /\ state = "answered" /\ Taken(a, n)
        /\ \A g \in InputRuns : \A i \in DOMAIN queue[g] : queue[g][i].req = n => queue[g][i].answer = a
     \/ state = "cancelled" /\ a = 0 /\ (requests[n].kind = "consent" => cancelled[r])
  /\ queue' \in [InputRuns -> Seq(Entries)]
  /\ \A g \in InputRuns : \A j \in DOMAIN queue'[g] :
       /\ \E i \in DOMAIN queue[g] : queue'[g][j] = queue[g][i]
       /\ \A i \in DOMAIN queue'[g] : queue'[g][i].req = queue'[g][j].req => i = j
  /\ \A g \in InputRuns : \A i \in DOMAIN queue[g] :
       Waits(queue[g][i].req) /\ queue[g][i].req # n => \E j \in DOMAIN queue'[g] : queue'[g][j] = queue[g][i]

LEMMA SettlesStep ==
  ASSUME InputInv, NEW r \in InputRuns, NEW n, NEW state, NEW a, Settles(r, n, state, a)
  PROVE  InputInv'
  <1>1. /\ InputTypes /\ HandlerKept /\ OneWaits
        /\ n \in DOMAIN requests /\ Owner(n) = r /\ Waits(n) /\ runState[r] = "waiting"
        /\ state \in {"answered", "cancelled"} /\ a \in Nat
        /\ results' = [results EXCEPT ![n] = By(state, a)]
        /\ runState' = [runState EXCEPT ![r] = "running"]
        /\ queue' \in [InputRuns -> Seq(Entries)]
        /\ UNCHANGED <<cancelled, handlerOf, requests, rows, answers, disturbed>>
    BY DEF InputInv, Settles, Returns
  <1>2. /\ results' \in Seq(AResult) /\ Len(results') = Len(results)
        /\ results'[n] = By(state, a) /\ \A i \in DOMAIN requests : i # n => results'[i] = results[i]
    <2>1. By(state, a) \in AResult
      BY <1>1 DEF By, AResult
    <2>2. results \in Seq(AResult) /\ DOMAIN results = DOMAIN requests
      BY <1>1, InvFacts DEF InputTypes
    <2> QED
      BY <1>1, <2>1, <2>2
  <1>3. results'[n].state = state /\ results'[n].by = a
    BY <1>2 DEF By
  <1>4. runState'[r] = "running" /\ \A q \in InputRuns : q # r => runState'[q] = runState[q]
    BY <1>1 DEF InputTypes
  <1>5. InputTypes'
    <2>1. runState' \in [InputRuns -> {"new", "running", "waiting", "over"}]
      BY <1>1 DEF InputTypes
    <2> QED
      BY <1>1, <1>2, <2>1 DEF InputTypes
  <1>6. Later /\ HandlerKept'
    BY <1>1, <1>4 DEF Later, HandlerKept
  <1>7. \A i \in DOMAIN requests :
          /\ Repeated(i) => Repeated(i)'
          /\ Shares(i) => Shares(i)'
          /\ \A b : Taken(b, i) => Taken(b, i)'
          /\ Owner(i)' = Owner(i) /\ Owner(i) \in InputRuns
          /\ Waits(i)' <=> Waits(i) /\ i # n
    BY <1>1, <1>2, <1>3, <1>5, <1>6, LaterKeeps, InvFacts DEF Waits
  <1>8. \A i \in DOMAIN requests : Waits(i) /\ Owner(i) = r => i = n
    BY <1>1 DEF OneWaits
  <1>9. OneWaits'
    <2>1. ASSUME NEW q \in InputRuns, runState'[q] = "waiting"
          PROVE  \E i \in DOMAIN requests' : Owner(i)' = q /\ Waits(i)'
      <3>1. q # r /\ runState[q] = "waiting"
        BY <1>4, <2>1
      <3>2. PICK i \in DOMAIN requests : Owner(i) = q /\ Waits(i)
        BY <1>1, <3>1 DEF OneWaits
      <3> QED
        BY <1>1, <1>7, <3>1, <3>2
    <2>2. \A i, j \in DOMAIN requests' : Waits(i)' /\ Waits(j)' /\ Owner(i)' = Owner(j)' => i = j
      BY <1>1, <1>7 DEF OneWaits
    <2> QED
      BY <2>1, <2>2 DEF OneWaits
  <1>10. ASSUME NEW i \in DOMAIN requests PROVE RequestAt(i)' /\ ResultAt(i)' /\ RowAt(i)'
    <2>1. RequestAt(i) /\ ResultAt(i) /\ RowAt(i)
      BY InvFacts
    <2>2. RowAt(i)'
      BY <1>1, <1>7, <2>1 DEF RowAt
    <2>3. CASE i = n
      <3>1. state = "answered" => Taken(a, n)
        BY DEF Settles
      <3>2. state = "cancelled" => a = 0 /\ (requests[n].kind = "consent" => cancelled[r])
        BY DEF Settles
      <3>3. RequestAt(n)'
        BY <1>1, <1>3, <1>7, <2>1, <2>3, <3>2 DEF RequestAt
      <3>4. ResultAt(n)'
        BY <1>1, <1>3, <1>7, <3>1, <3>2 DEF ResultAt
      <3> QED
        BY <2>2, <2>3, <3>3, <3>4
    <2>4. CASE i # n
      <3>1. results'[i] = results[i]
        BY <1>2, <2>4
      <3>2. ASSUME Waits(i) PROVE runState'[Owner(i)] = "waiting" /\ Queued(requests[i].at, i)'
        <4>1. Owner(i) # r
          BY <1>8, <2>4, <3>2
        <4> PICK g : g = requests[i].at
          OBVIOUS
        <4>2. g \in InputRuns /\ \E k \in DOMAIN queue[g] : queue[g][k].req = i
          BY <2>1, <3>2 DEF RequestAt, Queued
        <4> PICK k \in DOMAIN queue[g] : queue[g][k].req = i
          BY <4>2
        <4>3. \E j \in DOMAIN queue'[g] : queue'[g][j] = queue[g][k]
          BY <2>4, <3>2, <4>2 DEF Settles
        <4>4. Queued(requests[i].at, i)'
          BY <1>1, <4>3 DEF Queued
        <4> QED
          BY <1>4, <1>7, <2>1, <3>2, <4>1, <4>4 DEF RequestAt
      <3>3. RequestAt(i)'
        BY <1>1, <1>7, <2>1, <3>1, <3>2 DEF RequestAt
      <3>4. ResultAt(i)'
        BY <1>7, <2>1, <3>1 DEF ResultAt
      <3> QED
        BY <2>2, <3>3, <3>4
    <2> QED
      BY <2>3, <2>4
  <1>11. ASSUME NEW g \in InputRuns, NEW j \in DOMAIN queue'[g] PROVE EntryAt(g, j)'
    <2>1. PICK i \in DOMAIN queue[g] : queue'[g][j] = queue[g][i]
      BY DEF Settles
    <2>2. EntryAt(g, i) /\ queue[g][i].req \in DOMAIN requests
      BY InvFacts
    <2>3. \A l \in DOMAIN queue'[g] : queue'[g][l].req = queue'[g][j].req => l = j
      BY DEF Settles
    <2>4. queue[g][i].answer = 0 => results'[queue[g][i].req].state # "answered"
      <3>1. CASE queue[g][i].req = n
        <4>1. Taken(0, n) => FALSE
          BY InvFacts DEF Taken
        <4>2. state = "answered" => Taken(a, n) /\ queue[g][i].answer = a
          BY <3>1 DEF Settles
        <4> QED
          BY <1>1, <1>3, <3>1, <4>1, <4>2
      <3>2. CASE queue[g][i].req # n
        BY <1>2, <2>2, <3>2 DEF EntryAt
      <3> QED
        BY <3>1, <3>2
    <2> QED
      BY <1>1, <1>7, <2>1, <2>2, <2>3, <2>4 DEF EntryAt
  <1>12. ASSUME NEW b \in DOMAIN answers PROVE AnswerAt(b)'
    <2>1. AnswerAt(b) /\ b # 0
      BY InvFacts
    <2> PICK m : m = answers[b].for
      OBVIOUS
    <2>2. m \in DOMAIN requests /\ Owner(m) \in InputRuns /\ ResultAt(m)
      BY InvFacts
    <2>3. CASE m = n /\ state = "cancelled"
      <3>1. Excused(m)'
        BY <1>1, <1>3, <2>3 DEF Excused
      <3> QED
        BY <1>1, <2>2, <3>1 DEF AnswerAt
    <2>4. CASE m = n /\ state = "answered"
      <3>1. results[n].by = 0 /\ results[n].state # "cancelled"
        BY <1>1, <2>2, <2>4 DEF ResultAt, Waits
      <3>2. Excused(n) => Excused(n)'
        BY <1>1, <1>7, <3>1 DEF Excused
      <3>3. Told(b, n) => results'[n].by = b
        <4>1. QueuedWith(r, n, b) => a = b
          BY <2>4 DEF QueuedWith, Settles
        <4> QED
          BY <1>1, <1>3, <2>1, <3>1, <4>1 DEF Told
      <3> QED
        BY <1>1, <1>7, <2>1, <2>2, <2>4, <3>2, <3>3 DEF AnswerAt, Told
    <2>5. CASE m # n
      <3>1. results'[m] = results[m]
        BY <1>2, <2>2, <2>5
      <3>2. Excused(m) => Excused(m)'
        BY <1>1, <1>7, <2>2, <3>1 DEF Excused
      <3>3. ASSUME Waits(m), QueuedWith(Owner(m), m, b) PROVE QueuedWith(Owner(m), m, b)'
        <4>1. PICK k \in DOMAIN queue[Owner(m)] : queue[Owner(m)][k].req = m /\ queue[Owner(m)][k].answer = b
          BY <3>3 DEF QueuedWith
        <4>2. \E j \in DOMAIN queue'[Owner(m)] : queue'[Owner(m)][j] = queue[Owner(m)][k]
          BY <2>2, <2>5, <3>3, <4>1 DEF Settles
        <4> QED
          BY <1>7, <2>2, <4>1, <4>2 DEF QueuedWith
      <3>4. Told(b, m) => Told(b, m)'
        BY <1>7, <2>2, <2>5, <3>1, <3>3 DEF Told
      <3> QED
        BY <1>1, <1>7, <2>1, <2>2, <3>2, <3>4 DEF AnswerAt
    <2> QED
      BY <1>1, <2>3, <2>4, <2>5
  <1> QED
    BY <1>1, <1>5, <1>6, <1>9, <1>10, <1>11, <1>12 DEF InputInv

(* Submit returns with the answer of its entry.                            *)
LEMMA AnsweredStep ==
  ASSUME InputInv, NEW r \in InputRuns, SubmitAnswered(r)
  PROVE  InputInv'
  <1> PICK n : n = Awaited(r)
    OBVIOUS
  <1>1. /\ runState[r] = "waiting" /\ Entry(r, n).answer # 0 /\ queue' = queue
        /\ Returns(r, n, By("answered", Entry(r, n).answer))
    BY DEF SubmitAnswered
  <1>2. /\ n \in DOMAIN requests /\ Owner(n) = r /\ Waits(n) /\ requests[n].at \in InputRuns
        /\ \E k \in DOMAIN queue[requests[n].at] :
             queue[requests[n].at][k].req = n /\ Entry(r, n) = queue[requests[n].at][k]
    BY <1>1, AwaitedIs
  <1> PICK h : h = requests[n].at
    OBVIOUS
  <1>3. PICK k \in DOMAIN queue[h] : queue[h][k].req = n /\ Entry(r, n) = queue[h][k]
    BY <1>2
  <1> PICK a : a = queue[h][k].answer
    OBVIOUS
  <1>4. /\ EntryAt(h, k) /\ queue[h][k].req \in DOMAIN requests /\ a \in Nat /\ a # 0
        /\ queue \in [InputRuns -> Seq(Entries)]
    BY <1>1, <1>2, <1>3, InvFacts, InputFacts DEF InputTypes
  <1>5. Taken(a, n)
    BY <1>3, <1>4 DEF EntryAt
  <1>6. \A g \in InputRuns : \A i \in DOMAIN queue[g] : queue[g][i].req = n => queue[g][i].answer = a
    <2> SUFFICES ASSUME NEW g \in InputRuns, NEW i \in DOMAIN queue[g], queue[g][i].req = n
                 PROVE  queue[g][i].answer = a
      OBVIOUS
    <2>1. EntryAt(g, i)
      BY InvFacts
    <2>2. g = h
      BY <2>1 DEF EntryAt
    <2>3. i = k
      BY <1>3, <1>4, <2>2 DEF EntryAt
    <2> QED
      BY <2>2, <2>3
  <1>7. \A g \in InputRuns : \A j \in DOMAIN queue'[g] :
          /\ \E i \in DOMAIN queue[g] : queue'[g][j] = queue[g][i]
          /\ \A i \in DOMAIN queue'[g] : queue'[g][i].req = queue'[g][j].req => i = j
    BY <1>1, InvFacts DEF EntryAt
  <1>8. \A g \in InputRuns : \A i \in DOMAIN queue[g] : \E j \in DOMAIN queue'[g] : queue'[g][j] = queue[g][i]
    BY <1>1
  <1>9. Returns(r, n, By("answered", a))
    BY <1>1, <1>3
  <1>10. Settles(r, n, "answered", a)
    BY <1>1, <1>2, <1>4, <1>5, <1>6, <1>7, <1>8, <1>9 DEF Settles
  <1> QED
    BY <1>10, SettlesStep

(* A queue p that is q without its k-th entry.                             *)
Without(p, q, k) ==
  /\ DOMAIN p = 1 .. Len(q) - 1
  /\ \A i \in DOMAIN p : \/ i < k /\ i \in DOMAIN q /\ p[i] = q[i]
                         \/ i >= k /\ i + 1 \in DOMAIN q /\ p[i] = q[i + 1]
  /\ \A i \in DOMAIN q : \/ i < k /\ i \in DOMAIN p /\ p[i] = q[i]
                         \/ i = k
                         \/ i > k /\ i - 1 \in DOMAIN p /\ p[i - 1] = q[i]

LEMMA Removed ==
  ASSUME NEW S, NEW q \in Seq(S), NEW k \in DOMAIN q, NEW p, p = RemoveAt(q, k)
  PROVE  p \in Seq(S) /\ Without(p, q, k)
  <1>1. Len(q) \in Nat /\ DOMAIN q = 1 .. Len(q) /\ k \in 1 .. Len(q)
    OBVIOUS
  <1> DEFINE before == SubSeq(q, 1, k - 1)
             after == SubSeq(q, k + 1, Len(q))
  <1>2. before \in Seq(S) /\ Len(before) = k - 1 /\ \A i \in 1 .. k - 1 : before[i] = q[i]
    BY <1>1
  <1>3. /\ after \in Seq(S) /\ Len(after) = Len(q) - k
        /\ \A i \in 1 .. Len(q) - k : after[i] = q[k + i]
    BY <1>1
  <1>4. RemoveAt(q, k) = before \o after
    BY DEF RemoveAt
  <1> HIDE DEF before, after
  <1>5. before \o after \in Seq(S) /\ Len(before \o after) = Len(q) - 1
    <2>1. before \in Seq(S) /\ after \in Seq(S) /\ Len(before) = k - 1 /\ Len(after) = Len(q) - k
      BY <1>2, <1>3
    <2>2. before \o after \in Seq(S) /\ Len(before \o after) = Len(before) + Len(after)
      BY <2>1, ConcatProperties
    <2> QED
      BY <1>1, <2>1, <2>2
  <1>6. ASSUME NEW i \in 1 .. Len(q) - 1
        PROVE  (before \o after)[i] = IF i < k THEN q[i] ELSE q[i + 1]
    <2>1. CASE i < k
      BY <1>1, <1>2, <1>3, <2>1
    <2>2. CASE ~(i < k)
      <3>1. (before \o after)[i] = after[i - (k - 1)]
        BY <1>1, <1>2, <1>3, <2>2
      <3>2. i - (k - 1) \in 1 .. Len(q) - k /\ k + (i - (k - 1)) = i + 1
        BY <1>1, <2>2
      <3>3. after[i - (k - 1)] = q[i + 1]
        BY <1>3, <3>2
      <3> QED
        BY <2>2, <3>1, <3>3
    <2> QED
      BY <2>1, <2>2
  <1>7. DOMAIN (before \o after) = 1 .. Len(q) - 1
    BY <1>5
  <1>8. p \in Seq(S) /\ DOMAIN p = 1 .. Len(q) - 1
    BY <1>4, <1>5, <1>7
  <1>9. \A i \in 1 .. Len(q) - 1 : p[i] = IF i < k THEN q[i] ELSE q[i + 1]
    BY <1>4, <1>6
  <1>10. \A i \in DOMAIN p : \/ i < k /\ i \in DOMAIN q /\ p[i] = q[i]
                             \/ i >= k /\ i + 1 \in DOMAIN q /\ p[i] = q[i + 1]
    BY <1>1, <1>8, <1>9
  <1>11. ASSUME NEW i \in DOMAIN q
         PROVE  \/ i < k /\ i \in DOMAIN p /\ p[i] = q[i]
                \/ i = k
                \/ i > k /\ i - 1 \in DOMAIN p /\ p[i - 1] = q[i]
    <2>1. CASE i < k
      BY <1>1, <1>8, <1>9, <2>1
    <2>2. CASE i > k
      <3>1. i - 1 \in 1 .. Len(q) - 1 /\ ~(i - 1 < k) /\ (i - 1) + 1 = i
        BY <1>1, <2>2
      <3>2. p[i - 1] = q[i]
        BY <1>9, <3>1
      <3> QED
        BY <1>8, <2>2, <3>1, <3>2
    <2> QED
      BY <1>1, <2>1, <2>2
  <1> QED
    BY <1>8, <1>10, <1>11 DEF Without

(* Giving up removes an entry of the id of the request, if there is one.   *)
LEMMA RemovedOne ==
  ASSUME InputInv, NEW h \in InputRuns, NEW id
  PROVE  \/ removeFromQueue(queue[h], id) = queue[h]
         \/ \E k \in DOMAIN queue[h] :
              requests[queue[h][k].req].id = id /\ removeFromQueue(queue[h], id) = RemoveAt(queue[h], k)
  <1> DEFINE I == {i \in 1 .. Len(queue[h]) : requests[queue[h][i].req].id = id}
             k == SelectInSeq(queue[h], LAMBDA e : requests[e.req].id = id)
  <1>1. k = IF I # {} THEN Min(I) ELSE 0
    BY DEF SelectInSeq
  <1>2. removeFromQueue(queue[h], id) = IF k = 0 THEN queue[h] ELSE RemoveAt(queue[h], k)
    BY DEF removeFromQueue
  <1> HIDE DEF k
  <1>3. DOMAIN queue[h] = 1 .. Len(queue[h]) /\ I \subseteq Nat
    BY InvFacts, InputFacts
  <1>4. CASE I = {}
    BY <1>1, <1>2, <1>4
  <1>5. CASE I # {}
    <2>1. k \in I
      <3> HIDE DEF I
      <3> QED
        BY <1>1, <1>3, <1>5, MinIsLeast
    <2>2. k \in DOMAIN queue[h] /\ requests[queue[h][k].req].id = id /\ k # 0
      BY <1>3, <2>1
    <2> QED
      BY <1>2, <2>2
  <1> QED
    BY <1>4, <1>5

(* Submit gives up: its context has ended.                                 *)
LEMMA GivesUpStep ==
  ASSUME InputInv, NEW r \in InputRuns, SubmitGivesUp(r)
  PROVE  InputInv'
  <1> PICK n : n = Awaited(r)
    OBVIOUS
  <1> PICK h : h = requests[n].at
    OBVIOUS
  <1>1. /\ runState[r] = "waiting" /\ (requests[n].kind = "consent" => cancelled[r])
        /\ queue' = [queue EXCEPT ![h] = removeFromQueue(queue[h], requests[n].id)]
        /\ Returns(r, n, By("cancelled", 0))
    BY DEF SubmitGivesUp
  <1>2. n \in DOMAIN requests /\ Owner(n) = r /\ Waits(n) /\ h \in InputRuns
    BY <1>1, AwaitedIs
  <1>3. queue \in [InputRuns -> Seq(Entries)] /\ OneWaits
    BY DEF InputInv, InputTypes
  <1>4. ASSUME NEW g \in InputRuns
        PROVE  /\ queue'[g] \in Seq(Entries)
               /\ \A j \in DOMAIN queue'[g] :
                    /\ \E i \in DOMAIN queue[g] : queue'[g][j] = queue[g][i]
                    /\ \A i \in DOMAIN queue'[g] : queue'[g][i].req = queue'[g][j].req => i = j
               /\ \A i \in DOMAIN queue[g] :
                    Waits(queue[g][i].req) /\ queue[g][i].req # n =>
                      \E j \in DOMAIN queue'[g] : queue'[g][j] = queue[g][i]
    <2>1. CASE queue'[g] = queue[g]
      BY <1>3, <2>1, InvFacts DEF EntryAt
    <2>2. CASE queue'[g] # queue[g]
      <3>1. g = h /\ queue'[h] = removeFromQueue(queue[h], requests[n].id)
        BY <1>1, <1>2, <1>3, <2>2
      <3>2. PICK k \in DOMAIN queue[h] : requests[queue[h][k].req].id = requests[n].id
                                         /\ queue'[h] = RemoveAt(queue[h], k)
        BY <1>2, <2>2, <3>1, RemovedOne
      <3> PICK q : q = queue[h]
        OBVIOUS
      <3>3. q \in Seq(Entries) /\ Len(q) \in Nat /\ DOMAIN q = 1 .. Len(q) /\ k \in DOMAIN q
        BY <1>2, <1>3
      <3> PICK p : p = queue'[h]
        OBVIOUS
      <3>4. p \in Seq(Entries) /\ Without(p, q, k)
        <4>1. p = RemoveAt(q, k)
          BY <3>2
        <4> QED
          BY <3>3, <4>1, Removed
      <3>5. \A i, j \in DOMAIN q : q[i].req = q[j].req => i = j
        BY <1>2, InvFacts DEF EntryAt
      <3>6. ASSUME NEW j \in DOMAIN p PROVE \E i \in DOMAIN q : p[j] = q[i]
        BY <3>4 DEF Without
      <3>7. ASSUME NEW i \in DOMAIN p, NEW j \in DOMAIN p, p[i].req = p[j].req
            PROVE  i = j
        <4>1. i \in 1 .. Len(q) - 1 /\ j \in 1 .. Len(q) - 1
          BY <3>4 DEF Without
        <4>2. PICK x \in DOMAIN q : p[i] = q[x] /\ ((i < k /\ x = i) \/ (i >= k /\ x = i + 1))
          BY <3>4 DEF Without
        <4>3. PICK y \in DOMAIN q : p[j] = q[y] /\ ((j < k /\ y = j) \/ (j >= k /\ y = j + 1))
          BY <3>4 DEF Without
        <4>4. x = y
          BY <3>5, <3>7, <4>2, <4>3
        <4> QED
          BY <3>3, <4>1, <4>2, <4>3, <4>4
      <3>8. ASSUME NEW i \in DOMAIN q, Waits(q[i].req), q[i].req # n
            PROVE  \E j \in DOMAIN p : p[j] = q[i]
        <4>1. q[i].req \in DOMAIN requests /\ q[k].req \in DOMAIN requests
          BY <1>2, <3>3, InvFacts
        <4>2. i # k
          <5> SUFFICES ASSUME i = k PROVE FALSE
            OBVIOUS
          <5>1. requests[q[i].req].id = requests[n].id
            BY <3>2
          <5>2. Owner(q[i].req) = Owner(n)
            BY <1>2, <3>8, <4>1, <5>1, IdsApart
          <5> QED
            BY <1>2, <1>3, <3>8, <4>1, <5>2 DEF OneWaits
        <4> QED
          BY <3>4, <4>2 DEF Without
      <3> QED
        BY <3>1, <3>4, <3>6, <3>7, <3>8
    <2> QED
      BY <2>1, <2>2
  <1>5. queue' \in [InputRuns -> Seq(Entries)]
    BY <1>1, <1>3, <1>4
  <1>6. \A g \in InputRuns : \A j \in DOMAIN queue'[g] :
          /\ \E i \in DOMAIN queue[g] : queue'[g][j] = queue[g][i]
          /\ \A i \in DOMAIN queue'[g] : queue'[g][i].req = queue'[g][j].req => i = j
    BY <1>4
  <1>7. \A g \in InputRuns : \A i \in DOMAIN queue[g] :
          Waits(queue[g][i].req) /\ queue[g][i].req # n => \E j \in DOMAIN queue'[g] : queue'[g][j] = queue[g][i]
    BY <1>4
  <1>8. Settles(r, n, "cancelled", 0)
    BY <1>1, <1>2, <1>5, <1>6, <1>7 DEF Settles
  <1> QED
    BY <1>8, SettlesStep

-----------------------------------------------------------------------------
(* The invariant in every behaviour, and what it gives.                    *)

(* No run has begun, and nothing is asked.                                 *)
LEMMA InitInputInv == InputInit => InputInv
  <1> SUFFICES ASSUME InputInit PROVE InputInv
    OBVIOUS
  <1>1. /\ runState = [r \in InputRuns |-> "new"] /\ cancelled = [r \in InputRuns |-> FALSE]
        /\ handlerOf = [p \in InputPods |-> NoHandler] /\ queue = [r \in InputRuns |-> <<>>]
        /\ requests = <<>> /\ rows = <<>> /\ answers = <<>> /\ results = <<>> /\ disturbed = {}
    BY DEF InputInit
  <1>2. queue \in [InputRuns -> Seq(Entries)] /\ \A h \in InputRuns : DOMAIN queue[h] = {}
    BY <1>1
  <1>3. requests \in Seq(ARequest) /\ rows \in Seq(ARow) /\ results \in Seq(AResult) /\ answers \in Seq(AnAnswer)
    BY <1>1
  <1>4. /\ Len(requests) = 0 /\ Len(rows) = 0 /\ Len(results) = 0 /\ Len(answers) = 0
        /\ DOMAIN requests = {} /\ DOMAIN answers = {}
    BY <1>1
  <1>5. InputTypes
    BY <1>1, <1>2, <1>3, <1>4, UserInputAssumptions DEF InputTypes
  <1>6. HandlerKept /\ OneWaits
    BY <1>1, <1>4 DEF HandlerKept, OneWaits
  <1> QED
    BY <1>2, <1>4, <1>5, <1>6 DEF InputInv

(* Every step keeps the invariant.                                         *)
LEMMA StepInputInv == InputInv /\ [InputNext]_inputVars => InputInv'
  <1> SUFFICES ASSUME InputInv, [InputNext]_inputVars PROVE InputInv'
    OBVIOUS
  <1>1. ASSUME NEW r \in InputRuns, RegisterHandlers(r) \/ UnregisterHandlers(r) \/ CancelRun(r)
        PROVE  InputInv'
    BY <1>1, RegistrationSteps
  <1>2. ASSUME NEW r \in InputRuns,
               \/ \E kind \in {"ask_user", "consent"}, stored \in BOOLEAN : Submit(r, kind, stored)
               \/ SubmitAction(r)
        PROVE  InputInv'
    BY <1>2, SubmitDone, SubmitStep
  <1>3. ASSUME NEW r \in InputRuns, SubmitAnswered(r) \/ SubmitGivesUp(r)
        PROVE  InputInv'
    BY <1>3, AnsweredStep, GivesUpStep
  <1>4. ASSUME NEW n \in DOMAIN requests, NEW p \in InputPods, SendAnswer(n, p)
        PROVE  InputInv'
    BY <1>4, SendAnswerStep
  <1>5. ASSUME NEW a \in DOMAIN answers, Respond(a) \/ ResolveToolSuspendState(a)
        PROVE  InputInv'
    BY <1>5, RespondStep, ResolveStep
  <1>6. CASE UNCHANGED inputVars
    <2>1. UNCHANGED <<runState, cancelled, handlerOf, queue, requests, rows, answers, results, disturbed>>
      BY <1>6 DEF inputVars
    <2>2. InputTypes' /\ HandlerKept' /\ Later
      BY <2>1 DEF InputInv, InputTypes, HandlerKept, Later
    <2> QED
      BY <2>1, <2>2, QuietStep
  <1> QED
    BY <1>1, <1>2, <1>3, <1>4, <1>5, <1>6 DEF InputNext

(* In every behaviour.                                                     *)
LEMMA InputInvariant == InputSpec => []InputInv
  BY InitInputInv, StepInputInv, PTL DEF InputSpec

(* A request that waits is in the queue of the handler that its pod has    *)
(* registered, unless another run of the session has begun or ended there  *)
(* meanwhile: an answer that arrives on the pod finds it                   *)
(* (agentic/adapter.go, elicitationRegistry).                              *)
THEOREM WaitingIsReachable == InputSpec => []WaitingReachable
  <1>1. InputInv => WaitingReachable
    <2> SUFFICES ASSUME InputInv, NEW n \in DOMAIN requests, Waits(n), Owner(n) \notin disturbed
                 PROVE  /\ handlerOf[PodOf[Owner(n)]] = Owner(n)
                        /\ \E e \in ToSet(queue[Owner(n)]) : e.req = n
      BY DEF WaitingReachable
    <2>1. RequestAt(n) /\ HandlerKept /\ Owner(n) \in InputRuns
      BY InvFacts DEF InputInv
    <2>2. Queued(Owner(n), n) /\ runState[Owner(n)] = "waiting"
      BY <2>1 DEF RequestAt
    <2> QED
      BY <2>1, <2>2 DEF HandlerKept, Queued, ToSet
  <1> QED
    BY <1>1, InputInvariant, PTL

(* What a run is told, and what the row of its request says, is what the   *)
(* user answered to that request, but for repeated answers, consents of    *)
(* the same tool, and runs that have stopped waiting or cannot be reached  *)
(* (agentic/elicitation.go, Submit and Respond; chat/repository.go,        *)
(* ResolveToolSuspendState).                                               *)
THEOREM AnswersDoAgree == InputSpec => []AnswersAgree
  <1>1. InputInv => InputTypeOK
    <2> SUFFICES ASSUME InputInv PROVE InputTypeOK
      OBVIOUS
    <2>1. /\ InputTypes /\ OneWaits /\ \A n \in DOMAIN requests : RequestAt(n) /\ ResultAt(n) /\ RowAt(n)
          /\ DOMAIN answers = 1 .. Len(answers) /\ Len(answers) \in Nat
      BY InvFacts DEF InputInv
    <2>2. ASSUME NEW n \in DOMAIN requests
          PROVE  /\ rows[n].state \in {"none", "suspended", "resumed"}
                 /\ results[n].state \in {"waiting", "cancelled", "answered"}
                 /\ rows[n].by \in 0 .. Len(answers) /\ results[n].by \in 0 .. Len(answers)
      <3>1. /\ rows[n].state \in {"none", "suspended", "resumed"}
            /\ results[n].state \in {"waiting", "cancelled", "answered"}
        BY <2>1, InputFacts
      <3>2. rows[n].by = 0 \/ rows[n].by \in DOMAIN answers
        BY <2>1 DEF RowAt
      <3>3. results[n].by = 0 \/ results[n].by \in DOMAIN answers
        BY <2>1 DEF ResultAt, Taken
      <3> QED
        BY <2>1, <3>1, <3>2, <3>3
    <2>3. ASSUME NEW r \in InputRuns
          PROVE  runState[r] = "waiting" <=> \E n \in DOMAIN requests : requests[n].run = r /\ Waits(n)
      BY <2>1 DEF OneWaits, RequestAt, Owner
    <2> QED
      BY <2>1, <2>2, <2>3 DEF InputTypeOK, InputTypes
  <1>2. InputInv => AnswersTheRequest
    BY InvFacts DEF AnswersTheRequest, ResultAt, Taken
  <1>3. InputInv => RowAgreesWithRun
    <2> SUFFICES ASSUME InputInv, NEW n \in DOMAIN requests, rows[n].state = "resumed",
                        NEW a, a = rows[n].by
                 PROVE  \/ results[n].by = a
                        \/ Waits(n) /\ (\E e \in ToSet(queue[Owner(n)]) : e.req = n /\ e.answer = a)
                        \/ results[n].state = "cancelled" \/ Repeated(n) \/ Owner(n) \in disturbed
                        \/ answers[a].pod # PodOf[Owner(n)] \/ Shares(n)
      BY DEF RowAgreesWithRun, Shares
    <2>1. a \in DOMAIN answers /\ answers[a].state # "sent" /\ (answers[a].for = n \/ Shares(n))
      BY InvFacts DEF RowAt
    <2>2. CASE answers[a].for = n
      <3>1. answers[a].pod # PodOf[Owner(n)] \/ Excused(n) \/ Told(a, n)
        BY <2>1, <2>2, InvFacts DEF AnswerAt
      <3>2. Told(a, n) => \/ results[n].by = a
                          \/ Waits(n) /\ (\E e \in ToSet(queue[Owner(n)]) : e.req = n /\ e.answer = a)
        BY DEF Told, QueuedWith, ToSet
      <3> QED
        BY <3>1, <3>2 DEF Excused
    <2> QED
      BY <2>1, <2>2
  <1> QED
    BY <1>1, <1>2, <1>3, InputInvariant, PTL DEF AnswersAgree
=============================================================================
