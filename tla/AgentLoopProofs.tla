-------------------------- MODULE AgentLoopProofs ---------------------------
(***************************************************************************)
(* The agentic loop, for any batches, limits and numbers of runs: every    *)
(* run announces its end once, no result is stored without its call, what  *)
(* a chained request leaves out was seen, and every conversation sent to   *)
(* the model pairs calls and results, however the runs before it ended.    *)
(***************************************************************************)
EXTENDS AgentLoop, SequenceTheorems, WellFoundedInduction, TLAPS

-----------------------------------------------------------------------------
(* Conversations, by position.                                             *)

Ids == Nat \X Nat \X (STRING \cup {""})
Messages ==
  {m \in [role : {"user", "assistant", "tool"}, text : BOOLEAN, calls : Seq(Ids),
          id : Ids \cup {NoId}, rid : BOOLEAN] : m.calls # <<>> => m.role = "assistant"}
Loose(m) == m.role # "tool" /\ m.calls = <<>>

(* The calls of message i are answered in order by the messages after it.  *)
BlockAt(ms, i) ==
  \A p \in 1 .. Len(ms[i].calls) :
    /\ i + p <= Len(ms)
    /\ ms[i + p].role = "tool" /\ ms[i + p].id = ms[i].calls[p]
(* No result was stored for the calls of message i.                        *)
NoResultAt(ms, i) == i < Len(ms) => ms[i + 1].role # "tool"
(* Message j answers message i, at the place of its call.                  *)
ResultOf(ms, i, j) ==
  /\ j - i <= Len(ms[i].calls) /\ ms[j].id = ms[i].calls[j - i]
  /\ \A k \in i + 1 .. j : ms[k].role = "tool"
Grounded(ms) ==
  \A j \in 1 .. Len(ms) : ms[j].role = "tool" => \E i \in 1 .. j - 1 : ResultOf(ms, i, j)
(* Every message with calls, other than message b, is answered, or (where  *)
(* orphans may be) not answered at all.                                    *)
CallsMet(ms, b, orphans) ==
  \A i \in 1 .. Len(ms) :
    ms[i].calls # <<>> => BlockAt(ms, i) \/ (orphans /\ NoResultAt(ms, i)) \/ i = b
(* The messages end with one that makes these calls and the first k results.*)
OpenAt(ms, calls, k) ==
  /\ k < Len(ms) /\ k <= Len(calls)
  /\ ms[Len(ms) - k].calls = calls
  /\ \A p \in 1 .. k : /\ ms[Len(ms) - k + p].role = "tool"
                       /\ ms[Len(ms) - k + p].id = calls[p]

-----------------------------------------------------------------------------
(* What an appended message does to them.                                  *)

LEMMA Appended ==
  ASSUME NEW ms \in Seq(Messages), NEW m \in Messages
  PROVE  /\ Append(ms, m) \in Seq(Messages)
         /\ Len(ms) \in Nat
         /\ Len(Append(ms, m)) = Len(ms) + 1
         /\ \A i \in 1 .. Len(ms) : Append(ms, m)[i] = ms[i]
         /\ Append(ms, m)[Len(ms) + 1] = m
         /\ \A i \in 1 .. Len(ms) : ms[i] \in Messages
  BY AppendProperties, ElementOfSeq, LenProperties

LEMMA FrontOf ==
  ASSUME NEW ms \in Seq(Messages), ms # <<>>
  PROVE  /\ Front(ms) \in Seq(Messages) /\ Len(Front(ms)) = Len(ms) - 1
         /\ \A i \in 1 .. Len(ms) - 1 : Front(ms)[i] = ms[i]
  <1> DEFINE l == Len(ms) - 1
  <1>1. l \in Nat /\ \A i \in 1 .. l : ms[i] \in Messages
    BY EmptySeq, ElementOfSeq
  <1>2. Front(ms) = SubSeq(ms, 1, l)
    BY DEF Front
  <1> HIDE DEF l
  <1>3. /\ SubSeq(ms, 1, l) \in Seq(Messages)
        /\ Len(SubSeq(ms, 1, l)) = IF 1 <= l THEN l - 1 + 1 ELSE 0
        /\ \A i \in 1 .. l - 1 + 1 : SubSeq(ms, 1, l)[i] = ms[1 + i - 1]
    BY <1>1, SubSeqProperties
  <1>4. \A i \in 1 .. l : i \in 1 .. l - 1 + 1 /\ 1 + i - 1 = i
    BY <1>1
  <1>5. (IF 1 <= l THEN l - 1 + 1 ELSE 0) = l
    BY <1>1
  <1>6. Len(Front(ms)) = l /\ \A i \in 1 .. l : Front(ms)[i] = ms[i]
    BY <1>2, <1>3, <1>4, <1>5
  <1> QED
    BY <1>2, <1>3, <1>6 DEF l

LEMMA MessageType ==
  ASSUME NEW m \in Messages
  PROVE  /\ m.calls \in Seq(Ids) /\ Len(m.calls) \in Nat
         /\ m.calls # <<>> => m.role = "assistant" /\ Len(m.calls) > 0
         /\ m.role = "tool" => m.calls = <<>>
         /\ m.calls = <<>> => Len(m.calls) = 0
  BY EmptySeq, LenProperties DEF Messages

(* A block, and a result's place, stay as they are.                        *)
LEMMA BlockStays ==
  ASSUME NEW ms \in Seq(Messages), NEW m \in Messages, NEW i \in 1 .. Len(ms), BlockAt(ms, i)
  PROVE  BlockAt(Append(ms, m), i)
  <1> DEFINE more == Append(ms, m)
  <1>1. /\ Len(ms) \in Nat /\ Len(more) = Len(ms) + 1
        /\ \A k \in 1 .. Len(ms) : more[k] = ms[k]
    BY Appended
  <1>2. Len(ms[i].calls) \in Nat
    BY ElementOfSeq, MessageType
  <1> HIDE DEF more
  <1>3. ASSUME NEW p \in 1 .. Len(more[i].calls)
        PROVE  i + p <= Len(more) /\ more[i + p].role = "tool" /\ more[i + p].id = more[i].calls[p]
    <2>1. p \in 1 .. Len(ms[i].calls) /\ more[i] = ms[i]
      BY <1>1
    <2>2. i + p <= Len(ms) /\ ms[i + p].role = "tool" /\ ms[i + p].id = ms[i].calls[p]
      BY <2>1 DEF BlockAt
    <2>3. i + p \in 1 .. Len(ms)
      BY <1>1, <1>2, <2>1, <2>2
    <2> QED
      BY <1>1, <2>1, <2>2, <2>3
  <1>4. BlockAt(more, i)
    BY <1>3 DEF BlockAt
  <1> QED
    BY <1>4 DEF more

LEMMA ResultStays ==
  ASSUME NEW ms \in Seq(Messages), NEW m \in Messages, NEW j \in 1 .. Len(ms),
         NEW i \in 1 .. j - 1, ResultOf(ms, i, j)
  PROVE  ResultOf(Append(ms, m), i, j)
  <1> DEFINE more == Append(ms, m)
  <1>1. /\ Len(ms) \in Nat /\ Len(more) = Len(ms) + 1
        /\ \A k \in 1 .. Len(ms) : more[k] = ms[k]
    BY Appended
  <1>2. \A k \in i .. j : k \in 1 .. Len(ms)
    BY <1>1
  <1> HIDE DEF more
  <1>3. ResultOf(more, i, j)
    BY <1>1, <1>2 DEF ResultOf
  <1> QED
    BY <1>3 DEF more

LEMMA GroundedStays ==
  ASSUME NEW ms \in Seq(Messages), NEW m \in Messages, Grounded(ms),
         m.role = "tool" => \E i \in 1 .. Len(ms) : ResultOf(Append(ms, m), i, Len(ms) + 1)
  PROVE  Grounded(Append(ms, m))
  <1> DEFINE more == Append(ms, m)
  <1>1. /\ Len(ms) \in Nat /\ Len(more) = Len(ms) + 1
        /\ \A k \in 1 .. Len(ms) : more[k] = ms[k] /\ more[Len(ms) + 1] = m
    BY Appended
  <1>2. ASSUME NEW j \in 1 .. Len(more), more[j].role = "tool"
        PROVE  \E i \in 1 .. j - 1 : ResultOf(more, i, j)
    <2>1. CASE j = Len(ms) + 1
      BY <1>1, <1>2, <2>1, Appended
    <2>2. CASE j # Len(ms) + 1
      <3>1. j \in 1 .. Len(ms) /\ ms[j].role = "tool"
        BY <1>1, <1>2, <2>2
      <3>2. PICK i \in 1 .. j - 1 : ResultOf(ms, i, j)
        BY <3>1 DEF Grounded
      <3> QED
        BY <3>1, <3>2, ResultStays
    <2> QED
      BY <2>1, <2>2
  <1> HIDE DEF more
  <1>3. Grounded(more)
    BY <1>2 DEF Grounded
  <1> QED
    BY <1>3 DEF more

(* Calls that are answered, or will never be, stay so unless a result      *)
(* follows that is not one of theirs.                                      *)
LEMMA CallsStay ==
  ASSUME NEW ms \in Seq(Messages), NEW m \in Messages, NEW b, NEW orphans \in BOOLEAN,
         CallsMet(ms, b, orphans),
         m.role = "tool" => ms # <<>> /\ (ms[Len(ms)].calls # <<>> => Len(ms) = b)
  PROVE  \A i \in 1 .. Len(ms) : Append(ms, m)[i].calls # <<>> =>
           \/ BlockAt(Append(ms, m), i) \/ (orphans /\ NoResultAt(Append(ms, m), i)) \/ i = b
  <1> DEFINE more == Append(ms, m)
  <1>1. /\ Len(ms) \in Nat /\ Len(more) = Len(ms) + 1
        /\ \A k \in 1 .. Len(ms) : more[k] = ms[k]
        /\ more[Len(ms) + 1] = m
    BY Appended
  <1>2. SUFFICES ASSUME NEW i \in 1 .. Len(ms), more[i].calls # <<>>
                 PROVE  BlockAt(more, i) \/ (orphans /\ NoResultAt(more, i)) \/ i = b
    OBVIOUS
  <1>3. BlockAt(ms, i) \/ (orphans /\ NoResultAt(ms, i)) \/ i = b
    BY <1>1, <1>2 DEF CallsMet
  <1>4. CASE BlockAt(ms, i)
    BY <1>4, BlockStays
  <1>5. CASE orphans /\ NoResultAt(ms, i) /\ i # b
    <2>1. CASE i < Len(ms)
      <3>1. i + 1 \in 1 .. Len(ms) /\ ms[i + 1].role # "tool"
        BY <1>1, <1>5, <2>1 DEF NoResultAt
      <3>2. more[i + 1].role # "tool"
        BY <1>1, <3>1
      <3> QED
        BY <1>5, <3>2 DEF NoResultAt
    <2>2. CASE i = Len(ms)
      <3>1. m.role # "tool"
        BY <1>1, <1>2, <1>5, <2>2
      <3>2. more[i + 1].role # "tool"
        BY <1>1, <2>2, <3>1
      <3> QED
        BY <1>5, <3>2 DEF NoResultAt
    <2> QED
      BY <1>1, <2>1, <2>2
  <1> QED
    BY <1>3, <1>4, <1>5

(* A note, or a reply without calls.                                       *)
LEMMA LooseAppended ==
  ASSUME NEW ms \in Seq(Messages), NEW m \in Messages, Loose(m),
         NEW b, NEW orphans \in BOOLEAN, CallsMet(ms, b, orphans)
  PROVE  CallsMet(Append(ms, m), b, orphans)
  <1>1. \A i \in 1 .. Len(ms) : Append(ms, m)[i].calls # <<>> =>
          \/ BlockAt(Append(ms, m), i) \/ (orphans /\ NoResultAt(Append(ms, m), i)) \/ i = b
    BY CallsStay DEF Loose
  <1> HIDE DEF CallsMet, BlockAt, NoResultAt
  <1>2. Append(ms, m)[Len(ms) + 1].calls = <<>> /\ Len(ms) \in Nat /\ Len(Append(ms, m)) = Len(ms) + 1
    BY Appended DEF Loose
  <1> QED
    BY <1>1, <1>2 DEF CallsMet

(* A reply with calls.                                                     *)
LEMMA CallAppended ==
  ASSUME NEW ms \in Seq(Messages), NEW m \in Messages, m.role # "tool"
  PROVE  /\ OpenAt(Append(ms, m), m.calls, 0)
         /\ \A orphans \in BOOLEAN :
              CallsMet(ms, 0, orphans) => CallsMet(Append(ms, m), Len(ms) + 1, orphans)
  <1>1. Len(ms) \in Nat /\ Len(Append(ms, m)) = Len(ms) + 1 /\ Append(ms, m)[Len(ms) + 1] = m
    BY Appended
  <1>2. OpenAt(Append(ms, m), m.calls, 0)
    BY <1>1, MessageType DEF OpenAt
  <1>3. ASSUME NEW orphans \in BOOLEAN, CallsMet(ms, 0, orphans)
        PROVE  CallsMet(Append(ms, m), Len(ms) + 1, orphans)
    <2>1. \A i \in 1 .. Len(ms) : Append(ms, m)[i].calls # <<>> =>
            \/ BlockAt(Append(ms, m), i) \/ (orphans /\ NoResultAt(Append(ms, m), i)) \/ i = 0
      BY <1>3, CallsStay
    <2> QED
      BY <1>1, <2>1 DEF CallsMet
  <1> QED
    BY <1>2, <1>3

(* The next result of an open reply.                                       *)
LEMMA ResultAppended ==
  ASSUME NEW ms \in Seq(Messages), NEW m \in Messages, NEW calls \in Seq(Ids), NEW k \in Nat,
         OpenAt(ms, calls, k), k < Len(calls), m.role = "tool", m.id = calls[k + 1]
  PROVE  /\ OpenAt(Append(ms, m), calls, k + 1)
         /\ Grounded(ms) => Grounded(Append(ms, m))
         /\ \A orphans \in BOOLEAN : CallsMet(ms, Len(ms) - k, orphans) =>
              CallsMet(Append(ms, m), Len(ms) - k, orphans)
  <1> DEFINE more == Append(ms, m)
             b == Len(ms) - k
  <1>1. /\ Len(ms) \in Nat /\ Len(more) = Len(ms) + 1
        /\ \A i \in 1 .. Len(ms) : more[i] = ms[i]
        /\ more[Len(ms) + 1] = m
    BY Appended
  <1>2. b \in 1 .. Len(ms) /\ Len(calls) \in Nat /\ ms[b].calls = calls
    BY <1>1, LenProperties DEF OpenAt
  <1>3. \A p \in 1 .. k : b + p \in 1 .. Len(ms) /\ ms[b + p].role = "tool" /\ ms[b + p].id = calls[p]
    BY <1>1, <1>2 DEF OpenAt
  <1>4. \A p \in 1 .. k + 1 : more[b + p].role = "tool" /\ more[b + p].id = calls[p]
    <2> TAKE p \in 1 .. k + 1
    <2>1. CASE p = k + 1
      BY <1>1, <2>1
    <2>2. CASE p # k + 1
      BY <1>1, <1>3, <2>2
    <2> QED
      BY <2>1, <2>2
  <1>5. more[b].calls = calls
    BY <1>1, <1>2
  <1> HIDE DEF more
  <1>6. Len(more) - (k + 1) = b /\ k + 1 < Len(more) /\ k + 1 <= Len(calls)
    BY <1>1, <1>2
  <1>7. OpenAt(more, calls, k + 1)
    BY <1>4, <1>5, <1>6 DEF OpenAt
  <1>8. ASSUME Grounded(ms) PROVE Grounded(more)
    <2>1. ResultOf(more, b, Len(ms) + 1)
      <3>1. Len(ms) + 1 - b = k + 1 /\ b \in Nat
        BY <1>1, <1>2
      <3>2. more[Len(ms) + 1].id = more[b].calls[k + 1]
        BY <1>1, <1>5
      <3>3. ASSUME NEW j \in b + 1 .. Len(ms) + 1 PROVE more[j].role = "tool"
        <4>1. j - b \in 1 .. k + 1 /\ b + (j - b) = j
          BY <1>1, <1>2, <3>1
        <4> QED
          BY <1>4, <4>1
      <3> QED
        BY <1>2, <1>5, <1>6, <3>1, <3>2, <3>3 DEF ResultOf
    <2> QED
      BY <1>2, <1>8, <2>1, GroundedStays DEF more
  <1>9. ASSUME NEW orphans \in BOOLEAN, CallsMet(ms, b, orphans)
        PROVE  CallsMet(more, b, orphans)
    <2>1. ms # <<>> /\ (ms[Len(ms)].calls # <<>> => Len(ms) = b)
      <3>1. CASE k = 0
        BY <1>1, <1>2, <3>1
      <3>2. CASE k # 0
        <4>1. ms[Len(ms)].role = "tool" /\ ms[Len(ms)] \in Messages
          BY <1>1, <1>2, <1>3, <3>2, ElementOfSeq
        <4> QED
          BY <1>1, <1>2, <4>1, MessageType
      <3> QED
        BY <3>1, <3>2
    <2>2. \A i \in 1 .. Len(ms) : more[i].calls # <<>> =>
            BlockAt(more, i) \/ (orphans /\ NoResultAt(more, i)) \/ i = b
      BY <1>9, <2>1, CallsStay DEF more
    <2>3. more[Len(ms) + 1].calls = <<>>
      BY <1>1, MessageType
    <2> QED
      BY <1>1, <2>2, <2>3 DEF CallsMet
  <1> QED
    BY <1>7, <1>8, <1>9 DEF more

(* The reply is no longer open when it has all its results, or, where      *)
(* orphans may be, when it has none.                                       *)
LEMMA Closed ==
  ASSUME NEW ms \in Seq(Messages), NEW calls \in Seq(Ids), NEW k \in Nat,
         OpenAt(ms, calls, k), NEW orphans \in BOOLEAN, CallsMet(ms, Len(ms) - k, orphans),
         k = Len(calls) \/ (orphans /\ k = 0)
  PROVE  CallsMet(ms, 0, orphans)
  <1> DEFINE b == Len(ms) - k
  <1>1. Len(ms) \in Nat /\ b \in 1 .. Len(ms) /\ ms[b].calls = calls
    BY LenProperties DEF OpenAt
  <1>2. BlockAt(ms, b) \/ (orphans /\ NoResultAt(ms, b))
    <2>1. CASE k = Len(calls)
      <3>1. \A p \in 1 .. k : b + p <= Len(ms) /\ ms[b + p].role = "tool" /\ ms[b + p].id = calls[p]
        BY <1>1 DEF OpenAt
      <3> QED
        BY <1>1, <2>1, <3>1 DEF BlockAt
    <2>2. CASE orphans /\ k = 0
      BY <1>1, <2>2 DEF NoResultAt
    <2> QED
      BY <2>1, <2>2
  <1> QED
    BY <1>2 DEF CallsMet

(* What the provider accepts, in the terms of the model.                   *)
LEMMA GroundedIsAll ==
  ASSUME NEW ms \in Seq(Messages), Grounded(ms)
  PROVE  AllGrounded(ms)
  <1>1. ASSUME NEW j \in 1 .. Len(ms), ms[j].role = "tool"
        PROVE  \E i \in 1 .. Len(ms) : Answers(ms, i, j)
    <2>1. PICK i \in 1 .. j - 1 : ResultOf(ms, i, j)
      BY <1>1 DEF Grounded
    <2>2. Len(ms) \in Nat /\ i \in 1 .. Len(ms) /\ i < j /\ ms[i] \in Messages
      BY LenProperties, ElementOfSeq
    <2>3. j - i \in 1 .. Len(ms[i].calls) /\ ms[j].id = ms[i].calls[j - i]
      BY <2>1, <2>2 DEF ResultOf
    <2>4. ms[i].calls \in Seq(Ids) /\ DOMAIN ms[i].calls = 1 .. Len(ms[i].calls)
      BY <2>2, MessageType, LenProperties
    <2>5. ms[i].role = "assistant"
      BY <2>2, <2>3, <2>4, MessageType
    <2>6. ms[j].id \in ToSet(ms[i].calls)
      BY <2>3, <2>4 DEF ToSet
    <2>7. OnlyToolsBetween(ms, i, j)
      BY <2>1, <2>2 DEF ResultOf, OnlyToolsBetween
    <2> QED
      BY <1>1, <2>2, <2>5, <2>6, <2>7 DEF Answers
  <1>2. DOMAIN ms = 1 .. Len(ms)
    BY LenProperties
  <1> QED
    BY <1>1, <1>2 DEF AllGrounded

LEMMA CompleteIsWellFormed ==
  ASSUME NEW ms \in Seq(Messages), Grounded(ms), CallsMet(ms, 0, FALSE)
  PROVE  WellFormed(ms)
  <1>1. DOMAIN ms = 1 .. Len(ms) /\ Len(ms) \in Nat
    BY LenProperties
  <1>2. ASSUME NEW i \in 1 .. Len(ms), NEW c \in ToSet(ms[i].calls)
        PROVE  \E j \in 1 .. Len(ms) : Answers(ms, i, j) /\ ms[j].id = c
    <2>1. ms[i] \in Messages /\ DOMAIN ms[i].calls = 1 .. Len(ms[i].calls)
      BY ElementOfSeq, MessageType, LenProperties
    <2>2. PICK p \in 1 .. Len(ms[i].calls) : c = ms[i].calls[p]
      BY <1>2, <2>1 DEF ToSet
    <2>3. Len(ms[i].calls) \in Nat /\ ms[i].calls # <<>>
      BY <2>1, <2>2, MessageType
    <2>4. ms[i].role = "assistant" /\ BlockAt(ms, i)
      BY <1>1, <2>1, <2>3, MessageType DEF CallsMet
    <2>5. \A q \in 1 .. p : i + q \in 1 .. Len(ms) /\ ms[i + q].role = "tool"
      <3> TAKE q \in 1 .. p
      <3>1. q \in 1 .. Len(ms[i].calls)
        BY <2>2, <2>3
      <3>2. i + q <= Len(ms) /\ ms[i + q].role = "tool"
        BY <2>4, <3>1 DEF BlockAt
      <3> QED
        BY <1>1, <3>2
    <2>6. i + p \in 1 .. Len(ms) /\ ms[i + p].role = "tool" /\ ms[i + p].id = c
      BY <2>2, <2>4, <2>5 DEF BlockAt
    <2>7. ASSUME NEW k \in i + 1 .. i + p - 1 PROVE ms[k].role = "tool"
      <3>1. k - i \in 1 .. p /\ i + (k - i) = k
        BY <2>2, <2>3
      <3> QED
        BY <2>5, <3>1
    <2>8. OnlyToolsBetween(ms, i, i + p)
      BY <2>7 DEF OnlyToolsBetween
    <2> QED
      BY <2>2, <2>3, <2>4, <2>6, <2>8, <1>2 DEF Answers
  <1>3. AllAnswered(ms)
    BY <1>1, <1>2 DEF AllAnswered
  <1> QED
    BY <1>3, GroundedIsAll DEF WellFormed

-----------------------------------------------------------------------------
(* Repairing a history: messages are copied one by one, except that replies*)
(* without results are dropped, and of neighbours without calls one may    *)
(* replace the other.                                                      *)

Repairs(kept, new, ms, n) ==
  \/ new = Append(kept, ms[n]) /\ (ms[n].calls # <<>> => BlockAt(ms, n))
  \/ new = kept /\ ms[n].role # "tool" /\ (ms[n].calls # <<>> => NoResultAt(ms, n))
  \/ /\ kept # <<>> /\ Loose(Last(kept)) /\ Loose(ms[n])
     /\ new = Append(Front(kept), ms[n])

(* Position n lies in the block of message b, which was copied so far.     *)
InBlock(ms, b, n) == BlockAt(ms, b) /\ ms[b].calls # <<>> /\ n - b <= Len(ms[b].calls)
Copied(kept, ms, b, n) ==
  n - b < Len(kept) /\ \A q \in 0 .. n - b : kept[Len(kept) - q] = ms[n - q]
RepairedUpTo(kept, ms, n) ==
  /\ kept \in Seq(Messages) /\ Grounded(kept)
  /\ \A i \in 1 .. Len(kept) : kept[i].calls # <<>> =>
       \/ BlockAt(kept, i)
       \/ \E b \in 1 .. n : /\ InBlock(ms, b, n) /\ n - b < Len(ms[b].calls)
                            /\ i = Len(kept) - (n - b)
  /\ \A b \in 1 .. n : InBlock(ms, b, n) => Copied(kept, ms, b, n)

(* A message that is not copied is in no block.                            *)
LEMMA NotInBlock ==
  ASSUME NEW ms \in Seq(Messages), NEW n \in 1 .. Len(ms), NEW b \in 1 .. n,
         ms[n].role # "tool", ms[n].calls # <<>> => NoResultAt(ms, n)
  PROVE  ~InBlock(ms, b, n)
  <1> SUFFICES ASSUME InBlock(ms, b, n) PROVE FALSE
    OBVIOUS
  <1>1. Len(ms) \in Nat /\ b \in 1 .. Len(ms)
    BY LenProperties
  <1>2. Len(ms[b].calls) \in Nat /\ Len(ms[b].calls) > 0
    BY <1>1, ElementOfSeq, MessageType DEF InBlock
  <1>3. CASE b = n
    <2>1. 1 \in 1 .. Len(ms[n].calls) /\ NoResultAt(ms, n) /\ BlockAt(ms, n)
      BY <1>2, <1>3 DEF InBlock
    <2>2. n + 1 <= Len(ms) /\ ms[n + 1].role = "tool"
      BY <2>1 DEF BlockAt
    <2> QED
      BY <1>1, <2>1, <2>2 DEF NoResultAt
  <1>4. CASE b # n
    <2>1. n - b \in 1 .. Len(ms[b].calls) /\ b + (n - b) = n
      BY <1>1, <1>2, <1>4 DEF InBlock
    <2>2. ms[b + (n - b)].role = "tool"
      BY <2>1 DEF BlockAt, InBlock
    <2> QED
      BY <2>1, <2>2
  <1> QED
    BY <1>3, <1>4

LEMMA RepairedBetweenBlocks ==
  ASSUME NEW ms \in Seq(Messages), NEW n \in 1 .. Len(ms), NEW kept,
         RepairedUpTo(kept, ms, n - 1),
         ms[n].role # "tool", ms[n].calls # <<>> => NoResultAt(ms, n)
  PROVE  CallsMet(kept, 0, FALSE)
  <1>1. ASSUME NEW i \in 1 .. Len(kept), kept[i].calls # <<>>, ~BlockAt(kept, i)
        PROVE  FALSE
    <2>1. PICK b \in 1 .. n - 1 : InBlock(ms, b, n - 1) /\ n - 1 - b < Len(ms[b].calls)
      BY <1>1 DEF RepairedUpTo
    <2>2. Len(ms[b].calls) \in Nat /\ b \in 1 .. n
      BY LenProperties, ElementOfSeq, MessageType
    <2>3. InBlock(ms, b, n)
      BY <2>1, <2>2 DEF InBlock
    <2> QED
      BY <2>2, <2>3, NotInBlock
  <1> QED
    BY <1>1 DEF CallsMet

(* The message is dropped.                                                 *)
LEMMA DropRepairs ==
  ASSUME NEW ms \in Seq(Messages), NEW n \in 1 .. Len(ms), NEW kept,
         RepairedUpTo(kept, ms, n - 1),
         ms[n].role # "tool", ms[n].calls # <<>> => NoResultAt(ms, n)
  PROVE  RepairedUpTo(kept, ms, n)
  <1>1. CallsMet(kept, 0, FALSE)
    BY RepairedBetweenBlocks
  <1>2. \A b \in 1 .. n : ~InBlock(ms, b, n)
    BY NotInBlock
  <1>3. \A i \in 1 .. Len(kept) : kept[i].calls # <<>> => BlockAt(kept, i)
    BY <1>1 DEF CallsMet
  <1> QED
    BY <1>2, <1>3 DEF RepairedUpTo

(* The message takes the place of the last one.                            *)
LEMMA ReplaceRepairs ==
  ASSUME NEW ms \in Seq(Messages), NEW n \in 1 .. Len(ms), NEW kept,
         RepairedUpTo(kept, ms, n - 1),
         kept # <<>>, Loose(Last(kept)), Loose(ms[n])
  PROVE  RepairedUpTo(Append(Front(kept), ms[n]), ms, n)
  <1> DEFINE new == Append(Front(kept), ms[n])
             l == Len(kept)
  <1>1. kept \in Seq(Messages) /\ Grounded(kept)
    BY DEF RepairedUpTo
  <1>2. l \in Nat \ {0} /\ \A i \in 1 .. l : kept[i] \in Messages
    BY <1>1, EmptySeq, ElementOfSeq
  <1>3. /\ Front(kept) \in Seq(Messages) /\ Len(Front(kept)) = l - 1
        /\ \A i \in 1 .. l - 1 : Front(kept)[i] = kept[i]
    BY <1>1, FrontOf
  <1>4. ms[n] \in Messages
    BY ElementOfSeq
  <1>5. /\ new \in Seq(Messages) /\ Len(new) = l
        /\ \A i \in 1 .. l - 1 : new[i] = kept[i]
        /\ new[l] = ms[n]
    BY <1>2, <1>3, <1>4, Appended
  <1>6. Loose(kept[l])
    BY DEF Last
  <1>7. CallsMet(kept, 0, FALSE)
    BY RepairedBetweenBlocks DEF Loose
  <1> HIDE DEF new, l
  <1>8. \A i \in 1 .. l : (new[i].role = "tool" <=> kept[i].role = "tool") /\ new[i].calls = kept[i].calls
                          /\ (kept[i].role = "tool" => i < l /\ new[i] = kept[i])
    <2> TAKE i \in 1 .. l
    <2>1. CASE i = l
      BY <1>5, <1>6, <2>1 DEF Loose
    <2>2. CASE i # l
      BY <1>2, <1>5, <2>2
    <2> QED
      BY <2>1, <2>2
  <1>9. Grounded(new)
    <2> SUFFICES ASSUME NEW j \in 1 .. Len(new), new[j].role = "tool"
                 PROVE  \E i \in 1 .. j - 1 : ResultOf(new, i, j)
      BY DEF Grounded
    <2>1. j \in 1 .. l /\ kept[j].role = "tool" /\ new[j] = kept[j]
      BY <1>5, <1>8
    <2>2. PICK i \in 1 .. j - 1 : ResultOf(kept, i, j)
      BY <1>1, <2>1 DEF Grounded, l
    <2>3. i \in 1 .. l /\ \A k \in i .. j : k \in 1 .. l
      BY <1>2, <2>1
    <2>4. new[i].calls = kept[i].calls /\ \A k \in i + 1 .. j : new[k].role = "tool"
      BY <1>8, <2>2, <2>3 DEF ResultOf
    <2>5. ResultOf(new, i, j)
      BY <2>1, <2>2, <2>4 DEF ResultOf
    <2> QED
      BY <2>5
  <1>10. ASSUME NEW i \in 1 .. Len(new), new[i].calls # <<>>
         PROVE  BlockAt(new, i)
    <2>1. i \in 1 .. l /\ kept[i].calls # <<>> /\ new[i].calls = kept[i].calls
      BY <1>5, <1>8, <1>10
    <2>2. BlockAt(kept, i) /\ Len(kept[i].calls) \in Nat
      BY <1>2, <1>7, <2>1, MessageType DEF CallsMet, l
    <2>3. ASSUME NEW p \in 1 .. Len(kept[i].calls)
          PROVE  i + p <= l /\ new[i + p].role = "tool" /\ new[i + p].id = kept[i].calls[p]
      <3>1. i + p <= l /\ kept[i + p].role = "tool" /\ kept[i + p].id = kept[i].calls[p]
        BY <2>2 DEF BlockAt, l
      <3>2. i + p \in 1 .. l
        BY <1>2, <2>1, <2>2, <3>1
      <3> QED
        BY <1>8, <3>1, <3>2
    <2> QED
      BY <1>5, <2>1, <2>3 DEF BlockAt
  <1>11. \A b \in 1 .. n : ~InBlock(ms, b, n)
    BY NotInBlock DEF Loose
  <1>12. RepairedUpTo(new, ms, n)
    BY <1>5, <1>9, <1>10, <1>11 DEF RepairedUpTo
  <1> QED
    BY <1>12 DEF new

(* The message is copied.                                                  *)
LEMMA CopyRepairs ==
  ASSUME NEW ms \in Seq(Messages), Grounded(ms), CallsMet(ms, 0, TRUE),
         NEW n \in 1 .. Len(ms), NEW kept, RepairedUpTo(kept, ms, n - 1),
         ms[n].calls # <<>> => BlockAt(ms, n)
  PROVE  RepairedUpTo(Append(kept, ms[n]), ms, n)
  <1> DEFINE new == Append(kept, ms[n])
             l == Len(kept) + 1
  <1>1. kept \in Seq(Messages) /\ Grounded(kept) /\ Len(ms) \in Nat
    BY LenProperties DEF RepairedUpTo
  <1>2. ms[n] \in Messages /\ \A b \in 1 .. n : Len(ms[b].calls) \in Nat
    BY <1>1, ElementOfSeq, MessageType
  <1>3. /\ new \in Seq(Messages) /\ Len(new) = l /\ Len(kept) \in Nat
        /\ \A i \in 1 .. Len(kept) : new[i] = kept[i]
        /\ new[l] = ms[n]
    BY <1>1, <1>2, Appended
  <1>4. ASSUME NEW b \in 1 .. n, InBlock(ms, b, n)
        PROVE  Copied(new, ms, b, n)
    <2>1. CASE b = n
      <3>1. n - b = 0 /\ \A q \in 0 .. n - b : q = 0
        BY <2>1
      <3> HIDE DEF new
      <3> QED
        BY <1>3, <3>1 DEF Copied
    <2>2. CASE b # n
      <3>1. b \in 1 .. n - 1 /\ InBlock(ms, b, n - 1)
        BY <1>2, <1>4, <2>2 DEF InBlock
      <3>2. n - 1 - b < Len(kept) /\ \A q \in 0 .. n - 1 - b : kept[Len(kept) - q] = ms[n - 1 - q]
        BY <3>1 DEF RepairedUpTo, Copied
      <3> HIDE DEF new
      <3>3. ASSUME NEW q \in 0 .. n - b PROVE new[Len(new) - q] = ms[n - q]
        <4>1. CASE q = 0
          BY <1>3, <4>1
        <4>2. CASE q # 0
          <5>1. q - 1 \in 0 .. n - 1 - b
            BY <4>2
          <5>2. kept[Len(kept) - (q - 1)] = ms[n - 1 - (q - 1)]
            BY <3>2, <5>1
          <5>3. Len(kept) - (q - 1) = Len(new) - q /\ n - 1 - (q - 1) = n - q
            BY <1>3
          <5>4. Len(new) - q \in 1 .. Len(kept)
            BY <1>3, <3>2, <4>2
          <5> QED
            BY <1>3, <5>2, <5>3, <5>4
        <4> QED
          BY <4>1, <4>2
      <3> QED
        BY <1>3, <3>2, <3>3 DEF Copied
    <2> QED
      BY <2>1, <2>2
  <1>5. Grounded(new)
    <2>1. ASSUME ms[n].role = "tool"
          PROVE  \E i \in 1 .. Len(kept) : ResultOf(new, i, l)
      <3>1. PICK b \in 1 .. n - 1 : ResultOf(ms, b, n)
        BY <2>1 DEF Grounded
      <3>2. n - b <= Len(ms[b].calls) /\ Len(ms[b].calls) \in Nat /\ ms[b].calls # <<>>
        <4>1. ms[b] \in Messages
          BY <1>1, ElementOfSeq
        <4> QED
          BY <1>2, <3>1, <4>1, MessageType DEF ResultOf
      <3>3. ms[b + 1].role = "tool" /\ b < Len(ms)
        BY <1>1, <3>1 DEF ResultOf
      <3>4. BlockAt(ms, b)
        BY <1>1, <3>2, <3>3 DEF CallsMet, NoResultAt
      <3>5. Copied(new, ms, b, n)
        BY <1>4, <3>2, <3>4 DEF InBlock
      <3> DEFINE i == l - (n - b)
      <3> HIDE DEF new
      <3>6. n - b \in Nat /\ n - b < l /\ \A q \in 0 .. n - b : new[l - q] = ms[n - q]
        BY <1>3, <3>5 DEF Copied
      <3>7. i \in 1 .. Len(kept) /\ l - i = n - b /\ l \in Nat
        BY <1>3, <3>6
      <3>8. new[i] = ms[b] /\ new[l] = ms[n]
        <4>1. n - b \in 0 .. n - b /\ n - (n - b) = b
          OBVIOUS
        <4> QED
          BY <1>3, <3>6, <4>1
      <3>9. ASSUME NEW k \in i + 1 .. l PROVE new[k].role = "tool"
        <4>1. l - k \in 0 .. n - b /\ l - (l - k) = k
          BY <3>6, <3>7
        <4>2. new[l - (l - k)] = ms[n - (l - k)]
          BY <3>6, <4>1
        <4>3. n - (l - k) \in b + 1 .. n
          BY <3>6, <3>7
        <4> QED
          BY <3>1, <4>1, <4>2, <4>3 DEF ResultOf
      <3> HIDE DEF i, l
      <3>10. ResultOf(new, i, l)
        BY <3>1, <3>7, <3>8, <3>9 DEF ResultOf
      <3> QED
        BY <3>7, <3>10
    <2> QED
      BY <1>1, <1>2, <2>1, GroundedStays
  <1>6. ASSUME NEW i \in 1 .. Len(new), new[i].calls # <<>>, ~BlockAt(new, i)
        PROVE  \E b \in 1 .. n : /\ InBlock(ms, b, n) /\ n - b < Len(ms[b].calls)
                                 /\ i = Len(new) - (n - b)
    <2>1. CASE i = l
      <3>1. ms[n].calls # <<>> /\ BlockAt(ms, n)
        BY <1>3, <1>6, <2>1
      <3>2. Len(ms[n].calls) > 0 /\ Len(ms[n].calls) \in Nat /\ n - n = 0
        BY <1>2, <3>1, MessageType
      <3>3. InBlock(ms, n, n) /\ n - n < Len(ms[n].calls) /\ i = Len(new) - (n - n)
        BY <1>3, <2>1, <3>1, <3>2 DEF InBlock
      <3> QED
        BY <3>3
    <2>2. CASE i # l
      <3>1. i \in 1 .. Len(kept) /\ kept[i].calls # <<>> /\ new[i] = kept[i]
        BY <1>3, <1>6, <2>2
      <3>2. ~BlockAt(kept, i)
        BY <1>1, <1>2, <1>6, <3>1, BlockStays
      <3>3. PICK b \in 1 .. n - 1 : /\ InBlock(ms, b, n - 1) /\ n - 1 - b < Len(ms[b].calls)
                                    /\ i = Len(kept) - (n - 1 - b)
        BY <3>1, <3>2 DEF RepairedUpTo
      <3>4. b \in 1 .. n /\ n - b <= Len(ms[b].calls) /\ i = l - (n - b)
        BY <1>2, <1>3, <3>3
      <3>5. InBlock(ms, b, n)
        BY <3>3, <3>4 DEF InBlock
      <3>6. n - b < Len(ms[b].calls)
        <4>0. Len(ms[b].calls) \in Nat /\ n - b \in Nat
          BY <1>2, <3>4
        <4> SUFFICES ASSUME n - b = Len(ms[b].calls) PROVE FALSE
          BY <3>4, <4>0
        <4>1. Copied(new, ms, b, n) /\ BlockAt(ms, b)
          BY <1>4, <3>4, <3>5 DEF InBlock
        <4> HIDE DEF new
        <4>2. \A q \in 0 .. n - b : new[l - q] = ms[n - q]
          BY <1>3, <4>1 DEF Copied
        <4>3. new[i] = ms[b]
          <5>1. n - b \in 0 .. n - b /\ n - (n - b) = b
            BY <3>4
          <5> QED
            BY <3>4, <4>2, <5>1
        <4>4. ASSUME NEW p \in 1 .. Len(new[i].calls)
              PROVE  i + p <= l /\ new[i + p].role = "tool" /\ new[i + p].id = new[i].calls[p]
          <5>1. p \in 1 .. Len(ms[b].calls) /\ p \in 1 .. n - b
            BY <4>3
          <5>2. n - b - p \in 0 .. n - b /\ l - (n - b - p) = i + p /\ n - (n - b - p) = b + p
            BY <1>3, <3>4, <5>1
          <5>3. new[i + p] = ms[b + p]
            BY <4>2, <5>2
          <5>4. ms[b + p].role = "tool" /\ ms[b + p].id = ms[b].calls[p]
            BY <4>1, <5>1 DEF BlockAt
          <5> QED
            BY <1>3, <3>4, <4>3, <5>1, <5>3, <5>4
        <4> QED
          BY <1>3, <1>6, <4>4 DEF BlockAt
      <3> QED
        BY <1>3, <3>4, <3>5, <3>6
    <2> QED
      BY <2>1, <2>2
  <1> HIDE DEF new
  <1>7. RepairedUpTo(new, ms, n)
    BY <1>3, <1>4, <1>5, <1>6 DEF RepairedUpTo
  <1> QED
    BY <1>7 DEF new

-----------------------------------------------------------------------------
(* The two repairs of a loaded history are recursions over its positions.  *)
(* What they compute is found as the sequence of their intermediate values.*)

(* A nonempty set of numbers has a least one.                              *)
LEMMA LeastNumber ==
  ASSUME NEW T, T \subseteq Nat, T # {}
  PROVE  \E m \in T : \A k \in T : m <= k
  <1> DEFINE R == OpToRel(<, Nat)
  <1>1. IsWellFoundedOn(R, Nat)
    BY NatLessThanWellFounded
  <1>2. \A y, x \in Nat : y < x => <<y, x>> \in R
    BY DEF OpToRel
  <1> HIDE DEF R
  <1>3. PICK m \in T : \A y \in T : ~(<<y, m>> \in R)
    BY <1>1, WFMin
  <1>4. \A y \in T : y \in Nat /\ m \in Nat /\ ~(y < m)
    BY <1>2, <1>3, Zenon
  <1> QED
    BY <1>3, <1>4

(* A set with 0 and, up to m, the successors of its numbers has them all.  *)
LEMMA UpTo ==
  ASSUME NEW m \in Nat, NEW T, 0 \in T, \A n \in 1 .. m : n - 1 \in T => n \in T
  PROVE  \A n \in 0 .. m : n \in T
  <1> DEFINE Out == {n \in 0 .. m : n \notin T}
  <1> SUFFICES ASSUME Out # {} PROVE FALSE
    OBVIOUS
  <1>1. PICK n \in Out : \A k \in Out : n <= k
    <2>1. Out \subseteq Nat
      OBVIOUS
    <2> HIDE DEF Out
    <2> QED
      BY <2>1, LeastNumber
  <1>2. n \in 1 .. m /\ n \notin T /\ n - 1 \in 0 .. m /\ ~(n <= n - 1)
    BY <1>1
  <1>3. n - 1 \in T
    BY <1>1, <1>2
  <1> QED
    BY <1>2, <1>3

(* The values of a recursion up to position m.                             *)
Values(f, S, step, m) ==
  /\ f \in [0 .. m -> S] /\ f[0] = <<>>
  /\ \A n \in 1 .. m : f[n] = step[<<f[n - 1], n>>]

LEMMA ValuesExist ==
  ASSUME NEW S, <<>> \in S, NEW step, NEW m \in Nat,
         \A x \in S, n \in 1 .. m : step[<<x, n>>] \in S
  PROVE  \E f : Values(f, S, step, m)
  <1> DEFINE T == {n \in 0 .. m : ~\E f : Values(f, S, step, n)}
  <1> SUFFICES ASSUME T # {} PROVE FALSE
    OBVIOUS
  <1>1. PICK n \in T : \A k \in T : n <= k
    <2>1. T \subseteq Nat
      OBVIOUS
    <2> HIDE DEF T
    <2> QED
      BY <2>1, LeastNumber
  <1>2. n \in 0 .. m /\ ~\E f : Values(f, S, step, n)
    BY <1>1
  <1>3. CASE n = 0
    <2>1. Values([i \in 0 .. 0 |-> <<>>], S, step, 0)
      BY DEF Values
    <2> QED
      BY <1>2, <1>3, <2>1
  <1>4. CASE n # 0
    <2>1. n - 1 \in 0 .. m /\ ~(n <= n - 1) /\ n \in 1 .. m
      BY <1>2, <1>4
    <2>2. PICK f : Values(f, S, step, n - 1)
      BY <1>1, <2>1
    <2> DEFINE value == step[<<f[n - 1], n>>]
               g == [i \in 0 .. n |-> IF i < n THEN f[i] ELSE value]
    <2>3. f \in [0 .. n - 1 -> S] /\ value \in S
      BY <2>1, <2>2 DEF Values
    <2>4. \A i \in 0 .. n - 1 : g[i] = f[i]
      BY <2>1
    <2>5. g[n] = value /\ g[n - 1] = f[n - 1] /\ g[0] = f[0]
      BY <2>1
    <2>6. g \in [0 .. n -> S]
      <3> HIDE DEF value
      <3>1. \A i \in 0 .. n : (IF i < n THEN f[i] ELSE value) \in S
        BY <2>1, <2>3
      <3> QED
        BY <3>1
    <2> HIDE DEF g
    <2>7. ASSUME NEW i \in 1 .. n PROVE g[i] = step[<<g[i - 1], i>>]
      <3>1. CASE i = n
        BY <2>5, <3>1
      <3>2. CASE i # n
        <4>1. i \in 1 .. n - 1 /\ i \in 0 .. n - 1 /\ i - 1 \in 0 .. n - 1
          BY <2>1, <3>2
        <4>2. f[i] = step[<<f[i - 1], i>>]
          BY <2>2, <4>1 DEF Values
        <4> QED
          BY <2>4, <4>1, <4>2
      <3> QED
        BY <3>1, <3>2
    <2>8. Values(g, S, step, n)
      BY <2>2, <2>5, <2>6, <2>7 DEF Values
    <2> QED
      BY <1>2, <2>8
  <1> QED
    BY <1>3, <1>4

(* The intermediate values of the filter.                                  *)
Filtered(kept, m, ids) == IF Unresolved(m, ids) THEN kept ELSE Append(kept, m)
Filters(f, ms, ids) ==
  f = [n \in 0 .. Len(ms) |->
         IF n = 0 THEN <<>>
         ELSE IF Unresolved(ms[n], ids) THEN f[n - 1]
         ELSE Append(f[n - 1], ms[n])]

LEMMA FilterValues ==
  ASSUME NEW ms \in Seq(Messages)
  PROVE  \E f \in [0 .. Len(ms) -> Seq(Messages)] :
           /\ f[0] = <<>> /\ f[Len(ms)] = filterUnresolvedToolUses(ms)
           /\ \A n \in 1 .. Len(ms) : f[n] = Filtered(f[n - 1], ms[n], ResultIds(ms))
  <1>1. PICK ids : ids = ResultIds(ms)
    OBVIOUS
  <1>2. filterUnresolvedToolUses(ms) = (CHOOSE f : Filters(f, ms, ids))[Len(ms)]
    BY <1>1, Zenon DEF filterUnresolvedToolUses, Filters
  <1>3. Len(ms) \in Nat /\ <<>> \in Seq(Messages) /\ \A n \in 1 .. Len(ms) : ms[n] \in Messages
    BY LenProperties, ElementOfSeq, EmptySeq
  <1> DEFINE step == [x \in Seq(Messages) \X (1 .. Len(ms)) |-> Filtered(x[1], ms[x[2]], ids)]
  <1>4. ASSUME NEW x \in Seq(Messages), NEW n \in 1 .. Len(ms)
        PROVE  step[<<x, n>>] = Filtered(x, ms[n], ids) /\ step[<<x, n>>] \in Seq(Messages)
    <2>1. step[<<x, n>>] = Filtered(x, ms[n], ids)
      OBVIOUS
    <2>2. Filtered(x, ms[n], ids) \in Seq(Messages)
      BY <1>3, AppendProperties DEF Filtered
    <2> QED
      BY <2>1, <2>2
  <1> HIDE DEF step
  <1>5. PICK f : Values(f, Seq(Messages), step, Len(ms))
    BY <1>3, <1>4, ValuesExist
  <1>6. ASSUME NEW n \in 1 .. Len(ms)
        PROVE  f[n] = Filtered(f[n - 1], ms[n], ids)
    <2>1. n - 1 \in 0 .. Len(ms)
      BY <1>3
    <2>2. f[n - 1] \in Seq(Messages) /\ f[n] = step[<<f[n - 1], n>>]
      BY <1>5, <2>1 DEF Values
    <2> QED
      BY <1>4, <2>2
  <1>7. Filters(f, ms, ids)
    <2>1. f = [n \in 0 .. Len(ms) |-> f[n]]
      BY <1>5 DEF Values
    <2>2. ASSUME NEW n \in 0 .. Len(ms)
          PROVE  f[n] = IF n = 0 THEN <<>>
                        ELSE IF Unresolved(ms[n], ids) THEN f[n - 1]
                        ELSE Append(f[n - 1], ms[n])
      <3>1. CASE n = 0
        BY <1>5, <3>1 DEF Values
      <3>2. CASE n # 0
        <4>1. n \in 1 .. Len(ms)
          BY <1>3, <3>2
        <4> QED
          BY <1>6, <3>2, <4>1 DEF Filtered
      <3> QED
        BY <3>1, <3>2
    <2> QED
      BY <2>1, <2>2 DEF Filters
  <1>8. PICK g : g = CHOOSE h : Filters(h, ms, ids)
    OBVIOUS
  <1>9. Filters(g, ms, ids)
    BY <1>7, <1>8, Zenon
  <1>10. g[0] = <<>> /\ \A n \in 1 .. Len(ms) : g[n] = Filtered(g[n - 1], ms[n], ids)
    <2>1. \A n \in 0 .. Len(ms) :
            g[n] = IF n = 0 THEN <<>>
                   ELSE IF Unresolved(ms[n], ids) THEN g[n - 1]
                   ELSE Append(g[n - 1], ms[n])
      BY <1>9, Zenon DEF Filters
    <2>2. g[0] = <<>>
      BY <1>3, <2>1
    <2>3. \A n \in 1 .. Len(ms) : n \in 0 .. Len(ms) /\ n # 0
      BY <1>3
    <2> QED
      BY <2>1, <2>2, <2>3 DEF Filtered
  <1>11. \A n \in 0 .. Len(ms) : g[n] \in Seq(Messages)
    <2> DEFINE T == {n \in 0 .. Len(ms) : g[n] \in Seq(Messages)}
    <2>1. 0 \in T
      <3>1. 0 \in 0 .. Len(ms)
        BY <1>3
      <3>2. g[0] \in Seq(Messages)
        BY <1>3, <1>10, Zenon
      <3> QED
        BY <3>1, <3>2
    <2>2. ASSUME NEW n \in 1 .. Len(ms), n - 1 \in T PROVE n \in T
      <3>1. g[n] = Filtered(g[n - 1], ms[n], ids) /\ ms[n] \in Messages /\ g[n - 1] \in Seq(Messages)
        BY <1>3, <1>10, <2>2
      <3>2. g[n] \in Seq(Messages)
        BY <3>1, AppendProperties DEF Filtered
      <3> QED
        BY <1>3, <3>2
    <2>3. \A n \in 0 .. Len(ms) : n \in T
      <3> HIDE DEF T
      <3> QED
        BY <1>3, <2>1, <2>2, UpTo
    <2> QED
      BY <2>3
  <1>12. g \in [0 .. Len(ms) -> Seq(Messages)]
    <2>1. g = [n \in 0 .. Len(ms) |-> g[n]]
      BY <1>9 DEF Filters
    <2> QED
      BY <1>11, <2>1
  <1> QED
    BY <1>1, <1>2, <1>8, <1>10, <1>12

(* The intermediate values of the sanitizer.                               *)
Sanitizes(f, ms) ==
  f = [n \in 0 .. Len(ms) |-> IF n = 0 THEN <<>> ELSE Sanitized(f[n - 1], ms[n])]

LEMMA SanitizedType ==
  ASSUME NEW kept \in Seq(Messages), NEW m \in Messages
  PROVE  Sanitized(kept, m) \in Seq(Messages)
  <1>1. Append(kept, m) \in Seq(Messages)
    BY AppendProperties
  <1>2. CASE kept # <<>>
    <2>1. Front(kept) \in Seq(Messages)
      BY <1>2, FrontOf
    <2>2. Append(Front(kept), m) \in Seq(Messages)
      BY <2>1, AppendProperties
    <2> QED
      BY <1>1, <2>2 DEF Sanitized
  <1>3. CASE kept = <<>>
    BY <1>1, <1>3 DEF Sanitized
  <1> QED
    BY <1>2, <1>3

LEMMA SanitizerValues ==
  ASSUME NEW ms \in Seq(Messages)
  PROVE  \E f \in [0 .. Len(ms) -> Seq(Messages)] :
           /\ f[0] = <<>> /\ f[Len(ms)] = SanitizeMessages(ms)
           /\ \A n \in 1 .. Len(ms) : f[n] = Sanitized(f[n - 1], ms[n])
  <1>1. SanitizeMessages(ms) = (CHOOSE f : Sanitizes(f, ms))[Len(ms)]
    BY Zenon DEF SanitizeMessages, Sanitizes
  <1>2. Len(ms) \in Nat /\ <<>> \in Seq(Messages) /\ \A n \in 1 .. Len(ms) : ms[n] \in Messages
    BY LenProperties, ElementOfSeq, EmptySeq
  <1> DEFINE step == [x \in Seq(Messages) \X (1 .. Len(ms)) |-> Sanitized(x[1], ms[x[2]])]
  <1>3. ASSUME NEW x \in Seq(Messages), NEW n \in 1 .. Len(ms)
        PROVE  step[<<x, n>>] = Sanitized(x, ms[n]) /\ step[<<x, n>>] \in Seq(Messages)
    <2>1. step[<<x, n>>] = Sanitized(x, ms[n])
      OBVIOUS
    <2> QED
      BY <1>2, <2>1, SanitizedType
  <1> HIDE DEF step
  <1>4. PICK f : Values(f, Seq(Messages), step, Len(ms))
    BY <1>2, <1>3, ValuesExist
  <1>5. ASSUME NEW n \in 1 .. Len(ms)
        PROVE  f[n] = Sanitized(f[n - 1], ms[n])
    <2>1. n - 1 \in 0 .. Len(ms)
      BY <1>2
    <2>2. f[n - 1] \in Seq(Messages) /\ f[n] = step[<<f[n - 1], n>>]
      BY <1>4, <2>1 DEF Values
    <2> QED
      BY <1>3, <2>2
  <1>6. Sanitizes(f, ms)
    <2>1. f = [n \in 0 .. Len(ms) |-> f[n]]
      BY <1>4 DEF Values
    <2>2. ASSUME NEW n \in 0 .. Len(ms)
          PROVE  f[n] = IF n = 0 THEN <<>> ELSE Sanitized(f[n - 1], ms[n])
      <3>1. CASE n = 0
        BY <1>4, <3>1 DEF Values
      <3>2. CASE n # 0
        <4>1. n \in 1 .. Len(ms)
          BY <1>2, <3>2
        <4> QED
          BY <1>5, <3>2, <4>1
      <3> QED
        BY <3>1, <3>2
    <2> QED
      BY <2>1, <2>2 DEF Sanitizes
  <1>7. PICK g : g = CHOOSE h : Sanitizes(h, ms)
    OBVIOUS
  <1>8. Sanitizes(g, ms)
    BY <1>6, <1>7, Zenon
  <1>9. g[0] = <<>> /\ \A n \in 1 .. Len(ms) : g[n] = Sanitized(g[n - 1], ms[n])
    <2>1. \A n \in 0 .. Len(ms) : g[n] = IF n = 0 THEN <<>> ELSE Sanitized(g[n - 1], ms[n])
      BY <1>8, Zenon DEF Sanitizes
    <2>2. g[0] = <<>>
      BY <1>2, <2>1
    <2>3. \A n \in 1 .. Len(ms) : n \in 0 .. Len(ms) /\ n # 0
      BY <1>2
    <2> QED
      BY <2>1, <2>2, <2>3
  <1>10. \A n \in 0 .. Len(ms) : g[n] \in Seq(Messages)
    <2> DEFINE T == {n \in 0 .. Len(ms) : g[n] \in Seq(Messages)}
    <2>1. 0 \in T
      <3>1. 0 \in 0 .. Len(ms)
        BY <1>2
      <3>2. g[0] \in Seq(Messages)
        BY <1>2, <1>9, Zenon
      <3> QED
        BY <3>1, <3>2
    <2>2. ASSUME NEW n \in 1 .. Len(ms), n - 1 \in T PROVE n \in T
      <3>1. g[n] = Sanitized(g[n - 1], ms[n]) /\ ms[n] \in Messages /\ g[n - 1] \in Seq(Messages)
        BY <1>2, <1>9, <2>2
      <3>2. g[n] \in Seq(Messages)
        BY <3>1, SanitizedType
      <3> QED
        BY <1>2, <3>2
    <2>3. \A n \in 0 .. Len(ms) : n \in T
      <3> HIDE DEF T
      <3> QED
        BY <1>2, <2>1, <2>2, UpTo
    <2> QED
      BY <2>3
  <1>11. g \in [0 .. Len(ms) -> Seq(Messages)]
    <2>1. g = [n \in 0 .. Len(ms) |-> g[n]]
      BY <1>8 DEF Sanitizes
    <2> QED
      BY <1>10, <2>1
  <1> QED
    BY <1>1, <1>7, <1>9, <1>11

-----------------------------------------------------------------------------
(* A repaired history is complete.                                         *)

LEMMA RepairedIsComplete ==
  ASSUME NEW ms \in Seq(Messages), Grounded(ms), CallsMet(ms, 0, TRUE),
         NEW f \in [0 .. Len(ms) -> Seq(Messages)], f[0] = <<>>,
         \A n \in 1 .. Len(ms) : Repairs(f[n - 1], f[n], ms, n)
  PROVE  Grounded(f[Len(ms)]) /\ CallsMet(f[Len(ms)], 0, FALSE)
  <1>1. Len(ms) \in Nat
    BY LenProperties
  <1> DEFINE T == {n \in 0 .. Len(ms) : RepairedUpTo(f[n], ms, n)}
  <1>2. 0 \in T
    <2>1. f[0] \in Seq(Messages) /\ Len(f[0]) = 0 /\ 0 \in 0 .. Len(ms)
      BY <1>1, EmptySeq
    <2>2. RepairedUpTo(f[0], ms, 0)
      BY <2>1 DEF RepairedUpTo, Grounded
    <2> QED
      BY <2>1, <2>2
  <1>3. ASSUME NEW n \in 1 .. Len(ms), n - 1 \in T PROVE n \in T
    <2>1. RepairedUpTo(f[n - 1], ms, n - 1) /\ n \in 0 .. Len(ms)
      BY <1>1, <1>3
    <2>2. CASE f[n] = Append(f[n - 1], ms[n]) /\ (ms[n].calls # <<>> => BlockAt(ms, n))
      BY <2>1, <2>2, CopyRepairs
    <2>3. CASE f[n] = f[n - 1] /\ ms[n].role # "tool" /\ (ms[n].calls # <<>> => NoResultAt(ms, n))
      BY <2>1, <2>3, DropRepairs
    <2>4. CASE /\ f[n - 1] # <<>> /\ Loose(Last(f[n - 1])) /\ Loose(ms[n])
               /\ f[n] = Append(Front(f[n - 1]), ms[n])
      BY <2>1, <2>4, ReplaceRepairs
    <2> QED
      BY <2>2, <2>3, <2>4 DEF Repairs
  <1>4. \A n \in 0 .. Len(ms) : n \in T
    <2> HIDE DEF T
    <2> QED
      BY <1>1, <1>2, <1>3, UpTo
  <1>5. RepairedUpTo(f[Len(ms)], ms, Len(ms))
    BY <1>1, <1>4
  <1>6. ASSUME NEW b \in 1 .. Len(ms), InBlock(ms, b, Len(ms)), Len(ms) - b < Len(ms[b].calls)
        PROVE  FALSE
    <2>1. Len(ms[b].calls) \in Nat
      BY ElementOfSeq, MessageType
    <2>2. Len(ms[b].calls) \in 1 .. Len(ms[b].calls)
      BY <1>1, <1>6, <2>1
    <2>3. b + Len(ms[b].calls) <= Len(ms)
      BY <1>6, <2>2 DEF InBlock, BlockAt
    <2> QED
      BY <1>1, <1>6, <2>1, <2>3
  <1> QED
    BY <1>5, <1>6 DEF RepairedUpTo, CallsMet

(* No id names calls of two messages.                                      *)
IdsDistinct(ms) ==
  \A i, j \in 1 .. Len(ms) : \A c \in ToSet(ms[i].calls) \cap ToSet(ms[j].calls) : i = j

LEMMA IdsAreIds == \A c \in Ids : c # NoId
  <1>1. \A S : \A c \in Nat \X Nat \X S : c # <<>>
    OBVIOUS
  <1> QED
    BY <1>1, Zenon DEF Ids, NoId

LEMMA CallsOf ==
  ASSUME NEW m \in Messages
  PROVE  /\ \A p \in 1 .. Len(m.calls) : m.calls[p] \in ToSet(m.calls) /\ m.calls[p] \in Ids
         /\ \A c \in ToSet(m.calls) : \E p \in 1 .. Len(m.calls) : c = m.calls[p]
  <1>1. m.calls \in Seq(Ids) /\ DOMAIN m.calls = 1 .. Len(m.calls)
    BY MessageType, LenProperties
  <1> QED
    BY <1>1, ElementOfSeq DEF ToSet

(* The filter drops the replies without results and no others: a reply     *)
(* whose id some result bears is followed by that result, because ids are  *)
(* distinct and results directly follow their calls.                       *)
LEMMA FilterCompletes ==
  ASSUME NEW ms \in Seq(Messages), Grounded(ms), CallsMet(ms, 0, TRUE), IdsDistinct(ms)
  PROVE  /\ Grounded(filterUnresolvedToolUses(ms))
         /\ CallsMet(filterUnresolvedToolUses(ms), 0, FALSE)
  <1>1. Len(ms) \in Nat /\ DOMAIN ms = 1 .. Len(ms) /\ \A i \in 1 .. Len(ms) : ms[i] \in Messages
    BY LenProperties, ElementOfSeq
  <1>2. PICK f \in [0 .. Len(ms) -> Seq(Messages)] :
           /\ f[0] = <<>> /\ f[Len(ms)] = filterUnresolvedToolUses(ms)
           /\ \A n \in 1 .. Len(ms) : f[n] = Filtered(f[n - 1], ms[n], ResultIds(ms))
    BY FilterValues
  <1>3. ASSUME NEW n \in 1 .. Len(ms), ms[n].calls # <<>>
        PROVE  /\ BlockAt(ms, n) => ~Unresolved(ms[n], ResultIds(ms))
               /\ ~BlockAt(ms, n) => NoResultAt(ms, n) /\ Unresolved(ms[n], ResultIds(ms))
    <2>1. ms[n] \in Messages /\ Len(ms[n].calls) \in Nat /\ Len(ms[n].calls) > 0
          /\ ms[n].role = "assistant"
      BY <1>1, <1>3, MessageType
    <2>2. ASSUME BlockAt(ms, n)
          PROVE  ~Unresolved(ms[n], ResultIds(ms))
      <3>1. 1 \in 1 .. Len(ms[n].calls)
        BY <2>1
      <3>2. n + 1 <= Len(ms) /\ ms[n + 1].role = "tool" /\ ms[n + 1].id = ms[n].calls[1]
        BY <2>2, <3>1 DEF BlockAt
      <3>3. ms[n].calls[1] \in ToSet(ms[n].calls) /\ ms[n].calls[1] # NoId
        BY <2>1, <3>1, CallsOf, IdsAreIds
      <3>4. n + 1 \in DOMAIN ms
        BY <1>1, <3>2
      <3>5. ms[n + 1].id \in ResultIds(ms)
        BY <3>2, <3>3, <3>4 DEF ResultIds
      <3> QED
        BY <3>2, <3>3, <3>5 DEF Unresolved
    <2>3. ASSUME ~BlockAt(ms, n)
          PROVE  NoResultAt(ms, n) /\ Unresolved(ms[n], ResultIds(ms))
      <3>1. NoResultAt(ms, n)
        BY <1>1, <1>3, <2>3 DEF CallsMet
      <3>2. ASSUME NEW c \in ToSet(ms[n].calls), c \in ResultIds(ms)
            PROVE  FALSE
        <4>1. PICK j \in 1 .. Len(ms) : ms[j].role = "tool" /\ ms[j].id = c
          BY <1>1, <3>2 DEF ResultIds
        <4>2. PICK i \in 1 .. j - 1 : ResultOf(ms, i, j)
          BY <4>1 DEF Grounded
        <4>3. i \in 1 .. Len(ms) /\ j - i \in 1 .. Len(ms[i].calls) /\ c = ms[i].calls[j - i]
          BY <1>1, <4>1, <4>2, MessageType DEF ResultOf
        <4>4. c \in ToSet(ms[i].calls)
          BY <1>1, <4>3, CallsOf
        <4>5. i = n
          BY <3>2, <4>3, <4>4 DEF IdsDistinct
        <4>6. ms[n + 1].role = "tool" /\ n < Len(ms)
          BY <1>1, <4>2, <4>5 DEF ResultOf
        <4> QED
          BY <3>1, <4>6 DEF NoResultAt
      <3> QED
        BY <1>3, <2>1, <3>1, <3>2 DEF Unresolved
    <2> QED
      BY <2>2, <2>3
  <1>4. ASSUME NEW n \in 1 .. Len(ms)
        PROVE  Repairs(f[n - 1], f[n], ms, n)
    <2>1. CASE Unresolved(ms[n], ResultIds(ms))
      <3>1. f[n] = f[n - 1] /\ ms[n].role = "assistant" /\ ms[n].calls # <<>>
        BY <1>2, <2>1 DEF Filtered, Unresolved
      <3> QED
        BY <1>3, <2>1, <3>1 DEF Repairs
    <2>2. CASE ~Unresolved(ms[n], ResultIds(ms))
      <3>1. f[n] = Append(f[n - 1], ms[n])
        BY <1>2, <2>2 DEF Filtered
      <3> QED
        BY <1>3, <2>2, <3>1 DEF Repairs
    <2> QED
      BY <2>1, <2>2
  <1>5. Grounded(f[Len(ms)]) /\ CallsMet(f[Len(ms)], 0, FALSE)
    BY <1>2, <1>4, RepairedIsComplete
  <1> QED
    BY <1>2, <1>5

(* The sanitizer touches no calls and no results.                          *)
LEMMA SanitizerCompletes ==
  ASSUME NEW ms \in Seq(Messages), Grounded(ms), CallsMet(ms, 0, FALSE)
  PROVE  /\ Grounded(SanitizeMessages(ms))
         /\ CallsMet(SanitizeMessages(ms), 0, FALSE)
  <1>1. Len(ms) \in Nat /\ \A i \in 1 .. Len(ms) : ms[i] \in Messages
    BY LenProperties, ElementOfSeq
  <1>2. PICK f \in [0 .. Len(ms) -> Seq(Messages)] :
           /\ f[0] = <<>> /\ f[Len(ms)] = SanitizeMessages(ms)
           /\ \A n \in 1 .. Len(ms) : f[n] = Sanitized(f[n - 1], ms[n])
    BY SanitizerValues
  <1>3. ASSUME NEW n \in 1 .. Len(ms)
        PROVE  Repairs(f[n - 1], f[n], ms, n)
    <2>1. ms[n] \in Messages /\ f[n - 1] \in Seq(Messages) /\ f[n] = Sanitized(f[n - 1], ms[n])
      <3>1. n - 1 \in 0 .. Len(ms)
        BY <1>1
      <3> QED
        BY <1>1, <1>2, <3>1
    <2>2. ms[n].calls # <<>> => BlockAt(ms, n)
      BY <1>1 DEF CallsMet
    <2>3. CASE Plain(ms[n]) /\ ~ms[n].text
      <3>1. f[n] = f[n - 1] /\ ms[n].role = "assistant" /\ ms[n].calls = <<>>
        BY <2>1, <2>3 DEF Sanitized, Plain
      <3> QED
        BY <3>1 DEF Repairs
    <2>4. CASE /\ ~(Plain(ms[n]) /\ ~ms[n].text)
               /\ f[n - 1] # <<>> /\ Collapses(Last(f[n - 1]), ms[n])
      <3>1. f[n] = Append(Front(f[n - 1]), ms[n])
        BY <2>1, <2>4 DEF Sanitized
      <3>2. Last(f[n - 1]) \in Messages
        BY <2>1, <2>4, EmptySeq, ElementOfSeq DEF Last
      <3>3. Loose(Last(f[n - 1])) /\ Loose(ms[n])
        BY <2>1, <2>4, <3>2, MessageType DEF Collapses, Plain, Loose
      <3> QED
        BY <2>4, <3>1, <3>3 DEF Repairs
    <2>5. CASE /\ ~(Plain(ms[n]) /\ ~ms[n].text)
               /\ ~(f[n - 1] # <<>> /\ Collapses(Last(f[n - 1]), ms[n]))
      <3>1. f[n] = Append(f[n - 1], ms[n])
        BY <2>1, <2>5 DEF Sanitized
      <3> QED
        BY <2>2, <3>1 DEF Repairs
    <2> QED
      BY <2>3, <2>4, <2>5
  <1>4. CallsMet(ms, 0, TRUE)
    BY DEF CallsMet
  <1>5. Grounded(f[Len(ms)]) /\ CallsMet(f[Len(ms)], 0, FALSE)
    BY <1>2, <1>3, <1>4, RepairedIsComplete
  <1> QED
    BY <1>2, <1>5

(* A part of a history that does not begin with a result, and does not end *)
(* before one.                                                             *)
LEMMA PartRepairable ==
  ASSUME NEW ms \in Seq(Messages), NEW d \in Nat, NEW n \in Nat, d + n <= Len(ms),
         NEW part \in Seq(Messages), Len(part) = n, \A i \in 1 .. n : part[i] = ms[d + i],
         d = 0 \/ (n > 0 => part[1].role # "tool"),
         d + n < Len(ms) => ms[d + n + 1].role # "tool",
         Grounded(ms), CallsMet(ms, 0, TRUE), IdsDistinct(ms)
  PROVE  Grounded(part) /\ CallsMet(part, 0, TRUE) /\ IdsDistinct(part)
  <1>1. Len(ms) \in Nat
    BY LenProperties
  <1>2. \A i \in 1 .. n : d + i \in 1 .. Len(ms)
    BY <1>1
  <1>3. Grounded(part)
    <2> SUFFICES ASSUME NEW j \in 1 .. n, part[j].role = "tool"
                 PROVE  \E i \in 1 .. j - 1 : ResultOf(part, i, j)
      BY DEF Grounded
    <2>1. d + j \in 1 .. Len(ms) /\ ms[d + j].role = "tool" /\ part[j] = ms[d + j]
      BY <1>2
    <2>2. PICK h \in 1 .. d + j - 1 : ResultOf(ms, h, d + j)
      BY <2>1 DEF Grounded
    <2>3. h > d
      <3> SUFFICES ASSUME h <= d PROVE FALSE
        OBVIOUS
      <3>1. d + 1 \in h + 1 .. d + j /\ 1 \in 1 .. n /\ d # 0
        BY <1>1
      <3>2. ms[d + 1].role = "tool" /\ part[1] = ms[d + 1]
        BY <2>2, <3>1 DEF ResultOf
      <3> QED
        BY <3>1, <3>2
    <2>4. h - d \in 1 .. j - 1 /\ d + (h - d) = h /\ h - d \in 1 .. n /\ j - (h - d) = d + j - h
      BY <2>3
    <2>5. part[h - d] = ms[h]
      BY <2>4
    <2>6. ASSUME NEW k \in h - d + 1 .. j PROVE part[k].role = "tool"
      <3>1. k \in 1 .. n /\ d + k \in h + 1 .. d + j
        BY <2>4
      <3> QED
        BY <2>2, <3>1 DEF ResultOf
    <2>7. ResultOf(part, h - d, j)
      BY <2>1, <2>2, <2>4, <2>5, <2>6 DEF ResultOf
    <2> QED
      BY <2>4, <2>7
  <1>4. ASSUME NEW i \in 1 .. n, part[i].calls # <<>>
        PROVE  BlockAt(part, i) \/ NoResultAt(part, i)
    <2>1. d + i \in 1 .. Len(ms) /\ part[i] = ms[d + i] /\ Len(part[i].calls) \in Nat
      BY <1>2, ElementOfSeq, MessageType
    <2>2. BlockAt(ms, d + i) \/ NoResultAt(ms, d + i)
      BY <1>4, <2>1 DEF CallsMet
    <2>3. CASE BlockAt(ms, d + i)
      <3>1. \A p \in 1 .. Len(part[i].calls) :
              /\ d + i + p <= Len(ms)
              /\ ms[d + i + p].role = "tool" /\ ms[d + i + p].id = part[i].calls[p]
        BY <2>1, <2>3 DEF BlockAt
      <3>2. i + Len(part[i].calls) <= n
        <4> SUFFICES ASSUME i + Len(part[i].calls) > n PROVE FALSE
          BY <2>1
        <4>1. n + 1 - i \in 1 .. Len(part[i].calls) /\ d + i + (n + 1 - i) = d + n + 1
          BY <2>1
        <4>2. d + n + 1 <= Len(ms) /\ ms[d + n + 1].role = "tool"
          BY <3>1, <4>1
        <4> QED
          BY <1>1, <4>2
      <3>3. ASSUME NEW p \in 1 .. Len(part[i].calls)
            PROVE  i + p <= n /\ part[i + p].role = "tool" /\ part[i + p].id = part[i].calls[p]
        <4>1. i + p \in 1 .. n /\ d + (i + p) = d + i + p
          BY <2>1, <3>2
        <4>2. part[i + p] = ms[d + i + p]
          BY <4>1
        <4> QED
          BY <3>1, <4>1, <4>2
      <3> QED
        BY <3>3 DEF BlockAt
    <2>4. CASE NoResultAt(ms, d + i)
      <3> SUFFICES ASSUME i < n PROVE part[i + 1].role # "tool"
        BY DEF NoResultAt
      <3>1. i + 1 \in 1 .. n /\ d + i < Len(ms) /\ d + (i + 1) = d + i + 1
        BY <1>1
      <3> QED
        BY <2>4, <3>1 DEF NoResultAt
    <2> QED
      BY <2>2, <2>3, <2>4
  <1>5. IdsDistinct(part)
    <2> SUFFICES ASSUME NEW i \in 1 .. n, NEW j \in 1 .. n,
                        NEW c \in ToSet(part[i].calls) \cap ToSet(part[j].calls)
                 PROVE  i = j
      BY DEF IdsDistinct
    <2>1. d + i \in 1 .. Len(ms) /\ d + j \in 1 .. Len(ms) /\ part[i] = ms[d + i] /\ part[j] = ms[d + j]
      BY <1>2
    <2>2. d + i = d + j
      BY <2>1 DEF IdsDistinct
    <2> QED
      BY <2>2
  <1> QED
    BY <1>3, <1>4, <1>5 DEF CallsMet

-----------------------------------------------------------------------------
(* The messages the loop makes, and the ones it adds to a conversation     *)
(* without calls or results.                                               *)

LEMMA UserMessageType == UserMessage \in Messages /\ Loose(UserMessage)
  <1>1. <<>> \in Seq(Ids)
    BY EmptySeq
  <1> QED
    BY <1>1 DEF UserMessage, Message, Messages, Loose

LEMMA AssistantMessageType ==
  ASSUME NEW text \in BOOLEAN, NEW calls \in Seq(Ids), NEW rid \in BOOLEAN
  PROVE  /\ AssistantMessage(text, calls, rid) \in Messages
         /\ AssistantMessage(text, calls, rid).role = "assistant"
         /\ AssistantMessage(text, calls, rid).calls = calls
         /\ AssistantMessage(text, calls, rid).rid = rid
  BY DEF AssistantMessage, Message, Messages

LEMMA ToolMessageType ==
  ASSUME NEW c \in Ids
  PROVE  /\ ToolMessage(c) \in Messages
         /\ ToolMessage(c).role = "tool" /\ ToolMessage(c).id = c
         /\ ToolMessage(c).calls = <<>> /\ ToolMessage(c).rid = FALSE
  <1>1. <<>> \in Seq(Ids)
    BY EmptySeq
  <1> QED
    BY <1>1 DEF ToolMessage, Message, Messages

(* new is old with up to two messages that make no calls and answer none,  *)
(* and that carry no response id.                                          *)
Notes1(old) == {Append(old, m) : m \in {x \in Messages : Loose(x) /\ ~x.rid}}
Noted(old, new) == new = old \/ new \in Notes1(old) \/ \E s \in Notes1(old) : new \in Notes1(s)

LEMMA NotedOnce ==
  ASSUME NEW old \in Seq(Messages), NEW new \in Notes1(old)
  PROVE  /\ new \in Seq(Messages) /\ Len(new) = Len(old) + 1
         /\ \A i \in 1 .. Len(old) : new[i] = old[i]
         /\ Loose(new[Len(new)]) /\ ~new[Len(new)].rid
         /\ Grounded(old) => Grounded(new)
         /\ \A orphans \in BOOLEAN : \A b : CallsMet(old, b, orphans) => CallsMet(new, b, orphans)
         /\ IdsDistinct(old) => IdsDistinct(new)
  <1>1. PICK m \in Messages : Loose(m) /\ ~m.rid /\ new = Append(old, m)
    BY DEF Notes1
  <1>2. /\ new \in Seq(Messages) /\ Len(new) = Len(old) + 1 /\ Len(old) \in Nat
        /\ \A i \in 1 .. Len(old) : new[i] = old[i]
        /\ new[Len(new)] = m
    BY <1>1, Appended
  <1>3. Grounded(old) => Grounded(new)
    BY <1>1, GroundedStays DEF Loose
  <1>4. \A orphans \in BOOLEAN : \A b : CallsMet(old, b, orphans) => CallsMet(new, b, orphans)
    BY <1>1, LooseAppended
  <1>5. ASSUME IdsDistinct(old) PROVE IdsDistinct(new)
    <2> SUFFICES ASSUME NEW i \in 1 .. Len(new), NEW j \in 1 .. Len(new),
                        NEW c \in ToSet(new[i].calls) \cap ToSet(new[j].calls)
                 PROVE  i = j
      BY DEF IdsDistinct
    <2>1. ToSet(m.calls) = {}
      BY <1>1 DEF Loose, ToSet
    <2>2. i \in 1 .. Len(old) /\ j \in 1 .. Len(old)
      BY <1>2, <2>1
    <2> QED
      BY <1>2, <1>5, <2>2 DEF IdsDistinct
  <1> QED
    BY <1>1, <1>2, <1>3, <1>4, <1>5

LEMMA NotedKeeps ==
  ASSUME NEW old \in Seq(Messages), NEW new, Noted(old, new)
  PROVE  /\ new \in Seq(Messages) /\ Len(new) >= Len(old)
         /\ \A i \in 1 .. Len(old) : new[i] = old[i]
         /\ \A i \in 1 .. Len(new) : i \notin 1 .. Len(old) => Loose(new[i]) /\ ~new[i].rid
         /\ Grounded(old) => Grounded(new)
         /\ \A orphans \in BOOLEAN : \A b : CallsMet(old, b, orphans) => CallsMet(new, b, orphans)
         /\ IdsDistinct(old) => IdsDistinct(new)
  <1>1. Len(old) \in Nat
    BY LenProperties
  <1>2. CASE new = old
    BY <1>1, <1>2
  <1>3. CASE new \in Notes1(old)
    <2>1. /\ new \in Seq(Messages) /\ Len(new) = Len(old) + 1
          /\ \A i \in 1 .. Len(old) : new[i] = old[i]
          /\ Loose(new[Len(new)]) /\ ~new[Len(new)].rid
      BY <1>3, NotedOnce
    <2>2. \A i \in 1 .. Len(new) : i \notin 1 .. Len(old) => i = Len(new)
      BY <1>1, <2>1
    <2> QED
      BY <1>1, <1>3, <2>1, <2>2, NotedOnce
  <1>4. CASE \E s \in Notes1(old) : new \in Notes1(s)
    <2>1. PICK s \in Notes1(old) : new \in Notes1(s)
      BY <1>4
    <2>2. /\ s \in Seq(Messages) /\ Len(s) = Len(old) + 1
          /\ \A i \in 1 .. Len(old) : s[i] = old[i]
          /\ Loose(s[Len(s)]) /\ ~s[Len(s)].rid
      BY NotedOnce
    <2>3. /\ new \in Seq(Messages) /\ Len(new) = Len(s) + 1
          /\ \A i \in 1 .. Len(s) : new[i] = s[i]
          /\ Loose(new[Len(new)]) /\ ~new[Len(new)].rid
      BY <2>1, <2>2, NotedOnce
    <2>4. \A i \in 1 .. Len(new) : i \notin 1 .. Len(old) =>
            i = Len(new) \/ (i = Len(s) /\ new[i] = s[i])
      BY <1>1, <2>2, <2>3
    <2>5. \A i \in 1 .. Len(new) : i \notin 1 .. Len(old) => Loose(new[i]) /\ ~new[i].rid
      BY <2>2, <2>3, <2>4
    <2>6. \A i \in 1 .. Len(old) : new[i] = old[i]
      BY <1>1, <2>2, <2>3
    <2>7. Grounded(old) => Grounded(new)
      BY <2>1, <2>2, NotedOnce
    <2>8. \A orphans \in BOOLEAN : \A b : CallsMet(old, b, orphans) => CallsMet(new, b, orphans)
      BY <2>1, <2>2, NotedOnce
    <2>9. IdsDistinct(old) => IdsDistinct(new)
      BY <2>1, <2>2, NotedOnce
    <2> QED
      BY <1>1, <2>2, <2>3, <2>5, <2>6, <2>7, <2>8, <2>9
  <1> QED
    BY <1>2, <1>3, <1>4 DEF Noted

(* The ways the loop adds notes.                                           *)
LEMMA OneNote ==
  ASSUME NEW old \in Seq(Messages), NEW m \in Messages, Loose(m), ~m.rid
  PROVE  Noted(old, Append(old, m)) /\ Append(old, m) \in Notes1(old)
  BY DEF Noted, Notes1

LEMMA TimesNotes ==
  ASSUME NEW old \in Seq(Messages), NEW n \in 0 .. 1
  PROVE  old \o Times(n, UserMessage) = IF n = 0 THEN old ELSE Append(old, UserMessage)
  <1>1. CASE n = 0
    <2>1. Times(n, UserMessage) = <<>>
      BY <1>1 DEF Times
    <2> QED
      BY <1>1, <2>1, ConcatEmptySeq
  <1>2. CASE n = 1
    <2>1. Times(n, UserMessage) = <<UserMessage>>
      BY <1>2 DEF Times
    <2>2. Append(old, UserMessage) = old \o <<UserMessage>>
      BY UserMessageType, AppendIsConcat
    <2>3. n # 0
      BY <1>2
    <2> QED
      BY <2>1, <2>2, <2>3, Zenon
  <1> QED
    BY <1>1, <1>2

LEMMA UserNotes ==
  ASSUME NEW old \in Seq(Messages), NEW n \in 0 .. 1
  PROVE  Noted(old, old \o Times(n, UserMessage))
  <1>1. ~UserMessage.rid
    BY DEF UserMessage, Message
  <1> QED
    BY <1>1, TimesNotes, UserMessageType, OneNote DEF Noted

LEMMA TwoNotes ==
  ASSUME NEW old \in Seq(Messages), NEW n \in 0 .. 1, NEW k \in 0 .. 1
  PROVE  Noted(old, old \o Times(n, UserMessage) \o Times(k, UserMessage))
  <1> DEFINE s == old \o Times(n, UserMessage)
  <1>1. ~UserMessage.rid /\ UserMessage \in Messages /\ Loose(UserMessage)
    BY UserMessageType DEF UserMessage, Message
  <1>2. s = old \/ s \in Notes1(old)
    BY <1>1, TimesNotes, OneNote
  <1>3. s \in Seq(Messages)
    BY <1>2, NotedOnce
  <1> HIDE DEF s
  <1>4. s \o Times(k, UserMessage) = s \/ s \o Times(k, UserMessage) \in Notes1(s)
    BY <1>1, <1>3, TimesNotes, OneNote
  <1>5. Noted(old, s \o Times(k, UserMessage))
    BY <1>2, <1>4 DEF Noted
  <1> QED
    BY <1>5 DEF s

-----------------------------------------------------------------------------
(* What a run starts from.                                                 *)

LEMMA WindowIsEnd ==
  ASSUME rows \in Seq(Messages)
  PROVE  /\ Window \in Seq(Messages)
         /\ \E d \in Nat : /\ d <= Len(rows) /\ Len(Window) = Len(rows) - d
                           /\ \A i \in 1 .. Len(Window) : Window[i] = rows[d + i]
                           /\ d > 0 => Len(rows) > MaxHistoryMessages /\ Len(Window) > 0
                           /\ rows # <<>> => Len(Window) > 0
  <1> DEFINE d == IF Len(rows) > MaxHistoryMessages THEN Len(rows) - MaxHistoryMessages ELSE 0
             l == Len(rows)
  <1>1. l \in Nat /\ MaxHistoryMessages \in Nat \ {0} /\ (rows # <<>> => l > 0)
    BY EmptySeq, LenProperties, ConversationAssumptions
  <1>2. d \in Nat /\ d <= l /\ (d > 0 => l > MaxHistoryMessages /\ l - d > 0) /\ (rows # <<>> => l - d > 0)
    BY <1>1
  <1>3. Window = SubSeq(rows, d + 1, l)
    BY <1>1 DEF Window, HistoryWindow
  <1>4. \A i \in d + 1 .. l : rows[i] \in Messages
    BY <1>1, <1>2, ElementOfSeq
  <1> HIDE DEF d, l
  <1>5. /\ SubSeq(rows, d + 1, l) \in Seq(Messages)
        /\ Len(SubSeq(rows, d + 1, l)) = IF d + 1 <= l THEN l - (d + 1) + 1 ELSE 0
        /\ \A i \in 1 .. l - (d + 1) + 1 : SubSeq(rows, d + 1, l)[i] = rows[d + 1 + i - 1]
    BY <1>1, <1>2, <1>4, SubSeqProperties
  <1>6. Len(Window) = l - d
    BY <1>1, <1>2, <1>3, <1>5
  <1>7. ASSUME NEW i \in 1 .. Len(Window) PROVE Window[i] = rows[d + i]
    <2>1. i \in 1 .. l - (d + 1) + 1 /\ d + 1 + i - 1 = d + i
      BY <1>1, <1>2, <1>6
    <2> QED
      BY <1>3, <1>5, <2>1
  <1>8. Len(Window) = Len(rows) - d /\ d <= Len(rows) /\ (d > 0 => Len(rows) > MaxHistoryMessages)
    BY <1>2, <1>6 DEF l
  <1> QED
    BY <1>2, <1>3, <1>5, <1>6, <1>7, <1>8

Loaded == IF stored THEN Front(Window) ELSE Window

LEMMA LoadedType ==
  ASSUME rows \in Seq(Messages), stored \in BOOLEAN, stored => rows # <<>>
  PROVE  Loaded \in Seq(Messages)
  <1>1. Window \in Seq(Messages) /\ (stored => Window # <<>>)
    BY WindowIsEnd, EmptySeq
  <1> QED
    BY <1>1, FrontOf DEF Loaded

LEMMA HistoryType ==
  ASSUME rows \in Seq(Messages), stored \in BOOLEAN, stored => rows # <<>>
  PROVE  History \in Seq(Messages)
  <1>1. History = SanitizeMessages(filterUnresolvedToolUses(Loaded))
    BY DEF History, Loaded
  <1>2. \A ms \in Seq(Messages) : filterUnresolvedToolUses(ms) \in Seq(Messages)
    <2> TAKE ms \in Seq(Messages)
    <2>1. PICK f \in [0 .. Len(ms) -> Seq(Messages)] : f[Len(ms)] = filterUnresolvedToolUses(ms)
      BY FilterValues
    <2>2. Len(ms) \in 0 .. Len(ms)
      BY LenProperties
    <2> QED
      BY <2>1, <2>2
  <1>3. \A ms \in Seq(Messages) : SanitizeMessages(ms) \in Seq(Messages)
    <2> TAKE ms \in Seq(Messages)
    <2>1. PICK f \in [0 .. Len(ms) -> Seq(Messages)] : f[Len(ms)] = SanitizeMessages(ms)
      BY SanitizerValues
    <2>2. Len(ms) \in 0 .. Len(ms)
      BY LenProperties
    <2> QED
      BY <2>1, <2>2
  <1> QED
    BY <1>1, <1>2, <1>3, LoadedType

(* Unless the window begins in the middle of a turn, the repaired history  *)
(* is complete.                                                            *)
LEMMA HistoryCompletes ==
  ASSUME rows \in Seq(Messages), stored \in BOOLEAN,
         stored => rows # <<>> /\ Loose(rows[Len(rows)]),
         Grounded(rows), CallsMet(rows, 0, TRUE), IdsDistinct(rows),
         ~(Len(rows) > MaxHistoryMessages /\ Window[1].role = "tool")
  PROVE  Grounded(History) /\ CallsMet(History, 0, FALSE)
  <1>1. PICK d \in Nat : /\ d <= Len(rows) /\ Len(Window) = Len(rows) - d
                         /\ \A i \in 1 .. Len(Window) : Window[i] = rows[d + i]
                         /\ d > 0 => Len(rows) > MaxHistoryMessages /\ Len(Window) > 0
                         /\ rows # <<>> => Len(Window) > 0
    BY WindowIsEnd
  <1>2. Window \in Seq(Messages) /\ Loaded \in Seq(Messages) /\ Len(rows) \in Nat /\ Len(Window) \in Nat
    BY WindowIsEnd, LoadedType, LenProperties
  <1>3. d = 0 \/ (Len(Window) > 0 => Window[1].role # "tool")
    BY <1>1
  <1>4. /\ Len(Loaded) \in Nat /\ d + Len(Loaded) <= Len(rows) /\ Len(Loaded) <= Len(Window)
        /\ \A i \in 1 .. Len(Loaded) : Loaded[i] = rows[d + i] /\ Loaded[i] = Window[i]
        /\ d + Len(Loaded) < Len(rows) => rows[d + Len(Loaded) + 1].role # "tool"
    <2>1. CASE ~stored
      <3>1. Loaded = Window
        BY <2>1 DEF Loaded
      <3> QED
        BY <1>1, <1>2, <3>1
    <2>2. CASE stored
      <3>1. Loaded = Front(Window) /\ Window # <<>>
        BY <1>1, <1>2, <2>2, EmptySeq DEF Loaded
      <3>2. Len(Loaded) = Len(Window) - 1 /\ \A i \in 1 .. Len(Window) - 1 : Loaded[i] = Window[i]
        BY <1>2, <3>1, FrontOf
      <3>3. Len(Loaded) \in Nat /\ d + Len(Loaded) + 1 = Len(rows)
        BY <1>1, <1>2, <3>1, <3>2, EmptySeq
      <3>4. rows[Len(rows)].role # "tool"
        BY <2>2 DEF Loose
      <3> QED
        BY <1>1, <1>2, <3>2, <3>3, <3>4
    <2> QED
      BY <2>1, <2>2
  <1>5. d = 0 \/ (Len(Loaded) > 0 => Loaded[1].role # "tool")
    BY <1>2, <1>3, <1>4
  <1>6. Grounded(Loaded) /\ CallsMet(Loaded, 0, TRUE) /\ IdsDistinct(Loaded)
    <2>1. PICK n \in Nat : n = Len(Loaded)
      BY <1>4
    <2>2. d + n <= Len(rows) /\ \A i \in 1 .. n : Loaded[i] = rows[d + i]
      BY <1>4, <2>1
    <2>3. d + n < Len(rows) => rows[d + n + 1].role # "tool"
      BY <1>4, <2>1
    <2>4. d = 0 \/ (n > 0 => Loaded[1].role # "tool")
      BY <1>5, <2>1
    <2> QED
      BY <1>2, <2>1, <2>2, <2>3, <2>4, PartRepairable
  <1>7. PICK ms \in Seq(Messages) : ms = filterUnresolvedToolUses(Loaded)
    <2>1. PICK f \in [0 .. Len(Loaded) -> Seq(Messages)] : f[Len(Loaded)] = filterUnresolvedToolUses(Loaded)
      BY <1>2, FilterValues
    <2>2. Len(Loaded) \in 0 .. Len(Loaded)
      BY <1>4
    <2> QED
      BY <2>1, <2>2
  <1>8. Grounded(ms) /\ CallsMet(ms, 0, FALSE)
    BY <1>2, <1>6, <1>7, FilterCompletes
  <1>9. History = SanitizeMessages(ms)
    BY <1>7 DEF History, Loaded
  <1> QED
    BY <1>8, <1>9, SanitizerCompletes

(* A compaction keeps or drops messages and calls, and adds none.          *)
LEMMA CompactedFrom ==
  ASSUME NEW ms \in Seq(Messages), NEW stage \in Stages
  PROVE  /\ ReactiveCompact(stage, ms) \in Seq(Messages)
         /\ (\A i \in 1 .. Len(ms) : Loose(ms[i])) =>
              \A i \in 1 .. Len(ReactiveCompact(stage, ms)) : Loose(ReactiveCompact(stage, ms)[i])
  <1>1. PICK chat : chat = aiMessagesToChatMessages(ms)
    OBVIOUS
  <1>2. DOMAIN ms = 1 .. Len(ms) /\ Len(ms) \in Nat /\ \A i \in 1 .. Len(ms) : ms[i] \in Messages
    BY LenProperties, ElementOfSeq
  <1>3. ASSUME NEW m \in Messages PROVE [m EXCEPT !.id = NoId] \in Messages
    BY DEF Messages
  <1>4. chat = [i \in 1 .. Len(ms) |-> [ms[i] EXCEPT !.id = NoId]]
    BY <1>1, <1>2 DEF aiMessagesToChatMessages
  <1>5. /\ chat \in Seq(Messages) /\ Len(chat) = Len(ms) /\ DOMAIN chat = 1 .. Len(ms)
        /\ \A i \in 1 .. Len(ms) : chat[i] = [ms[i] EXCEPT !.id = NoId] /\ chat[i] \in Messages
    <2>1. \A i \in 1 .. Len(ms) : chat[i] = [ms[i] EXCEPT !.id = NoId] /\ chat[i] \in Messages
      BY <1>2, <1>3, <1>4
    <2>2. DOMAIN chat = 1 .. Len(ms) /\ chat \in [1 .. Len(ms) -> Messages]
      <3>1. chat = [i \in 1 .. Len(ms) |-> chat[i]]
        BY <1>4
      <3> QED
        BY <2>1, <3>1
    <2> QED
      BY <1>2, <2>1, <2>2
  <1>6. (\A i \in 1 .. Len(ms) : Loose(ms[i])) => \A i \in 1 .. Len(ms) : Loose(chat[i])
    <2> SUFFICES ASSUME NEW i \in 1 .. Len(ms), Loose(ms[i]) PROVE Loose(chat[i])
      OBVIOUS
    <2>1. chat[i] = [ms[i] EXCEPT !.id = NoId] /\ ms[i] \in Messages
      BY <1>2, <1>5
    <2>2. chat[i].role = ms[i].role /\ chat[i].calls = ms[i].calls
      BY <2>1 DEF Messages
    <2> QED
      BY <2>2 DEF Loose
  <1>7. CASE stage = "history_snip"
    <2> DEFINE d == IF Len(ms) > 2 * TailSize THEN Len(ms) - 2 * TailSize ELSE 0
               l == Len(ms)
    <2>1. d \in Nat /\ d <= l
      BY <1>2, ConversationAssumptions
    <2>2. ReactiveCompact(stage, ms) = SubSeq(chat, d + 1, l)
      <3>1. (IF Len(chat) > 2 * TailSize THEN Len(chat) - 2 * TailSize + 1 ELSE 1) = d + 1
        BY <1>2, <1>5, ConversationAssumptions
      <3>2. snipOldHistory(chat) = SubSeq(chat, d + 1, l)
        BY <1>5, <3>1 DEF snipOldHistory
      <3> QED
        BY <1>1, <1>7, <3>2 DEF ReactiveCompact
    <2>3. \A i \in d + 1 .. l : i \in 1 .. Len(ms)
      BY <2>1
    <2> HIDE DEF d
    <2>4. /\ SubSeq(chat, d + 1, l) \in Seq(Messages)
          /\ Len(SubSeq(chat, d + 1, l)) = IF d + 1 <= l THEN l - (d + 1) + 1 ELSE 0
          /\ \A i \in 1 .. l - (d + 1) + 1 : SubSeq(chat, d + 1, l)[i] = chat[d + 1 + i - 1]
      BY <1>2, <1>5, <2>1, <2>3, SubSeqProperties
    <2>5. ASSUME NEW i \in 1 .. Len(SubSeq(chat, d + 1, l))
          PROVE  i \in 1 .. l - (d + 1) + 1 /\ d + 1 + i - 1 \in 1 .. Len(ms)
      BY <1>2, <2>1, <2>4
    <2> QED
      BY <1>6, <2>2, <2>4, <2>5
  <1>8. CASE stage = "microcompact"
    <2>1. ReactiveCompact(stage, ms) = microcompact(chat)
      BY <1>1, <1>8 DEF ReactiveCompact
    <2>2. PICK new : new = microcompact(chat)
      OBVIOUS
    <2>3. new = [i \in 1 .. Len(ms) |-> IF i + TailSize <= Len(ms) THEN [chat[i] EXCEPT !.calls = <<>>]
                                        ELSE chat[i]]
      BY <1>5, <2>2 DEF microcompact
    <2>4. \A i \in 1 .. Len(ms) : [chat[i] EXCEPT !.calls = <<>>] \in Messages
      <3>1. <<>> \in Seq(Ids)
        BY EmptySeq
      <3> QED
        BY <1>5, <3>1 DEF Messages
    <2>5. \A i \in 1 .. Len(ms) : new[i] \in {chat[i], [chat[i] EXCEPT !.calls = <<>>]} /\ new[i] \in Messages
      BY <1>5, <2>3, <2>4
    <2>6. new \in Seq(Messages) /\ Len(new) = Len(ms)
      <3>1. new = [i \in 1 .. Len(ms) |-> new[i]]
        BY <2>3
      <3>2. new \in [1 .. Len(ms) -> Messages]
        BY <2>5, <3>1
      <3> QED
        BY <1>2, <3>2
    <2>7. ASSUME NEW i \in 1 .. Len(ms), Loose(chat[i]) PROVE Loose(new[i])
      <3>1. chat[i] \in Messages /\ chat[i].role # "tool" /\ chat[i].calls = <<>>
        BY <1>5, <2>7 DEF Loose
      <3>2. [chat[i] EXCEPT !.calls = <<>>].role = chat[i].role /\ [chat[i] EXCEPT !.calls = <<>>].calls = <<>>
        BY <3>1 DEF Messages
      <3> QED
        BY <2>5, <3>1, <3>2 DEF Loose
    <2> QED
      BY <1>6, <2>1, <2>2, <2>6, <2>7
  <1>9. CASE stage # "history_snip" /\ stage # "microcompact"
    <2>1. ReactiveCompact(stage, ms) = chat
      BY <1>1, <1>9 DEF ReactiveCompact
    <2> QED
      BY <1>5, <1>6, <2>1
  <1> QED
    BY <1>7, <1>8, <1>9

-----------------------------------------------------------------------------
(* The types of what the loop keeps, and how its steps change rows and     *)
(* messages.                                                               *)

Answering == pc \in {"results", "nudge"}
Open == Answering \/ pc \in {"tools", "length", "stop"}
Results == IF Answering THEN next - 1 ELSE 0

ConversationTypes == rows \in Seq(Messages) /\ msgs \in Seq(Messages)
ReplyTypes ==
  /\ reply \in [finish : Finishes, text : BOOLEAN, names : Seq(STRING),
               calls : Seq(Ids), rid : BOOLEAN]
  /\ Len(reply.calls) = Len(reply.names)
  /\ next \in Nat \ {0} /\ (Answering => next <= Len(reply.calls))
ScalarTypes ==
  /\ pc \in Steps /\ stored \in BOOLEAN /\ chained \in BOOLEAN
  /\ sent \in Nat /\ covered \in Nat /\ completes \in Nat /\ replies \in Nat
  /\ completed \in BOOLEAN /\ crashed \in BOOLEAN
(* A message stored by the service is the last row when the loop starts.   *)
StoredMessage == pc = "setup" /\ stored => rows # <<>> /\ Loose(rows[Len(rows)])
LoopTypes == ConversationTypes /\ ReplyTypes /\ ScalarTypes /\ StoredMessage

LEMMA SlashNotes ==
  ASSUME NEW old \in Seq(Messages), NEW n \in 0 .. 2
  PROVE  Noted(old, old \o SubSeq(SlashRows, 1, n))
  <1>1. PICK u \in Messages : u = UserMessage /\ Loose(u) /\ ~u.rid
    BY UserMessageType DEF UserMessage, Message
  <1>2. PICK a \in Messages : a = AssistantMessage(TRUE, <<>>, FALSE) /\ Loose(a) /\ ~a.rid
    BY AssistantMessageType, EmptySeq DEF Loose
  <1>3. SlashRows = <<u, a>>
    BY <1>1, <1>2, Zenon DEF SlashRows
  <1>4. PICK both \in Seq(Messages) : both = <<u, a>> /\ Len(both) = 2 /\ both[1] = u /\ both[2] = a
    <2>1. <<u, a>> \in Seq(Messages) /\ Len(<<u, a>>) = 2 /\ <<u, a>>[1] = u /\ <<u, a>>[2] = a
      OBVIOUS
    <2> QED
      BY <2>1, Zenon
  <1>5. PICK one \in Seq(Messages) : one = <<u>> /\ Len(one) = 1 /\ one[1] = u
    <2>1. <<u>> \in Seq(Messages) /\ Len(<<u>>) = 1 /\ <<u>>[1] = u
      OBVIOUS
    <2> QED
      BY <2>1, Zenon
  <1>6. Append(one, a) = both
    <2>1. /\ Append(one, a) \in Seq(Messages) /\ Len(Append(one, a)) = 2
          /\ Append(one, a)[1] = u /\ Append(one, a)[2] = a
      BY <1>5, AppendProperties
    <2>2. \A i \in 1 .. 2 : Append(one, a)[i] = both[i]
      BY <1>4, <2>1
    <2> QED
      BY <1>4, <2>1, <2>2, SeqEqual
  <1>7. CASE n = 0
    <2>1. SubSeq(SlashRows, 1, n) = <<>>
      BY <1>7, SubSeqEmpty
    <2> QED
      BY <2>1, ConcatEmptySeq DEF Noted
  <1>8. CASE n = 1
    <2>1. SubSeq(both, 1, 1) = one
      <3>1. \A i \in 1 .. 1 : both[i] \in Messages
        BY <1>4
      <3>2. /\ SubSeq(both, 1, 1) \in Seq(Messages) /\ Len(SubSeq(both, 1, 1)) = 1
            /\ SubSeq(both, 1, 1)[1] = both[1]
        BY <3>1, SubSeqProperties
      <3>3. \A i \in 1 .. 1 : SubSeq(both, 1, 1)[i] = one[i]
        BY <1>4, <1>5, <3>2
      <3> QED
        BY <1>5, <3>2, <3>3, SeqEqual
    <2>2. old \o one = Append(old, u)
      BY <1>5, AppendIsConcat
    <2>3. SubSeq(SlashRows, 1, n) = one
      BY <1>3, <1>4, <1>8, <2>1
    <2> QED
      BY <1>1, <2>2, <2>3, OneNote
  <1>9. CASE n = 2
    <2>1. SubSeq(both, 1, 2) = both
      BY <1>4, SubSeqFull
    <2>2. SubSeq(SlashRows, 1, n) = both
      BY <1>3, <1>4, <1>9, <2>1
    <2>3. Append(old, u) = old \o one /\ Append(old, u) \in Seq(Messages)
      BY <1>5, AppendIsConcat, AppendProperties
    <2>4. PICK last \in Seq(Messages) : last = <<a>>
      <3>1. <<a>> \in Seq(Messages)
        OBVIOUS
      <3> QED
        BY <3>1, Zenon
    <2>5. Append(Append(old, u), a) = (old \o one) \o last
      BY <2>3, <2>4, AppendIsConcat
    <2>6. both = one \o last
      BY <1>6, <2>4, AppendIsConcat
    <2>7. old \o both = Append(Append(old, u), a)
      BY <2>5, <2>6, ConcatAssociative
    <2>8. Append(old, u) \in Notes1(old) /\ Append(Append(old, u), a) \in Notes1(Append(old, u))
      BY <1>1, <1>2, <2>3, OneNote
    <2> QED
      BY <2>2, <2>7, <2>8 DEF Noted
  <1> QED
    BY <1>7, <1>8, <1>9

(* Rows are only added: notes, the loop's reply, or a result.              *)
LEMMA RowsGrow ==
  ASSUME LoopTypes, [Next]_vars
  PROVE  Noted(rows, rows') \/ StoreReply(TRUE) \/ StoreResult(TRUE)
  <1>1. rows \in Seq(Messages)
    BY DEF LoopTypes, ConversationTypes
  <1>2. PICK u \in Messages : u = UserMessage /\ Loose(u) /\ ~u.rid
    BY UserMessageType DEF UserMessage, Message
  <1>3. PICK a \in Messages : a = AssistantMessage(TRUE, <<>>, FALSE) /\ Loose(a) /\ ~a.rid
    BY AssistantMessageType, EmptySeq DEF Loose
  <1>4. rows' = rows => Noted(rows, rows')
    BY DEF Noted
  <1>5. ASSUME NEW pre \in BOOLEAN, StartRun(pre) PROVE Noted(rows, rows')
    <2>1. rows' = rows \/ rows' = Append(rows, u)
      BY <1>2, <1>5 DEF StartRun
    <2> QED
      BY <1>1, <1>2, <1>4, <2>1, OneNote
  <1>6. ASSUME NEW n \in 0 .. 2, SlashCommand(n) PROVE Noted(rows, rows')
    BY <1>1, <1>6, SlashNotes DEF SlashCommand
  <1>7. ASSUME NEW n \in 0 .. 1, NEW noted \in BOOLEAN, NEW ok \in BOOLEAN, SessionStart(n, noted, ok)
        PROVE  Noted(rows, rows')
    <2>1. rows' = rows \o Times(IF noted THEN 1 ELSE 0, UserMessage)
                       \o Times(IF ok /\ ~stored THEN 1 ELSE 0, UserMessage)
      BY <1>7 DEF SessionStart
    <2> QED
      BY <1>1, <2>1, TwoNotes
  <1>8. ASSUME NEW ok \in BOOLEAN, StoreReply(ok)
        PROVE  Noted(rows, rows') \/ StoreReply(TRUE)
    <2>1. CASE ok = TRUE
      BY <1>8, <2>1
    <2>2. CASE ok = FALSE
      BY <1>4, <1>8, <2>2 DEF StoreReply, ReplyNotStored, convVars
    <2> QED
      BY <2>1, <2>2
  <1>9. ASSUME NEW ok \in BOOLEAN, StoreResult(ok)
        PROVE  Noted(rows, rows') \/ StoreResult(TRUE)
    <2>1. CASE ok = TRUE
      BY <1>9, <2>1
    <2>2. CASE ok = FALSE
      BY <1>4, <1>9, <2>2 DEF StoreResult, convVars
    <2> QED
      BY <2>1, <2>2
  <1>10. ASSUME NEW n \in 0 .. 1, NEW noted \in BOOLEAN, NEW stage \in Stages, EndToolTurn(n, noted, stage)
         PROVE  Noted(rows, rows')
    <2>1. PICK i \in 0 .. 1 : rows' = rows \o Times(i, UserMessage)
      BY <1>10 DEF EndToolTurn
    <2> QED
      BY <1>1, <2>1, UserNotes
  <1>11. ASSUME NEW n \in 0 .. 1, NEW noted \in BOOLEAN, CompleteRun(n, noted)
         PROVE  Noted(rows, rows')
    <2>1. PICK i \in 0 .. 1 : rows' = rows \o Times(i, UserMessage)
      BY <1>11 DEF CompleteRun
    <2> QED
      BY <1>1, <2>1, UserNotes
  <1>12. ASSUME NEW ok \in BOOLEAN, Finalize(ok) PROVE Noted(rows, rows')
    <2>1. rows' = rows \/ rows' = Append(rows, a)
      BY <1>3, <1>12 DEF Finalize
    <2> QED
      BY <1>1, <1>3, <1>4, <2>1, OneNote
  <1>13. ASSUME \/ SetupFails \/ (\E n \in 0 .. 1 : LoopTop(n))
                \/ ContextOverflow \/ (\E stage \in Stages : PromptTooLong(stage))
                \/ InvalidResponseId \/ CallFails
         PROVE  rows' = rows
    BY <1>13 DEF SetupFails, LoopTop, ContextOverflow, PromptTooLong, InvalidResponseId, CallFails, convVars
  <1>14. ASSUME NEW finish \in Finishes, NEW text \in BOOLEAN, NEW textual \in BOOLEAN,
                NEW fallback \in BOOLEAN, NEW rid \in BOOLEAN, NEW names \in Batches,
                Reply(finish, text, names, textual, fallback, rid)
         PROVE  rows' = rows
    BY <1>14 DEF Reply
  <1>15. ASSUME \/ BudgetExceeded \/ RepeatedBatch
                \/ (\E failed, escalated \in BOOLEAN : ExecuteBatch(failed, escalated))
                \/ LengthRetry \/ LengthGivesUp \/ BudgetNudge \/ EmptyBatchPanics
                \/ ContextEnds \/ Crash \/ Done \/ UNCHANGED vars
         PROVE  rows' = rows
    BY <1>15 DEF BudgetExceeded, RepeatedBatch, ExecuteBatch, LengthRetry, LengthGivesUp, BudgetNudge,
                 EmptyBatchPanics, Dies, ContextEnds, Crash, Done, vars, convVars
  <1>16. ASSUME NEW noted \in BOOLEAN, RunEndHooks(noted) PROVE Noted(rows, rows')
    <2>1. rows' = rows \/ rows' = Append(rows, u)
      BY <1>2, <1>16 DEF RunEndHooks
    <2> QED
      BY <1>1, <1>2, <1>4, <2>1, OneNote
  <1> QED
    BY <1>4, <1>5, <1>6, <1>7, <1>8, <1>9, <1>10, <1>11, <1>12, <1>13, <1>14, <1>15, <1>16
       DEF Next, Step

(* A run starts from the repaired history.                                 *)
LEMMA SessionNotes ==
  ASSUME LoopTypes, NEW n \in 0 .. 1, NEW noted \in BOOLEAN, NEW ok \in BOOLEAN,
         SessionStart(n, noted, ok)
  PROVE  History \in Seq(Messages) /\ Noted(History, msgs')
  <1>1. pc = "setup" /\ msgs' = History \o Times(n, UserMessage) \o <<UserMessage>>
    BY DEF SessionStart
  <1>2. History \in Seq(Messages)
    BY <1>1, HistoryType DEF LoopTypes, ConversationTypes, ScalarTypes, StoredMessage
  <1>3. <<UserMessage>> = Times(1, UserMessage)
    BY DEF Times
  <1> QED
    BY <1>1, <1>2, <1>3, TwoNotes

(* The messages of a run change the same way, except where a run starts or *)
(* ends and where they are compacted.                                      *)
CompactedTurn ==
  /\ pc = "turnEnd" /\ "compaction" \in causes' /\ sent' = 0
  /\ \E s \in Seq(Messages), stage \in Stages : msgs' = ReactiveCompact(stage, s)

(* What becomes of the messages in a step.                                 *)
LEMMA MessagesChange ==
  ASSUME LoopTypes, [Next]_vars
  PROVE  \/ Noted(msgs, msgs') \/ StoreReply(TRUE) \/ StoreResult(TRUE)
         \/ Noted(History, msgs') /\ (\E n \in 0 .. 1, noted, ok \in BOOLEAN : SessionStart(n, noted, ok))
         \/ (\E stage \in Stages : PromptTooLong(stage))
         \/ CompactedTurn
         \/ pc' = "idle" /\ msgs' = <<>> /\ sent' = 0
  <1>1. msgs \in Seq(Messages) /\ rows \in Seq(Messages)
    BY DEF LoopTypes, ConversationTypes
  <1>2. PICK u \in Messages : u = UserMessage /\ Loose(u) /\ ~u.rid
    BY UserMessageType DEF UserMessage, Message
  <1>3. msgs' = msgs => Noted(msgs, msgs')
    BY DEF Noted
  <1>4. msgs' = Append(msgs, UserMessage) => Noted(msgs, msgs')
    BY <1>1, <1>2, OneNote
  <1>5. ASSUME NEW n \in 0 .. 1, NEW noted \in BOOLEAN, NEW ok \in BOOLEAN, SessionStart(n, noted, ok)
        PROVE  Noted(History, msgs')
    BY <1>5, SessionNotes
  <1>6. ASSUME NEW n \in 0 .. 1, LoopTop(n) PROVE Noted(msgs, msgs')
    BY <1>1, <1>6, UserNotes DEF LoopTop
  <1>7. ASSUME NEW finish \in Finishes, NEW text \in BOOLEAN, NEW textual \in BOOLEAN,
               NEW fallback \in BOOLEAN, NEW rid \in BOOLEAN, NEW names \in Batches,
               Reply(finish, text, names, textual, fallback, rid)
        PROVE  Noted(msgs, msgs')
    <2>1. msgs' = msgs \/ msgs' = Append(msgs, UserMessage)
      BY <1>7 DEF Reply
    <2> QED
      BY <1>3, <1>4, <2>1
  <1>8. ASSUME NEW ok \in BOOLEAN, StoreReply(ok)
        PROVE  Noted(msgs, msgs') \/ StoreReply(TRUE)
    <2>1. CASE ok = TRUE
      BY <1>8, <2>1
    <2>2. CASE ok = FALSE
      BY <1>3, <1>8, <2>2 DEF StoreReply, ReplyNotStored, convVars
    <2> QED
      BY <2>1, <2>2
  <1>9. ASSUME NEW ok \in BOOLEAN, StoreResult(ok)
        PROVE  Noted(msgs, msgs') \/ StoreResult(TRUE)
    <2>1. CASE ok = TRUE
      BY <1>9, <2>1
    <2>2. CASE ok = FALSE
      BY <1>3, <1>9, <2>2 DEF StoreResult, convVars
    <2> QED
      BY <2>1, <2>2
  <1>10. ASSUME NEW n \in 0 .. 1, NEW noted \in BOOLEAN, NEW stage \in Stages, EndToolTurn(n, noted, stage)
         PROVE  Noted(msgs, msgs') \/ CompactedTurn
    <2>1. Noted(msgs, msgs \o Times(n, UserMessage))
      BY <1>1, UserNotes
    <2>2. CASE stage = "none"
      BY <1>10, <2>1, <2>2 DEF EndToolTurn
    <2>3. CASE stage # "none"
      <3>1. msgs \o Times(n, UserMessage) \in Seq(Messages)
        BY <1>1, <2>1, NotedKeeps
      <3>2. /\ pc = "turnEnd" /\ "compaction" \in causes' /\ sent' = 0
            /\ msgs' = ReactiveCompact(stage, msgs \o Times(n, UserMessage))
        BY <1>10, <2>3 DEF EndToolTurn, ResetChain
      <3> QED
        BY <3>1, <3>2 DEF CompactedTurn
    <2> QED
      BY <2>2, <2>3
  <1>11. ASSUME NEW n \in 0 .. 1, NEW noted \in BOOLEAN, CompleteRun(n, noted)
         PROVE  Noted(msgs, msgs')
    BY <1>1, <1>11, UserNotes DEF CompleteRun
  <1>12. ASSUME (\E ok \in BOOLEAN : Finalize(ok)) \/ EmptyBatchPanics \/ Crash
         PROVE  pc' = "idle" /\ msgs' = <<>> /\ sent' = 0
    BY <1>12 DEF Finalize, EmptyBatchPanics, Crash, Dies, Return
  <1>13. ASSUME \/ (\E pre \in BOOLEAN : StartRun(pre)) \/ (\E n \in 0 .. 2 : SlashCommand(n))
                \/ SetupFails \/ ContextOverflow \/ InvalidResponseId \/ CallFails \/ BudgetExceeded
                \/ RepeatedBatch \/ (\E failed, escalated \in BOOLEAN : ExecuteBatch(failed, escalated))
                \/ LengthRetry \/ LengthGivesUp \/ (\E noted \in BOOLEAN : RunEndHooks(noted))
                \/ ContextEnds \/ Done \/ UNCHANGED vars
         PROVE  msgs' = msgs
    BY <1>13 DEF
                 RunEndHooks, StartRun, SlashCommand, SetupFails, ContextOverflow, InvalidResponseId, CallFails,
                 BudgetExceeded, RepeatedBatch, ExecuteBatch, LengthRetry, LengthGivesUp, ContextEnds,
                 Done, vars, convVars
  <1>14. BudgetNudge => Noted(msgs, msgs')
    BY <1>4 DEF BudgetNudge
  <1> QED
    BY <1>3, <1>5, <1>6, <1>7, <1>8, <1>9, <1>10, <1>11, <1>12, <1>13, <1>14 DEF Next, Step

(* Ids that a reply makes are typed, and those the model sends are numbered*)
(* by the reply.                                                           *)
LEMMA CallIdsType ==
  ASSUME NEW names \in Batches, NEW textual \in BOOLEAN, replies \in Nat
  PROVE  /\ names \in Seq(STRING)
         /\ CallIds(names, textual) \in Seq(Ids) /\ Len(CallIds(names, textual)) = Len(names)
         /\ ~textual => \A c \in ToSet(CallIds(names, textual)) : c[1] = replies + 1
  <1>1. names \in Seq(STRING) /\ DOMAIN names = 1 .. Len(names) /\ Len(names) \in Nat
        /\ \A i \in 1 .. Len(names) : names[i] \in STRING
    <2>1. names \in Seq(STRING)
      BY AgentLoopAssumptions
    <2> QED
      BY <2>1, LenProperties, ElementOfSeq
  <1> DEFINE id(i) == IF textual THEN <<0, i, names[i]>> ELSE <<replies + 1, i, "">>
  <1>2. \A i \in 1 .. Len(names) : id(i) \in Ids
    <2> TAKE i \in 1 .. Len(names)
    <2>1. i \in Nat /\ names[i] \in STRING
      BY <1>1
    <2>2. replies + 1 \in Nat /\ 0 \in Nat
      OBVIOUS
    <2>3. <<0, i, names[i]>> \in Ids /\ <<replies + 1, i, "">> \in Ids
      BY <2>1, <2>2, Zenon DEF Ids
    <2> QED
      BY <2>3
  <1>3. PICK ids : ids = [i \in 1 .. Len(names) |-> id(i)]
    OBVIOUS
  <1>4. CallIds(names, textual) = ids
    BY <1>1, <1>3 DEF CallIds
  <1>5. ids \in Seq(Ids) /\ Len(ids) = Len(names) /\ DOMAIN ids = 1 .. Len(names)
    <2> HIDE DEF id
    <2>1. ids \in [1 .. Len(names) -> Ids]
      BY <1>2, <1>3
    <2> QED
      BY <1>1, <2>1
  <1>6. ~textual => \A i \in 1 .. Len(names) : ids[i][1] = replies + 1
    BY <1>3
  <1> QED
    BY <1>1, <1>4, <1>5, <1>6 DEF ToSet

-----------------------------------------------------------------------------
(* The types are kept.                                                     *)

(* What the loop stores is a message: its reply, and the next result.      *)
LEMMA LoopMessages ==
  ASSUME LoopTypes
  PROVE  /\ \E m \in Messages : /\ m = AssistantMessage(reply.text, reply.calls, reply.rid)
                                /\ m.role = "assistant" /\ m.calls = reply.calls
         /\ Answering => \E m \in Messages : /\ m = ToolMessage(reply.calls[next])
                                             /\ m.role = "tool" /\ m.id = reply.calls[next]
                                             /\ m.calls = <<>> /\ m.rid = FALSE
         /\ reply.calls \in Seq(Ids) /\ Len(reply.calls) \in Nat
         /\ Results \in Nat /\ (Answering => Results + 1 = next /\ Results < Len(reply.calls))
  <1>1. reply.text \in BOOLEAN /\ reply.calls \in Seq(Ids) /\ Len(reply.calls) \in Nat
    BY LenProperties DEF LoopTypes, ReplyTypes
  <1>2. reply.rid \in BOOLEAN
    BY DEF LoopTypes, ReplyTypes
  <1>3. ASSUME Answering PROVE reply.calls[next] \in Ids
    <2>1. next \in 1 .. Len(reply.calls)
      BY <1>1, <1>3 DEF LoopTypes, ReplyTypes
    <2> QED
      BY <1>1, <2>1, ElementOfSeq
  <1>4. Results \in Nat /\ (Answering => Results + 1 = next /\ Results < Len(reply.calls))
    BY <1>1 DEF LoopTypes, ReplyTypes, Results
  <1>5. \E m \in Messages : /\ m = AssistantMessage(reply.text, reply.calls, reply.rid)
                            /\ m.role = "assistant" /\ m.calls = reply.calls
    BY <1>1, <1>2, AssistantMessageType
  <1>6. Answering => \E m \in Messages : /\ m = ToolMessage(reply.calls[next])
                                         /\ m.role = "tool" /\ m.id = reply.calls[next]
                                         /\ m.calls = <<>> /\ m.rid = FALSE
    BY <1>3, ToolMessageType
  <1> QED
    BY <1>1, <1>4, <1>5, <1>6

LEMMA ConversationTypesKept ==
  ASSUME LoopTypes, [Next]_vars
  PROVE  ConversationTypes'
  <1>1. rows \in Seq(Messages) /\ msgs \in Seq(Messages)
    BY DEF LoopTypes, ConversationTypes
  <1>2. ASSUME StoreReply(TRUE) PROVE rows' \in Seq(Messages) /\ msgs' \in Seq(Messages)
    <2>1. PICK m \in Messages : m = AssistantMessage(reply.text, reply.calls, reply.rid)
      BY LoopMessages
    <2>2. rows' = Append(rows, m) /\ msgs' = Append(msgs, m)
      BY <1>2, <2>1 DEF StoreReply
    <2> QED
      BY <1>1, <2>2, Appended
  <1>3. ASSUME StoreResult(TRUE) PROVE rows' \in Seq(Messages) /\ msgs' \in Seq(Messages)
    <2>1. Answering
      BY <1>3 DEF StoreResult, Answering
    <2>2. PICK m \in Messages : m = ToolMessage(reply.calls[next])
      BY <2>1, LoopMessages
    <2>3. rows' = Append(rows, m) /\ msgs' = Append(msgs, m)
      BY <1>3, <2>2 DEF StoreResult
    <2> QED
      BY <1>1, <2>3, Appended
  <1>4. rows' \in Seq(Messages)
    BY <1>1, <1>2, <1>3, RowsGrow, NotedKeeps
  <1>5. ASSUME \E n \in 0 .. 1, noted, ok \in BOOLEAN : SessionStart(n, noted, ok), Noted(History, msgs')
        PROVE  msgs' \in Seq(Messages)
    <2>1. pc = "setup"
      BY <1>5 DEF SessionStart
    <2>2. stored \in BOOLEAN /\ (stored => rows # <<>>)
      BY <2>1 DEF LoopTypes, ScalarTypes, StoredMessage
    <2>3. History \in Seq(Messages)
      BY <1>1, <2>2, HistoryType
    <2> QED
      BY <1>5, <2>3, NotedKeeps
  <1>6. ASSUME NEW stage \in Stages, PromptTooLong(stage) PROVE msgs' \in Seq(Messages)
    <2>1. msgs' = ReactiveCompact(stage, msgs)
      BY <1>6 DEF PromptTooLong, Compacted
    <2>2. ReactiveCompact(stage, msgs) \in Seq(Messages)
      BY <1>1, CompactedFrom
    <2> QED
      BY <2>1, <2>2
  <1>7. ASSUME CompactedTurn PROVE msgs' \in Seq(Messages)
    <2>1. PICK s \in Seq(Messages), stage \in Stages : msgs' = ReactiveCompact(stage, s)
      BY <1>7 DEF CompactedTurn
    <2>2. ReactiveCompact(stage, s) \in Seq(Messages)
      BY CompactedFrom
    <2> QED
      BY <2>1, <2>2
  <1>8. msgs' = <<>> => msgs' \in Seq(Messages)
    BY EmptySeq
  <1>9. msgs' \in Seq(Messages)
    BY <1>1, <1>2, <1>3, <1>5, <1>6, <1>7, <1>8, MessagesChange, NotedKeeps
  <1> QED
    BY <1>4, <1>9 DEF ConversationTypes

LEMMA ReplyTypesKept ==
  ASSUME LoopTypes, [Next]_vars
  PROVE  ReplyTypes'
  <1> USE DEF LoopTypes, ReplyTypes
  <1>1. Len(reply.calls) \in Nat /\ (reply.names # <<>> => Len(reply.names) > 0)
    <2>1. reply.calls \in Seq(Ids) /\ reply.names \in Seq(STRING)
      OBVIOUS
    <2> QED
      BY <2>1, LenProperties, EmptySeq
  <1>2. ASSUME UNCHANGED <<reply, next>>, Answering' => Answering PROVE ReplyTypes'
    BY <1>2
  <1>3. ASSUME NEW finish \in Finishes, NEW text \in BOOLEAN, NEW textual \in BOOLEAN,
               NEW fallback \in BOOLEAN, NEW rid \in BOOLEAN, NEW names \in Batches,
               Reply(finish, text, names, textual, fallback, rid)
        PROVE  ReplyTypes'
    <2>1. names \in Seq(STRING) /\ CallIds(names, textual) \in Seq(Ids)
          /\ Len(CallIds(names, textual)) = Len(names)
      BY CallIdsType DEF ScalarTypes
    <2>2. next' = next /\ ~Answering'
      BY <1>3 DEF Reply, Answering
    <2>3. \/ reply' = reply
          \/ \E t \in BOOLEAN : reply' = [finish |-> finish, text |-> t, names |-> names,
                                          calls |-> CallIds(names, textual), rid |-> rid]
      BY <1>3 DEF Reply
    <2> QED
      BY <2>1, <2>2, <2>3
  <1>4. ASSUME RepeatedBatch PROVE ReplyTypes'
    BY <1>1, <1>4 DEF RepeatedBatch
  <1>5. ASSUME NEW failed \in BOOLEAN, NEW escalated \in BOOLEAN, ExecuteBatch(failed, escalated)
        PROVE  ReplyTypes'
    BY <1>1, <1>5 DEF ExecuteBatch, emitError, Answering
  <1>6. ASSUME NEW ok \in BOOLEAN, StoreResult(ok) PROVE ReplyTypes'
    BY <1>1, <1>6 DEF StoreResult, emitError, Answering
  <1>7. ASSUME reply' = NoReply, next' = 1, pc' = "idle" PROVE ReplyTypes'
    <2>1. <<>> \in Seq(STRING) /\ <<>> \in Seq(Ids) /\ "stop" \in Finishes
      BY EmptySeq DEF Finishes
    <2> QED
      BY <1>7, <2>1 DEF NoReply, Answering
  <1>8. ASSUME (\E ok \in BOOLEAN : Finalize(ok)) \/ EmptyBatchPanics \/ Crash PROVE ReplyTypes'
    BY <1>7, <1>8 DEF Finalize, EmptyBatchPanics, Crash, Dies, Return
  <1>9. ASSUME \/ (\E pre \in BOOLEAN : StartRun(pre)) \/ (\E n \in 0 .. 2 : SlashCommand(n))
               \/ SetupFails \/ (\E n \in 0 .. 1, noted, ok \in BOOLEAN : SessionStart(n, noted, ok))
               \/ (\E n \in 0 .. 1 : LoopTop(n)) \/ ContextOverflow
               \/ (\E stage \in Stages : PromptTooLong(stage)) \/ InvalidResponseId \/ CallFails
        PROVE  UNCHANGED <<reply, next>> /\ (Answering' => Answering)
    BY <1>9 DEF StartRun, SlashCommand, SetupFails, SessionStart, LoopTop, ContextOverflow, PromptTooLong,
                InvalidResponseId, CallFails, localEmitError, emitError, Answering
  <1>10. ASSUME \/ BudgetExceeded \/ (\E ok \in BOOLEAN : StoreReply(ok))
                \/ (\E n \in 0 .. 1, noted \in BOOLEAN, stage \in Stages : EndToolTurn(n, noted, stage))
                \/ LengthRetry \/ LengthGivesUp \/ BudgetNudge
                \/ (\E n \in 0 .. 1, noted \in BOOLEAN : CompleteRun(n, noted))
                \/ (\E noted \in BOOLEAN : RunEndHooks(noted))
                \/ ContextEnds \/ Done \/ UNCHANGED vars
         PROVE  UNCHANGED <<reply, next>> /\ (Answering' => Answering)
    BY <1>10 DEF BudgetExceeded, StoreReply, ReplyNotStored, EndToolTurn, LengthRetry, LengthGivesUp,
                 BudgetNudge, CompleteRun, RunEndHooks, ContextEnds, Done, vars, localEmitError, emitError, Answering
  <1> QED
    BY <1>2, <1>3, <1>4, <1>5, <1>6, <1>8, <1>9, <1>10 DEF Next, Step

LEMMA ScalarTypesKept ==
  ASSUME LoopTypes, [Next]_vars
  PROVE  ScalarTypes'
  <1>1. Len(msgs) \in Nat
    BY LenProperties DEF LoopTypes, ConversationTypes
  <1> SUFFICES ASSUME ScalarTypes PROVE ScalarTypes'
    BY DEF LoopTypes
  <1> USE DEF ScalarTypes
  <1>2. ASSUME \/ (\E pre \in BOOLEAN : StartRun(pre)) \/ (\E n \in 0 .. 2 : SlashCommand(n))
               \/ SetupFails
        PROVE  ScalarTypes'
    <2>1. replies' = replies /\ UNCHANGED chainVars
      BY <1>2 DEF StartRun, SlashCommand, SetupFails
    <2>2. stored' \in BOOLEAN /\ crashed' \in BOOLEAN
      BY <1>2 DEF StartRun, SlashCommand, SetupFails
    <2>3. completes' \in Nat /\ completed' \in BOOLEAN
      <3>1. \/ completes' = 0 /\ completed' = completed
            \/ completes' = completes + 1 /\ completed' = TRUE
            \/ UNCHANGED <<completed, completes>>
        BY <1>2 DEF StartRun, SlashCommand, SetupFails, AnnounceEnd
      <3>2. completes' \in Nat
        BY <3>1
      <3>3. completed' \in BOOLEAN
        BY <3>1, Zenon
      <3> QED
        BY <3>2, <3>3
    <2>4. pc' \in Steps
      BY <1>2 DEF StartRun, SlashCommand, SetupFails, Steps, localEmitError
    <2> QED
      BY <2>1, <2>2, <2>3, <2>4 DEF chainVars
  <1>3. ASSUME NEW n \in 0 .. 1, NEW noted \in BOOLEAN, NEW ok \in BOOLEAN, SessionStart(n, noted, ok)
        PROVE  ScalarTypes'
    <2>1. chained' \in BOOLEAN
      BY <1>3 DEF SessionStart
    <2> QED
      BY <1>3, <2>1 DEF SessionStart, Steps, localEmitError
  <1>4. ASSUME \/ (\E n \in 0 .. 1 : LoopTop(n)) \/ ContextOverflow
               \/ (\E stage \in Stages : PromptTooLong(stage)) \/ InvalidResponseId \/ CallFails
        PROVE  ScalarTypes'
    <2>1. UNCHANGED <<stored, completes, completed, crashed, replies>>
      BY <1>4 DEF LoopTop, ContextOverflow, PromptTooLong, InvalidResponseId, CallFails, endVars, countVars
    <2>2. UNCHANGED chainVars \/ ResetChain
      BY <1>4 DEF LoopTop, ContextOverflow, PromptTooLong, Compacted, InvalidResponseId, CallFails
    <2>3. chained' \in BOOLEAN /\ sent' \in Nat /\ covered' \in Nat
      <3>1. CASE ResetChain
        BY <3>1 DEF ResetChain
      <3>2. CASE UNCHANGED chainVars
        <4>1. chained' = chained /\ sent' = sent /\ covered' = covered
          BY <3>2 DEF chainVars
        <4> QED
          BY <4>1, Zenon
      <3> QED
        BY <2>2, <3>1, <3>2
    <2>4. pc' \in Steps
      BY <1>4 DEF LoopTop, ContextOverflow, PromptTooLong, InvalidResponseId, CallFails, Steps,
                  localEmitError, emitError
    <2> QED
      BY <2>1, <2>3, <2>4
  <1>5. ASSUME NEW finish \in Finishes, NEW text \in BOOLEAN, NEW textual \in BOOLEAN,
               NEW fallback \in BOOLEAN, NEW rid \in BOOLEAN, NEW names \in Batches,
               Reply(finish, text, names, textual, fallback, rid)
        PROVE  ScalarTypes'
    <2>2. /\ pc' \in {"loop", "reply"} /\ replies' = replies + 1
          /\ UNCHANGED <<stored, completes, completed, crashed>>
      BY <1>5 DEF Reply, endVars
    <2>3. chained' \in BOOLEAN /\ sent' \in Nat /\ covered' \in Nat
      <3>1. CASE fallback
        <4>1. ResetChain
          BY <1>5, <3>1, Zenon DEF Reply
        <4> QED
          BY <4>1 DEF ResetChain
      <3>2. CASE ~fallback
        <4>1. ChainReply(rid)
          BY <1>5, <3>2, Zenon DEF Reply
        <4>2. sent' \in Nat /\ covered' \in Nat
          BY <1>1, <4>1 DEF ChainReply
        <4>3. chained' = (chained \/ rid)
          BY <4>1, Zenon DEF ChainReply
        <4>4. (chained \/ rid) \in BOOLEAN
          BY Zenon
        <4> QED
          BY <4>2, <4>3, <4>4
      <3> QED
        BY <3>1, <3>2
    <2> QED
      BY <2>2, <2>3 DEF Steps
  <1>6. ASSUME \/ BudgetExceeded \/ (\E ok \in BOOLEAN : StoreReply(ok)) \/ RepeatedBatch
               \/ (\E failed, escalated \in BOOLEAN : ExecuteBatch(failed, escalated))
               \/ (\E ok \in BOOLEAN : StoreResult(ok))
        PROVE  ScalarTypes'
    BY <1>6 DEF BudgetExceeded, StoreReply, ReplyNotStored, RepeatedBatch, ExecuteBatch, StoreResult,
                Steps, localEmitError, emitError, chainVars, endVars, countVars
  <1>7. ASSUME \/ (\E n \in 0 .. 1, noted \in BOOLEAN, stage \in Stages : EndToolTurn(n, noted, stage))
               \/ LengthRetry \/ LengthGivesUp \/ BudgetNudge
               \/ (\E n \in 0 .. 1, noted \in BOOLEAN : CompleteRun(n, noted))
               \/ (\E noted \in BOOLEAN : RunEndHooks(noted))
        PROVE  ScalarTypes'
    <2>1. UNCHANGED <<stored, crashed, replies>>
      BY <1>7 DEF EndToolTurn, LengthRetry, LengthGivesUp, BudgetNudge, CompleteRun,
                  RunEndHooks, endVars, countVars
    <2>2. UNCHANGED <<completes, completed>> \/ (completes' = completes + 1 /\ completed' = TRUE)
      BY <1>7 DEF EndToolTurn, LengthRetry, LengthGivesUp, BudgetNudge, CompleteRun,
                  RunEndHooks, AnnounceEnd, endVars
    <2>3. UNCHANGED chainVars \/ ResetChain
      BY <1>7 DEF EndToolTurn, LengthRetry, LengthGivesUp, BudgetNudge, CompleteRun, RunEndHooks
    <2>4. chained' \in BOOLEAN /\ sent' \in Nat /\ covered' \in Nat
      <3>1. CASE ResetChain
        BY <3>1 DEF ResetChain
      <3>2. CASE UNCHANGED chainVars
        <4>1. chained' = chained /\ sent' = sent /\ covered' = covered
          BY <3>2 DEF chainVars
        <4> QED
          BY <4>1, Zenon
      <3> QED
        BY <2>3, <3>1, <3>2
    <2>5. pc' \in Steps
      BY <1>7 DEF EndToolTurn, LengthRetry, LengthGivesUp, BudgetNudge, CompleteRun,
                  RunEndHooks, Steps, emitError
    <2>6. completes' \in Nat
      BY <2>2
    <2>7. completed' \in BOOLEAN /\ stored' \in BOOLEAN /\ crashed' \in BOOLEAN /\ replies' \in Nat
      BY <2>1, <2>2, Zenon
    <2> QED
      BY <2>4, <2>5, <2>6, <2>7
  <1>8. ASSUME (\E ok \in BOOLEAN : Finalize(ok)) \/ EmptyBatchPanics \/ Crash PROVE ScalarTypes'
    <2>1. Return /\ replies' = replies /\ crashed' \in BOOLEAN
      BY <1>8 DEF Finalize, EmptyBatchPanics, Crash, Dies
    <2>2. completes' \in Nat
      <3>1. completes' = completes \/ completes' = completes + (IF completed THEN 0 ELSE 1)
        BY <1>8 DEF Finalize, EmptyBatchPanics, Crash, Dies
      <3> QED
        BY <3>1
    <2> QED
      BY <2>1, <2>2 DEF Return, Steps
  <1>9. ASSUME ContextEnds \/ Done \/ UNCHANGED vars PROVE ScalarTypes'
    BY <1>9 DEF ContextEnds, Done, vars, chainVars, endVars, countVars
  <1> QED
    BY <1>2, <1>3, <1>4, <1>5, <1>6, <1>7, <1>8, <1>9 DEF Next, Step

LEMMA StoredMessageKept ==
  ASSUME LoopTypes, [Next]_vars
  PROVE  StoredMessage'
  <1>1. rows \in Seq(Messages)
    BY DEF LoopTypes, ConversationTypes
  <1>2. ASSUME NEW pre \in BOOLEAN, StartRun(pre) PROVE StoredMessage'
    <2>1. PICK u \in Messages : u = UserMessage /\ Loose(u)
      BY UserMessageType
    <2>2. CASE ~pre
      <3>1. stored' = FALSE
        BY <1>2, <2>2 DEF StartRun
      <3> QED
        BY <3>1 DEF StoredMessage
    <2>3. CASE pre
      <3>1. rows' = Append(rows, u)
        BY <1>2, <2>1, <2>3, Zenon DEF StartRun
      <3>2. Len(rows') = Len(rows) + 1 /\ Len(rows) \in Nat /\ rows'[Len(rows) + 1] = u /\ rows' \in Seq(Messages)
        BY <1>1, <3>1, Appended
      <3>3. rows' # <<>> /\ rows'[Len(rows')] = u
        BY <3>2, EmptySeq
      <3> QED
        BY <2>1, <3>3 DEF StoredMessage
    <2> QED
      BY <2>2, <2>3
  <1>3. ASSUME \/ (\E n \in 0 .. 2 : SlashCommand(n)) \/ SetupFails
               \/ (\E n \in 0 .. 1, noted, ok \in BOOLEAN : SessionStart(n, noted, ok))
               \/ (\E n \in 0 .. 1 : LoopTop(n)) \/ ContextOverflow
               \/ (\E stage \in Stages : PromptTooLong(stage)) \/ InvalidResponseId \/ CallFails
        PROVE  pc' # "setup"
    BY <1>3 DEF SlashCommand, SetupFails, SessionStart, LoopTop, ContextOverflow, PromptTooLong,
                InvalidResponseId, CallFails, localEmitError, emitError
  <1>9. ASSUME NEW finish \in Finishes, NEW text \in BOOLEAN, NEW textual \in BOOLEAN,
               NEW fallback \in BOOLEAN, NEW rid \in BOOLEAN, NEW names \in Batches,
               Reply(finish, text, names, textual, fallback, rid)
        PROVE  pc' # "setup"
    BY <1>9 DEF Reply
  <1>4. ASSUME \/ BudgetExceeded \/ (\E ok \in BOOLEAN : StoreReply(ok)) \/ RepeatedBatch
               \/ (\E failed, escalated \in BOOLEAN : ExecuteBatch(failed, escalated))
               \/ (\E ok \in BOOLEAN : StoreResult(ok))
               \/ (\E n \in 0 .. 1, noted \in BOOLEAN, stage \in Stages : EndToolTurn(n, noted, stage))
               \/ LengthRetry \/ LengthGivesUp \/ BudgetNudge
               \/ (\E n \in 0 .. 1, noted \in BOOLEAN : CompleteRun(n, noted))
               \/ (\E noted \in BOOLEAN : RunEndHooks(noted))
        PROVE  pc' # "setup"
    BY <1>4 DEF BudgetExceeded, StoreReply, ReplyNotStored, RepeatedBatch, ExecuteBatch, StoreResult,
                EndToolTurn, LengthRetry, LengthGivesUp, BudgetNudge, CompleteRun, RunEndHooks, localEmitError, emitError
  <1>5. ASSUME (\E ok \in BOOLEAN : Finalize(ok)) \/ EmptyBatchPanics \/ Crash PROVE pc' # "setup"
    BY <1>5 DEF Finalize, EmptyBatchPanics, Crash, Dies, Return
  <1>6. ASSUME ContextEnds \/ Done \/ UNCHANGED vars PROVE UNCHANGED <<pc, stored, rows>>
    BY <1>6 DEF ContextEnds, Done, vars, convVars
  <1>7. ASSUME UNCHANGED <<pc, stored, rows>> PROVE StoredMessage'
    <2>1. pc' = pc /\ stored' = stored /\ rows' = rows
      BY <1>7
    <2>2. StoredMessage
      BY DEF LoopTypes
    <2> QED
      BY <2>1, <2>2 DEF StoredMessage
  <1>8. pc' # "setup" => StoredMessage'
    BY DEF StoredMessage
  <1> QED
    BY <1>2, <1>3, <1>4, <1>5, <1>6, <1>7, <1>8, <1>9 DEF Next, Step

LEMMA LoopTyped == Init => LoopTypes
  <1> SUFFICES ASSUME Init PROVE LoopTypes
    OBVIOUS
  <1>1. <<>> \in Seq(Messages) /\ <<>> \in Seq(Ids) /\ <<>> \in Seq(STRING)
    BY EmptySeq
  <1>2. ConversationTypes /\ StoredMessage
    BY <1>1 DEF Init, ConversationTypes, StoredMessage
  <1>3. ReplyTypes
    BY <1>1 DEF Init, ReplyTypes, NoReply, Finishes, Answering
  <1>4. ScalarTypes
    BY DEF Init, ScalarTypes, Steps
  <1> QED
    BY <1>2, <1>3, <1>4 DEF LoopTypes

LEMMA TypesKept ==
  ASSUME LoopTypes, [Next]_vars
  PROVE  LoopTypes'
  BY ConversationTypesKept, ReplyTypesKept, ScalarTypesKept, StoredMessageKept DEF LoopTypes

LEMMA LoopTyping == Spec => []LoopTypes
  <1>1. Init => LoopTypes
    BY LoopTyped
  <1>2. LoopTypes /\ [Next]_vars => LoopTypes'
    BY TypesKept
  <1> QED
    BY <1>1, <1>2, PTL DEF Spec

-----------------------------------------------------------------------------
(* Every run announces its end.                                            *)

(* The end is announced by a step that marks it, or else by the cleanup;   *)
(* only the run-end hooks come between the announcement and the cleanup.   *)
EndInv ==
  /\ completes <= 1
  /\ completed => completes = 1 /\ pc \in {"runEnd", "finalize"}
  /\ pc = "runEnd" => completed
  /\ pc # "idle" => ~crashed /\ (~completed => completes = 0)
  /\ pc = "idle" /\ ~crashed => completes = 1

LEMMA EndKept ==
  ASSUME LoopTypes, EndInv, [Next]_vars
  PROVE  EndInv'
  <1>1. completes \in Nat
    BY DEF LoopTypes, ScalarTypes
  <1>2. ASSUME UNCHANGED <<completed, completes, crashed>>, pc \notin {"idle", "runEnd", "finalize"},
               pc' \notin {"idle", "runEnd"}
        PROVE  EndInv'
    <2>1. ~completed /\ ~crashed /\ completes = 0
      BY <1>2 DEF EndInv
    <2> QED
      BY <1>2, <2>1 DEF EndInv
  <1>3. ASSUME UNCHANGED <<pc, completed, completes, crashed>> PROVE EndInv'
    BY <1>3 DEF EndInv
  <1>4. ASSUME AnnounceEnd, UNCHANGED crashed, pc \notin {"idle", "runEnd", "finalize"},
               pc' \in {"runEnd", "finalize"}
        PROVE  EndInv'
    <2>1. ~completed /\ ~crashed /\ completes = 0
      BY <1>4 DEF EndInv
    <2> QED
      BY <1>4, <2>1 DEF EndInv, AnnounceEnd
  <1>5. ASSUME NEW pre \in BOOLEAN, StartRun(pre) PROVE EndInv'
    <2>1. ~completed /\ completed' = completed /\ completes' = 0 /\ crashed' = FALSE /\ pc' = "setup"
      BY <1>5 DEF StartRun, EndInv
    <2> QED
      BY <2>1 DEF EndInv
  <1>6. ASSUME NEW ok \in BOOLEAN, Finalize(ok) PROVE EndInv'
    <2>1. /\ ~crashed /\ crashed' = crashed /\ pc' = "idle" /\ completed' = FALSE
          /\ completes' = completes + (IF completed THEN 0 ELSE 1)
      BY <1>6 DEF Finalize, Return, EndInv
    <2>2. completes' = 1
      BY <1>6, <2>1 DEF Finalize, EndInv
    <2> QED
      BY <2>1, <2>2 DEF EndInv
  <1>7. ASSUME EmptyBatchPanics \/ Crash PROVE EndInv'
    <2>1. completes' = completes /\ crashed' = TRUE /\ pc' = "idle" /\ completed' = FALSE
      BY <1>7 DEF EmptyBatchPanics, Crash, Dies, Return
    <2> QED
      BY <2>1 DEF EndInv
  <1>8. ASSUME NEW n \in 0 .. 2, SlashCommand(n) PROVE EndInv'
    <2>1. /\ pc = "setup" /\ pc' = "finalize" /\ UNCHANGED crashed
          /\ UNCHANGED <<completed, completes>> \/ AnnounceEnd
      BY <1>8 DEF SlashCommand, localEmitError
    <2>2. /\ pc \notin {"idle", "runEnd", "finalize"} /\ pc' \notin {"idle", "runEnd"}
          /\ pc' \in {"runEnd", "finalize"}
      BY <2>1
    <2>3. UNCHANGED <<completed, completes>> => UNCHANGED <<completed, completes, crashed>>
      BY <2>1
    <2> QED
      BY <1>2, <1>4, <2>1, <2>2, <2>3, Zenon
  <1>9. ASSUME NEW n \in 0 .. 1, NEW noted \in BOOLEAN, CompleteRun(n, noted)
        PROVE  EndInv'
    <2>1. AnnounceEnd /\ UNCHANGED crashed /\ pc = "stop" /\ pc' = "runEnd"
      BY <1>9 DEF CompleteRun
    <2>2. pc \notin {"idle", "runEnd", "finalize"} /\ pc' \in {"runEnd", "finalize"}
      BY <2>1
    <2> QED
      BY <1>4, <2>1, <2>2, Zenon
  <1>10. ASSUME \/ SetupFails \/ (\E n \in 0 .. 1, noted, ok \in BOOLEAN : SessionStart(n, noted, ok))
                \/ (\E n \in 0 .. 1 : LoopTop(n)) \/ ContextOverflow
                \/ (\E stage \in Stages : PromptTooLong(stage)) \/ InvalidResponseId \/ CallFails
         PROVE  /\ UNCHANGED <<completed, completes, crashed>>
                /\ pc \notin {"idle", "runEnd", "finalize"} /\ pc' \notin {"idle", "runEnd"}
    BY <1>10 DEF SetupFails, SessionStart, LoopTop, ContextOverflow, PromptTooLong,
                 InvalidResponseId, CallFails, localEmitError, emitError, endVars
  <1>11. ASSUME \/ BudgetExceeded \/ (\E ok \in BOOLEAN : StoreReply(ok)) \/ RepeatedBatch
                \/ (\E failed, escalated \in BOOLEAN : ExecuteBatch(failed, escalated))
                \/ (\E ok \in BOOLEAN : StoreResult(ok))
                \/ (\E n \in 0 .. 1, noted \in BOOLEAN, stage \in Stages : EndToolTurn(n, noted, stage))
                \/ LengthRetry \/ LengthGivesUp \/ BudgetNudge
         PROVE  /\ UNCHANGED <<completed, completes, crashed>>
                /\ pc \notin {"idle", "runEnd", "finalize"} /\ pc' \notin {"idle", "runEnd"}
    BY <1>11 DEF BudgetExceeded, StoreReply, ReplyNotStored, RepeatedBatch, ExecuteBatch, StoreResult,
                 EndToolTurn, LengthRetry, LengthGivesUp, BudgetNudge, localEmitError, emitError, endVars
  <1>12. ASSUME ContextEnds \/ Done \/ UNCHANGED vars
         PROVE  UNCHANGED <<pc, completed, completes, crashed>>
    BY <1>12 DEF ContextEnds, Done, vars, endVars
  <1>13. ASSUME NEW finish \in Finishes, NEW text \in BOOLEAN, NEW textual \in BOOLEAN,
                NEW fallback \in BOOLEAN, NEW rid \in BOOLEAN, NEW names \in Batches,
                Reply(finish, text, names, textual, fallback, rid)
         PROVE  /\ UNCHANGED <<completed, completes, crashed>>
                /\ pc \notin {"idle", "runEnd", "finalize"} /\ pc' \notin {"idle", "runEnd"}
    BY <1>13 DEF Reply, endVars
  <1>14. ASSUME NEW noted \in BOOLEAN, RunEndHooks(noted) PROVE EndInv'
    <2>1. /\ UNCHANGED <<completed, completes, crashed>> /\ pc = "runEnd"
          /\ pc' = "runEnd" \/ pc' = "finalize"
      BY <1>14 DEF RunEndHooks, endVars
    <2> QED
      BY <2>1 DEF EndInv
  <1> QED
    BY <1>2, <1>3, <1>5, <1>6, <1>7, <1>8, <1>9, <1>10, <1>11, <1>12, <1>13, <1>14 DEF Next, Step

(* Every run that is not cut off by a crash announces its end exactly      *)
(* once, whichever of its exits it takes: the announcement of a finished   *)
(* run and the deferred one of every other exit exclude each other.        *)
THEOREM RunAnnouncedOnce == Spec => []OneRunComplete
  <1>1. Init => EndInv
    BY DEF Init, EndInv
  <1>2. LoopTypes /\ EndInv /\ [Next]_vars => EndInv'
    BY EndKept
  <1>3. EndInv => OneRunComplete
    BY DEF EndInv, OneRunComplete
  <1> QED
    BY <1>1, <1>2, <1>3, LoopTyping, PTL DEF Spec

-----------------------------------------------------------------------------
(* Every stored result follows its call.                                   *)

(* A reply is opened by storing it, its results are stored one by one, and *)
(* nothing else is stored before it is closed.                             *)
LEMMA OpenSteps ==
  ASSUME LoopTypes, [Next]_vars, Open'
  PROVE  \/ StoreReply(TRUE) \/ StoreResult(TRUE)
         \/ Open /\ UNCHANGED <<rows, msgs, reply>> /\ Results' = Results
  <1>1. ASSUME ~Open' PROVE FALSE
    BY <1>1
  <1>2. ASSUME \/ (\E pre \in BOOLEAN : StartRun(pre)) \/ (\E n \in 0 .. 2 : SlashCommand(n))
               \/ SetupFails \/ (\E n \in 0 .. 1, noted, ok \in BOOLEAN : SessionStart(n, noted, ok))
               \/ (\E n \in 0 .. 1 : LoopTop(n)) \/ ContextOverflow
               \/ (\E stage \in Stages : PromptTooLong(stage)) \/ InvalidResponseId \/ CallFails
        PROVE  ~Open'
    BY <1>2 DEF StartRun, SlashCommand, SetupFails, SessionStart, LoopTop, ContextOverflow, PromptTooLong,
                InvalidResponseId, CallFails, localEmitError, emitError, Open, Answering
  <1>3. ASSUME NEW finish \in Finishes, NEW text \in BOOLEAN, NEW textual \in BOOLEAN,
               NEW fallback \in BOOLEAN, NEW rid \in BOOLEAN, NEW names \in Batches,
               Reply(finish, text, names, textual, fallback, rid)
        PROVE  ~Open'
    BY <1>3 DEF Reply, Open, Answering
  <1>4. ASSUME \/ BudgetExceeded
               \/ (\E n \in 0 .. 1, noted \in BOOLEAN, stage \in Stages : EndToolTurn(n, noted, stage))
               \/ LengthRetry \/ LengthGivesUp \/ BudgetNudge
               \/ (\E n \in 0 .. 1, noted \in BOOLEAN : CompleteRun(n, noted))
               \/ (\E noted \in BOOLEAN : RunEndHooks(noted))
        PROVE  ~Open'
    BY <1>4 DEF BudgetExceeded, EndToolTurn, LengthRetry, LengthGivesUp, BudgetNudge, CompleteRun, RunEndHooks,
                localEmitError, emitError, Open, Answering
  <1>5. ASSUME (\E ok \in BOOLEAN : Finalize(ok)) \/ EmptyBatchPanics \/ Crash PROVE ~Open'
    BY <1>5 DEF Finalize, EmptyBatchPanics, Crash, Dies, Return, Open, Answering
  <1>6. ASSUME NEW ok \in BOOLEAN, StoreReply(ok) PROVE StoreReply(TRUE) \/ ~Open'
    <2>1. CASE ok = TRUE
      BY <1>6, <2>1
    <2>2. CASE ok = FALSE
      BY <1>6, <2>2 DEF StoreReply, ReplyNotStored, emitError, Open, Answering
    <2> QED
      BY <2>1, <2>2
  <1>7. ASSUME NEW ok \in BOOLEAN, StoreResult(ok) PROVE StoreResult(TRUE) \/ ~Open'
    <2>1. CASE ok = TRUE
      BY <1>7, <2>1
    <2>2. CASE ok = FALSE
      BY <1>7, <2>2 DEF StoreResult, emitError, Open, Answering
    <2> QED
      BY <2>1, <2>2
  <1>8. ASSUME RepeatedBatch \/ (\E failed, escalated \in BOOLEAN : ExecuteBatch(failed, escalated))
        PROVE  (Open /\ UNCHANGED <<rows, msgs, reply>> /\ Results' = Results) \/ ~Open'
    BY <1>8 DEF RepeatedBatch, ExecuteBatch, emitError, Open, Answering, Results, convVars
  <1>9. ASSUME ContextEnds \/ Done \/ UNCHANGED vars
        PROVE  Open /\ UNCHANGED <<rows, msgs, reply>> /\ Results' = Results
    BY <1>9 DEF ContextEnds, Done, vars, convVars, Open, Answering, Results
  <1> QED
    BY <1>1, <1>2, <1>3, <1>4, <1>5, <1>6, <1>7, <1>8, <1>9 DEF Next, Step

(* Rows and messages end with the open reply and its results so far.       *)
RowsInv ==
  /\ Grounded(rows)
  /\ Open => OpenAt(rows, reply.calls, Results) /\ OpenAt(msgs, reply.calls, Results)

LEMMA StoredReply ==
  ASSUME LoopTypes, StoreReply(TRUE)
  PROVE  \E m \in Messages :
           /\ m.role = "assistant" /\ m.calls = reply.calls
           /\ rows' = Append(rows, m) /\ msgs' = Append(msgs, m)
           /\ pc = "reply" /\ Results' = 0 /\ UNCHANGED <<reply, chainVars, causes, replies>>
           /\ Open' /\ ~Answering'
  <1>1. PICK m \in Messages : /\ m = AssistantMessage(reply.text, reply.calls, reply.rid)
                              /\ m.role = "assistant" /\ m.calls = reply.calls
    BY LoopMessages
  <1>2. rows' = Append(rows, m) /\ msgs' = Append(msgs, m)
    BY <1>1 DEF StoreReply
  <1>3. pc = "reply" /\ UNCHANGED <<reply, chainVars, causes, replies>> /\ pc' \in {"tools", "length", "stop"}
    BY DEF StoreReply
  <1>4. Results' = 0 /\ Open' /\ ~Answering'
    BY <1>3 DEF Results, Answering, Open
  <1> QED
    BY <1>1, <1>2, <1>3, <1>4

LEMMA StoredResult ==
  ASSUME LoopTypes, StoreResult(TRUE)
  PROVE  \E m \in Messages :
           /\ m.role = "tool" /\ m.id = reply.calls[Results + 1] /\ m.calls = <<>> /\ m.rid = FALSE
           /\ rows' = Append(rows, m) /\ msgs' = Append(msgs, m)
           /\ Answering /\ Open /\ UNCHANGED <<reply, chainVars, causes, replies>>
           /\ IF Results + 1 < Len(reply.calls) THEN pc' = pc /\ Open' /\ Answering' /\ Results' = Results + 1
              ELSE pc' \in {"turnEnd", "loop"} /\ ~Open'
  <1>1. Answering /\ Open
    BY DEF StoreResult, Answering, Open
  <1>2. PICK m \in Messages : /\ m = ToolMessage(reply.calls[next])
                              /\ m.role = "tool" /\ m.id = reply.calls[next]
                              /\ m.calls = <<>> /\ m.rid = FALSE
    BY <1>1, LoopMessages
  <1>3. rows' = Append(rows, m) /\ msgs' = Append(msgs, m)
    BY <1>2 DEF StoreResult
  <1>4. /\ UNCHANGED <<reply, chainVars, causes, replies>> /\ next' = next + 1
        /\ IF next < Len(reply.calls) THEN pc' = pc ELSE pc' \in {"turnEnd", "loop"}
    BY DEF StoreResult
  <1>5. Results + 1 = next /\ next \in Nat
    BY <1>1, LoopMessages DEF LoopTypes, ReplyTypes
  <1>6. IF Results + 1 < Len(reply.calls) THEN pc' = pc /\ Open' /\ Answering' /\ Results' = Results + 1
        ELSE pc' \in {"turnEnd", "loop"} /\ ~Open'
    BY <1>1, <1>4, <1>5 DEF Open, Answering, Results
  <1> QED
    BY <1>1, <1>2, <1>3, <1>4, <1>5, <1>6

LEMMA RowsKept ==
  ASSUME LoopTypes, RowsInv, [Next]_vars
  PROVE  RowsInv'
  <1>1. rows \in Seq(Messages) /\ msgs \in Seq(Messages) /\ reply.calls \in Seq(Ids)
    BY LoopMessages DEF LoopTypes, ConversationTypes
  <1>2. CASE StoreReply(TRUE)
    <2>1. PICK m \in Messages : /\ m.role = "assistant" /\ m.calls = reply.calls
                                /\ rows' = Append(rows, m) /\ msgs' = Append(msgs, m)
                                /\ Results' = 0 /\ reply' = reply
      BY <1>2, StoredReply
    <2>2. Grounded(Append(rows, m))
      BY <1>1, <2>1, GroundedStays DEF RowsInv
    <2>3. OpenAt(Append(rows, m), m.calls, 0) /\ OpenAt(Append(msgs, m), m.calls, 0)
      BY <1>1, <2>1, CallAppended
    <2> QED
      BY <2>1, <2>2, <2>3 DEF RowsInv
  <1>3. CASE StoreResult(TRUE)
    <2>1. PICK m \in Messages : /\ m.role = "tool" /\ m.id = reply.calls[Results + 1]
                                /\ rows' = Append(rows, m) /\ msgs' = Append(msgs, m)
                                /\ Answering /\ Open /\ reply' = reply
                                /\ Open' => Results' = Results + 1
      <3>1. Results \in Nat /\ Len(reply.calls) \in Nat
        BY LoopMessages
      <3> QED
        BY <1>3, <3>1, StoredResult
    <2>2. /\ OpenAt(rows, reply.calls, Results) /\ OpenAt(msgs, reply.calls, Results) /\ Grounded(rows)
          /\ Results \in Nat /\ Results < Len(reply.calls)
      BY <2>1, LoopMessages DEF RowsInv
    <2>3. PICK k \in Nat : k = Results
      BY <2>2
    <2>4. Grounded(Append(rows, m)) /\ OpenAt(Append(rows, m), reply.calls, k + 1)
      BY <1>1, <2>1, <2>2, <2>3, ResultAppended
    <2>5. OpenAt(Append(msgs, m), reply.calls, k + 1)
      BY <1>1, <2>1, <2>2, <2>3, ResultAppended
    <2> QED
      BY <2>1, <2>3, <2>4, <2>5 DEF RowsInv
  <1>4. CASE Noted(rows, rows') /\ ~StoreReply(TRUE) /\ ~StoreResult(TRUE)
    <2>1. Grounded(rows')
      BY <1>1, <1>4, NotedKeeps DEF RowsInv
    <2>2. Open' => Open /\ rows' = rows /\ msgs' = msgs /\ reply' = reply /\ Results' = Results
      BY <1>4, OpenSteps
    <2> QED
      BY <2>1, <2>2 DEF RowsInv
  <1> QED
    BY <1>2, <1>3, <1>4, RowsGrow

LEMMA RowsStart == Init => RowsInv
  <1>1. Init => Len(rows) = 0 /\ ~Open
    BY DEF Init, Open, Answering
  <1> QED
    BY <1>1 DEF RowsInv, Grounded

LEMMA RowsAlways == Spec => []RowsInv
  <1>1. LoopTypes /\ RowsInv /\ [Next]_vars => RowsInv'
    BY RowsKept
  <1> QED
    BY <1>1, RowsStart, LoopTyping, PTL DEF Spec

(* Every stored result directly follows the reply that asked for it: no    *)
(* failed write, escalation, cancel or crash stores one without its call.  *)
THEOREM ResultsFollowCalls == Spec => []StoredResultsGrounded
  <1>1. LoopTypes /\ RowsInv => StoredResultsGrounded
    BY GroundedIsAll DEF LoopTypes, ConversationTypes, RowsInv, StoredResultsGrounded
  <1> QED
    BY <1>1, RowsAlways, LoopTyping, PTL

-----------------------------------------------------------------------------
(* What a chained request leaves out was seen.                             *)

(* The messages grow, or else nothing is left out of the next request.     *)
LEMMA MessagesGrow ==
  ASSUME LoopTypes, [Next]_vars
  PROVE  /\ Len(msgs) \in Nat /\ Len(msgs') \in Nat
         /\ \/ Len(msgs') >= Len(msgs) \/ sent' = 0
            \/ (\E n \in 0 .. 1, noted, ok \in BOOLEAN : SessionStart(n, noted, ok))
  <1>1. msgs \in Seq(Messages) /\ Len(msgs) \in Nat
    BY LenProperties DEF LoopTypes, ConversationTypes
  <1>2. msgs' \in Seq(Messages) /\ Len(msgs') \in Nat
    BY TypesKept, LenProperties DEF LoopTypes, ConversationTypes
  <1>3. ASSUME NEW m \in Messages, msgs' = Append(msgs, m) PROVE Len(msgs') >= Len(msgs)
    BY <1>1, <1>3, Appended
  <1>4. StoreReply(TRUE) \/ StoreResult(TRUE) => Len(msgs') >= Len(msgs)
    BY <1>3, StoredReply, StoredResult
  <1>5. Noted(msgs, msgs') => Len(msgs') >= Len(msgs)
    BY <1>1, NotedKeeps
  <1>6. (\E stage \in Stages : PromptTooLong(stage)) => sent' = 0
    BY DEF PromptTooLong, Compacted, ResetChain
  <1> QED
    BY <1>1, <1>2, <1>4, <1>5, <1>6, MessagesChange DEF CompactedTurn

LEMMA ChainSteps ==
  ASSUME LoopTypes, [Next]_vars
  PROVE  \/ UNCHANGED chainVars /\ (pc' \in {"idle", "setup"} => pc \in {"idle", "setup"})
         \/ ResetChain
         \/ (\E n \in 0 .. 1, noted, ok \in BOOLEAN : SessionStart(n, noted, ok))
         \/ (\E rid \in BOOLEAN : ChainReply(rid)) /\ pc' \notin {"idle", "setup"}
  <1>1. ASSUME NEW finish \in Finishes, NEW text \in BOOLEAN, NEW textual \in BOOLEAN,
               NEW fallback \in BOOLEAN, NEW rid \in BOOLEAN, NEW names \in Batches,
               Reply(finish, text, names, textual, fallback, rid)
        PROVE  ResetChain \/ (ChainReply(rid) /\ pc' \notin {"idle", "setup"})
    <2>1. pc' \notin {"idle", "setup"}
      BY <1>1 DEF Reply
    <2>2. ResetChain \/ ChainReply(rid)
      BY <1>1, Zenon DEF Reply
    <2> QED
      BY <2>1, <2>2
  <1>2. ASSUME \/ (\E pre \in BOOLEAN : StartRun(pre)) \/ (\E n \in 0 .. 2 : SlashCommand(n))
               \/ SetupFails \/ (\E n \in 0 .. 1 : LoopTop(n)) \/ ContextOverflow \/ CallFails
        PROVE  UNCHANGED chainVars /\ (pc' \in {"idle", "setup"} => pc \in {"idle", "setup"})
    BY <1>2 DEF StartRun, SlashCommand, SetupFails, LoopTop, ContextOverflow, CallFails,
                localEmitError, emitError
  <1>3. ASSUME (\E stage \in Stages : PromptTooLong(stage)) \/ InvalidResponseId
        PROVE  ResetChain
    BY <1>3 DEF PromptTooLong, Compacted, InvalidResponseId
  <1>4. ASSUME \/ BudgetExceeded \/ (\E ok \in BOOLEAN : StoreReply(ok)) \/ RepeatedBatch
               \/ (\E failed, escalated \in BOOLEAN : ExecuteBatch(failed, escalated))
               \/ (\E ok \in BOOLEAN : StoreResult(ok))
        PROVE  UNCHANGED chainVars /\ pc' \notin {"idle", "setup"}
    BY <1>4 DEF BudgetExceeded, StoreReply, ReplyNotStored, RepeatedBatch, ExecuteBatch, StoreResult,
                localEmitError, emitError
  <1>5. ASSUME NEW n \in 0 .. 1, NEW noted \in BOOLEAN, NEW stage \in Stages, EndToolTurn(n, noted, stage)
        PROVE  ResetChain \/ (UNCHANGED chainVars /\ pc' \notin {"idle", "setup"})
    BY <1>5 DEF EndToolTurn
  <1>6. ASSUME \/ LengthRetry \/ LengthGivesUp \/ BudgetNudge
               \/ (\E n \in 0 .. 1, noted \in BOOLEAN : CompleteRun(n, noted))
               \/ (\E noted \in BOOLEAN : RunEndHooks(noted))
        PROVE  UNCHANGED chainVars /\ pc' \notin {"idle", "setup"}
    BY <1>6 DEF LengthRetry, LengthGivesUp, BudgetNudge, CompleteRun, RunEndHooks, emitError
  <1>7. ASSUME (\E ok \in BOOLEAN : Finalize(ok)) \/ EmptyBatchPanics \/ Crash PROVE ResetChain
    BY <1>7 DEF Finalize, EmptyBatchPanics, Crash, Dies, Return, ResetChain
  <1>8. ASSUME ContextEnds \/ Done \/ UNCHANGED vars
        PROVE  UNCHANGED chainVars /\ (pc' \in {"idle", "setup"} => pc \in {"idle", "setup"})
    BY <1>8 DEF ContextEnds, Done, vars
  <1> HIDE DEF LoopTypes
  <1> QED
    BY <1>1, <1>2, <1>3, <1>4, <1>5, <1>6, <1>7, <1>8 DEF Next, Step

(* A response has seen no more than what was sent, and all of it unless a  *)
(* reply without a response id came after it.                              *)
ChainInv ==
  /\ pc \in {"idle", "setup"} => sent = 0
  /\ covered <= sent /\ sent <= Len(msgs)
  /\ chained => covered = sent \/ lapsed

LEMMA ChainKept ==
  ASSUME LoopTypes, ChainInv, [Next]_vars
  PROVE  ChainInv'
  <1>1. /\ Len(msgs) \in Nat /\ Len(msgs') \in Nat /\ sent \in Nat /\ covered \in Nat
        /\ \/ Len(msgs') >= Len(msgs) \/ sent' = 0
           \/ (\E n \in 0 .. 1, noted, ok \in BOOLEAN : SessionStart(n, noted, ok))
    BY MessagesGrow DEF LoopTypes, ScalarTypes
  <1>2. covered <= sent /\ sent <= Len(msgs) /\ (chained => covered = sent \/ lapsed)
    BY DEF ChainInv
  <1>3. CASE ResetChain
    <2>1. sent' = 0 /\ covered' = 0
      BY <1>3 DEF ResetChain
    <2> QED
      BY <1>1, <2>1 DEF ChainInv
  <1>4. CASE \E n \in 0 .. 1, noted, ok \in BOOLEAN : SessionStart(n, noted, ok)
    <2>1. pc = "setup" /\ sent' = sent /\ covered' = covered
      BY <1>4 DEF SessionStart
    <2>2. sent' = 0 /\ covered' = 0
      BY <1>1, <1>2, <2>1 DEF ChainInv
    <2> QED
      BY <1>1, <2>2 DEF ChainInv
  <1>5. CASE /\ (\E rid \in BOOLEAN : ChainReply(rid)) /\ pc' \notin {"idle", "setup"}
             /\ ~(\E n \in 0 .. 1, noted, ok \in BOOLEAN : SessionStart(n, noted, ok))
    <2>1. PICK rid \in BOOLEAN : ChainReply(rid)
      BY <1>5
    <2>2. sent' = Len(msgs) /\ covered' = IF rid THEN Len(msgs) ELSE covered
      BY <2>1 DEF ChainReply
    <2>3. covered' <= sent' /\ sent' <= Len(msgs')
      BY <1>1, <1>2, <1>5, <2>2
    <2>4. CASE rid
      BY <1>5, <2>2, <2>3, <2>4 DEF ChainInv
    <2>5. CASE ~rid
      <3>1. chained' => lapsed'
        BY <2>1, <2>5, Zenon DEF ChainReply
      <3> QED
        BY <1>5, <2>3, <3>1 DEF ChainInv
    <2> QED
      BY <2>4, <2>5
  <1>6. CASE /\ UNCHANGED chainVars /\ (pc' \in {"idle", "setup"} => pc \in {"idle", "setup"})
             /\ ~(\E n \in 0 .. 1, noted, ok \in BOOLEAN : SessionStart(n, noted, ok))
    <2>1. chained' = chained /\ sent' = sent /\ covered' = covered /\ lapsed' = lapsed
      BY <1>6 DEF chainVars
    <2>2. sent' <= Len(msgs')
      BY <1>1, <1>2, <1>6, <2>1
    <2>3. covered' <= sent' /\ (chained' => covered' = sent' \/ lapsed')
      BY <1>2, <2>1
    <2>4. pc' \in {"idle", "setup"} => sent' = 0
      BY <1>6, <2>1 DEF ChainInv
    <2> QED
      BY <2>2, <2>3, <2>4 DEF ChainInv
  <1> QED
    BY <1>3, <1>4, <1>5, <1>6, ChainSteps

(* With a response chain, what a request leaves out was seen by the        *)
(* response it is chained to, up to the point where a reply without a      *)
(* response id moved the index on, whatever errors, fallbacks and          *)
(* compactions came between.                                               *)
THEOREM OmittedIsCovered == Spec => []ChainCoversOmitted
  <1>1. Init => ChainInv
    BY DEF Init, ChainInv
  <1>2. LoopTypes /\ ChainInv /\ [Next]_vars => ChainInv'
    BY ChainKept
  <1>3. ChainInv => ChainCoversOmitted
    BY DEF ChainInv, ChainCoversOmitted
  <1> QED
    BY <1>1, <1>2, <1>3, LoopTyping, PTL DEF Spec

-----------------------------------------------------------------------------
(* The stored rows can be repaired.                                        *)

(* The causes of a mismatch and the number of replies only grow, and a     *)
(* reply that is not text bears the number of its turn.                    *)
LEMMA CountSteps ==
  ASSUME LoopTypes, [Next]_vars
  PROVE  /\ causes \subseteq causes' /\ replies' >= replies
         /\ pc' = "reply" =>
              \/ pc = "reply" /\ UNCHANGED <<reply, replies>>
              \/ /\ replies' = replies + 1
                 /\ "textual" \notin causes' => \A c \in ToSet(reply'.calls) : c[1] = replies'
  <1>1. replies \in Nat
    BY DEF LoopTypes, ScalarTypes
  <1>2. ASSUME NEW finish \in Finishes, NEW text \in BOOLEAN, NEW textual \in BOOLEAN,
               NEW fallback \in BOOLEAN, NEW rid \in BOOLEAN, NEW names \in Batches,
               Reply(finish, text, names, textual, fallback, rid)
        PROVE  /\ causes \subseteq causes' /\ replies' = replies + 1
               /\ pc' = "reply" /\ "textual" \notin causes' =>
                    \A c \in ToSet(reply'.calls) : c[1] = replies'
    <2>1. causes \subseteq causes' /\ replies' = replies + 1
      BY <1>2 DEF Reply
    <2>2. ASSUME pc' = "reply", "textual" \notin causes'
          PROVE  ~textual /\ reply'.calls = CallIds(names, textual)
      <3>1. /\ causes' = causes \cup (IF textual THEN {"textual"} ELSE {})
            /\ reply'.calls = CallIds(names, textual)
        BY <1>2, <2>2 DEF Reply
      <3> QED
        BY <2>2, <3>1
    <2> QED
      BY <1>1, <2>1, <2>2, CallIdsType
  <1>3. ASSUME \/ (\E pre \in BOOLEAN : StartRun(pre)) \/ (\E n \in 0 .. 2 : SlashCommand(n))
               \/ SetupFails \/ (\E n \in 0 .. 1, noted, ok \in BOOLEAN : SessionStart(n, noted, ok))
               \/ (\E n \in 0 .. 1 : LoopTop(n)) \/ ContextOverflow
               \/ (\E stage \in Stages : PromptTooLong(stage)) \/ InvalidResponseId \/ CallFails
        PROVE  causes \subseteq causes' /\ replies' = replies /\ pc' # "reply"
    BY <1>3 DEF StartRun, SlashCommand, SetupFails, SessionStart, LoopTop, ContextOverflow, PromptTooLong,
                Compacted, InvalidResponseId, CallFails, localEmitError, emitError, countVars
  <1>4. ASSUME \/ BudgetExceeded \/ (\E ok \in BOOLEAN : StoreReply(ok)) \/ RepeatedBatch
               \/ (\E failed, escalated \in BOOLEAN : ExecuteBatch(failed, escalated))
               \/ (\E ok \in BOOLEAN : StoreResult(ok))
        PROVE  causes \subseteq causes' /\ replies' = replies /\ pc' # "reply"
    BY <1>4 DEF BudgetExceeded, StoreReply, ReplyNotStored, RepeatedBatch, ExecuteBatch, StoreResult,
                localEmitError, emitError, countVars
  <1>5. ASSUME \/ (\E n \in 0 .. 1, noted \in BOOLEAN, stage \in Stages : EndToolTurn(n, noted, stage))
               \/ LengthRetry \/ LengthGivesUp \/ BudgetNudge
               \/ (\E n \in 0 .. 1, noted \in BOOLEAN : CompleteRun(n, noted))
               \/ (\E noted \in BOOLEAN : RunEndHooks(noted))
        PROVE  causes \subseteq causes' /\ replies' = replies /\ pc' # "reply"
    BY <1>5 DEF EndToolTurn, LengthRetry, LengthGivesUp, BudgetNudge, CompleteRun,
                RunEndHooks, emitError, countVars
  <1>6. ASSUME (\E ok \in BOOLEAN : Finalize(ok)) \/ EmptyBatchPanics \/ Crash
        PROVE  causes \subseteq causes' /\ replies' = replies /\ pc' # "reply"
    BY <1>6 DEF Finalize, EmptyBatchPanics, Crash, Dies, Return
  <1>7. ASSUME ContextEnds \/ Done \/ UNCHANGED vars
        PROVE  causes \subseteq causes' /\ UNCHANGED <<pc, reply, replies>>
    BY <1>7 DEF ContextEnds, Done, vars, countVars
  <1>8. CASE replies' = replies /\ causes \subseteq causes' /\ pc' # "reply"
    BY <1>1, <1>8
  <1>9. CASE causes \subseteq causes' /\ UNCHANGED <<pc, reply, replies>>
    BY <1>1, <1>9
  <1> HIDE DEF LoopTypes
  <1>10. CASE \E finish \in Finishes, text, textual, fallback, rid \in BOOLEAN, names \in Batches :
                Reply(finish, text, names, textual, fallback, rid)
    BY <1>1, <1>2, <1>10
  <1> QED
    BY <1>3, <1>4, <1>5, <1>6, <1>7, <1>8, <1>9, <1>10 DEF Next, Step

(* When results stop being stored, they are all stored or none of them is, *)
(* or the batch is a cause.                                                *)
LEMMA AnsweringEnds ==
  ASSUME LoopTypes, [Next]_vars, Answering, ~Answering', causes' = {}
  PROVE  StoreResult(TRUE) \/ (rows' = rows /\ Results = 0)
  <1>1. next \in Nat \ {0}
    BY DEF LoopTypes, ReplyTypes
  <1>2. ASSUME Torn = {} PROVE Results = 0
    BY <1>1, <1>2 DEF Torn, Results
  <1>3. ASSUME NEW ok \in BOOLEAN, StoreResult(ok)
        PROVE  StoreResult(TRUE) \/ (rows' = rows /\ Results = 0)
    <2>1. CASE ok = TRUE
      BY <1>3, <2>1
    <2>2. CASE ok = FALSE
      <3>1. causes' = causes \cup Torn /\ rows' = rows
        BY <1>3, <2>2 DEF StoreResult, convVars
      <3>2. Torn = {}
        BY <3>1
      <3> QED
        BY <1>2, <3>1, <3>2
    <2> QED
      BY <2>1, <2>2
  <1>4. ASSUME EmptyBatchPanics \/ Crash PROVE rows' = rows /\ Results = 0
    <2>1. causes' = causes \cup Torn /\ rows' = rows
      BY <1>4 DEF EmptyBatchPanics, Crash, Dies, Answering
    <2>2. Torn = {}
      BY <2>1
    <2> QED
      BY <1>2, <2>1, <2>2
  <1>5. ASSUME ContextEnds \/ Done \/ UNCHANGED vars PROVE FALSE
    BY <1>5 DEF ContextEnds, Done, vars, Answering
  <1>6. ASSUME \/ (\E pre \in BOOLEAN : StartRun(pre)) \/ (\E n \in 0 .. 2 : SlashCommand(n))
               \/ SetupFails \/ (\E n \in 0 .. 1, noted, ok \in BOOLEAN : SessionStart(n, noted, ok))
               \/ (\E n \in 0 .. 1 : LoopTop(n)) \/ ContextOverflow
               \/ (\E stage \in Stages : PromptTooLong(stage)) \/ InvalidResponseId \/ CallFails
        PROVE  FALSE
    BY <1>6 DEF StartRun, SlashCommand, SetupFails, SessionStart, LoopTop, ContextOverflow, PromptTooLong,
                InvalidResponseId, CallFails, Answering
  <1>7. ASSUME \/ BudgetExceeded \/ (\E ok \in BOOLEAN : StoreReply(ok)) \/ RepeatedBatch
               \/ (\E failed, escalated \in BOOLEAN : ExecuteBatch(failed, escalated))
               \/ (\E n \in 0 .. 1, noted \in BOOLEAN, stage \in Stages : EndToolTurn(n, noted, stage))
               \/ LengthRetry \/ LengthGivesUp \/ BudgetNudge
               \/ (\E n \in 0 .. 1, noted \in BOOLEAN : CompleteRun(n, noted))
               \/ (\E noted \in BOOLEAN : RunEndHooks(noted))
               \/ (\E ok \in BOOLEAN : Finalize(ok))
        PROVE  FALSE
    BY <1>7 DEF BudgetExceeded, StoreReply, RepeatedBatch, ExecuteBatch, EndToolTurn, LengthRetry,
                LengthGivesUp, BudgetNudge, CompleteRun, RunEndHooks, Finalize, Answering
  <1>8. ASSUME NEW finish \in Finishes, NEW text \in BOOLEAN, NEW textual \in BOOLEAN,
               NEW fallback \in BOOLEAN, NEW rid \in BOOLEAN, NEW names \in Batches,
               Reply(finish, text, names, textual, fallback, rid)
        PROVE  FALSE
    BY <1>8 DEF Reply, Answering
  <1> HIDE DEF LoopTypes, Answering, Results
  <1> QED
    BY <1>3, <1>4, <1>5, <1>6, <1>7, <1>8 DEF Next, Step

(* While no cause applies: the ids of stored calls are below the number of *)
(* replies, and every stored reply but the one being answered is answered  *)
(* in full or not at all.                                                  *)
IdsInv ==
  /\ \A i \in 1 .. Len(rows) : \A c \in ToSet(rows[i].calls) :
       c[1] <= replies /\ (pc = "reply" => c[1] < replies)
  /\ pc = "reply" => \A c \in ToSet(reply.calls) : c[1] = replies
  /\ IdsDistinct(rows)
Answered == IF Answering THEN Len(rows) - Results ELSE 0
RepairInv == causes = {} => IdsInv /\ CallsMet(rows, Answered, TRUE)

LEMMA IdsNumbered ==
  ASSUME LoopTypes, IdsInv, NEW i \in 1 .. Len(rows), NEW c \in ToSet(rows[i].calls)
  PROVE  c[1] \in Nat
  <1>1. rows[i] \in Messages
    BY ElementOfSeq DEF LoopTypes, ConversationTypes
  <1>2. c \in Ids
    BY <1>1, CallsOf
  <1> QED
    BY <1>2 DEF Ids

LEMMA IdsKept ==
  ASSUME LoopTypes, IdsInv, [Next]_vars, causes' = {}
  PROVE  IdsInv'
  <1>1. rows \in Seq(Messages) /\ Len(rows) \in Nat /\ replies \in Nat
    BY LenProperties DEF LoopTypes, ConversationTypes, ScalarTypes
  <1>2. /\ replies' >= replies
        /\ pc' = "reply" =>
             \/ pc = "reply" /\ UNCHANGED <<reply, replies>>
             \/ replies' = replies + 1 /\ \A c \in ToSet(reply'.calls) : c[1] = replies'
    BY CountSteps
  <1>3. replies' \in Nat
    BY TypesKept DEF LoopTypes, ScalarTypes
  <1>4. ASSUME NEW i \in 1 .. Len(rows), NEW c \in ToSet(rows[i].calls)
        PROVE  c[1] <= replies' /\ (pc' = "reply" => c[1] < replies')
    <2>1. c[1] \in Nat
      BY <1>4, IdsNumbered
    <2>2. c[1] <= replies /\ (pc = "reply" => c[1] < replies)
      BY <1>4 DEF IdsInv
    <2> QED
      BY <1>1, <1>2, <1>3, <2>1, <2>2
  <1>5. pc' = "reply" => \A c \in ToSet(reply'.calls) : c[1] = replies'
    BY <1>2 DEF IdsInv
  <1>6. CASE Noted(rows, rows')
    <2>1. IdsDistinct(rows')
      BY <1>1, <1>6, NotedKeeps DEF IdsInv
    <2>2. ASSUME NEW i \in 1 .. Len(rows'), NEW c \in ToSet(rows'[i].calls)
          PROVE  c[1] <= replies' /\ (pc' = "reply" => c[1] < replies')
      <3>1. rows'[i].calls # <<>>
        BY DEF ToSet
      <3>2. i \in 1 .. Len(rows) /\ rows'[i] = rows[i]
        BY <1>1, <1>6, <3>1, NotedKeeps DEF Loose
      <3> QED
        BY <1>4, <3>2
    <2> QED
      BY <1>5, <2>1, <2>2 DEF IdsInv
  <1>7. CASE StoreReply(TRUE)
    <2>1. PICK m \in Messages : /\ m.calls = reply.calls /\ rows' = Append(rows, m) /\ pc = "reply"
                                /\ UNCHANGED replies /\ Open'
      BY <1>7, StoredReply
    <2>2. pc' # "reply"
      BY <2>1 DEF Open, Answering
    <2>3. /\ Len(rows') = Len(rows) + 1 /\ rows'[Len(rows) + 1] = m
          /\ \A i \in 1 .. Len(rows) : rows'[i] = rows[i]
      BY <1>1, <2>1, Appended
    <2>4. \A c \in ToSet(m.calls) : c[1] = replies
      BY <2>1 DEF IdsInv
    <2>5. ASSUME NEW i \in 1 .. Len(rows'), NEW c \in ToSet(rows'[i].calls)
          PROVE  c[1] <= replies' /\ (i \in 1 .. Len(rows) => c[1] # replies)
                 /\ (i \notin 1 .. Len(rows) => i = Len(rows) + 1 /\ c[1] = replies)
      <3>1. CASE i \in 1 .. Len(rows)
        <4>1. c \in ToSet(rows[i].calls)
          BY <2>3, <2>5, <3>1
        <4>2. c[1] < replies /\ c[1] \in Nat
          BY <2>1, <3>1, <4>1, IdsNumbered DEF IdsInv
        <4> QED
          BY <1>1, <2>1, <3>1, <4>2
      <3>2. CASE i \notin 1 .. Len(rows)
        <4>1. i = Len(rows) + 1
          BY <1>1, <2>3, <3>2
        <4>2. c[1] = replies
          BY <2>3, <2>4, <2>5, <4>1
        <4> QED
          BY <1>1, <2>1, <3>2, <4>1, <4>2
      <3> QED
        BY <3>1, <3>2
    <2>6. IdsDistinct(rows')
      <3> SUFFICES ASSUME NEW i \in 1 .. Len(rows'), NEW j \in 1 .. Len(rows'),
                          NEW c \in ToSet(rows'[i].calls) \cap ToSet(rows'[j].calls)
                   PROVE  i = j
        BY DEF IdsDistinct
      <3>1. i \in 1 .. Len(rows) <=> j \in 1 .. Len(rows)
        BY <2>5
      <3>2. CASE i \in 1 .. Len(rows)
        <4>1. j \in 1 .. Len(rows) /\ c \in ToSet(rows[i].calls) \cap ToSet(rows[j].calls)
          BY <2>3, <3>1, <3>2
        <4>2. IdsDistinct(rows)
          BY DEF IdsInv
        <4> QED
          BY <3>2, <4>1, <4>2 DEF IdsDistinct
      <3>3. CASE i \notin 1 .. Len(rows)
        BY <2>5, <3>1, <3>3
      <3> QED
        BY <3>2, <3>3
    <2> QED
      BY <2>2, <2>5, <2>6 DEF IdsInv
  <1>8. CASE StoreResult(TRUE)
    <2>1. PICK m \in Messages : /\ m.calls = <<>> /\ rows' = Append(rows, m) /\ Answering
                                /\ UNCHANGED replies
                                /\ (pc' = pc \/ pc' \in {"turnEnd", "loop"})
      <3>1. Results \in Nat /\ Len(reply.calls) \in Nat
        BY LoopMessages
      <3> QED
        BY <1>8, <3>1, StoredResult
    <2>2. pc' # "reply"
      BY <2>1 DEF Answering
    <2>3. /\ Len(rows') = Len(rows) + 1 /\ rows'[Len(rows) + 1] = m
          /\ \A i \in 1 .. Len(rows) : rows'[i] = rows[i]
      BY <1>1, <2>1, Appended
    <2>4. ASSUME NEW i \in 1 .. Len(rows'), NEW c \in ToSet(rows'[i].calls)
          PROVE  i \in 1 .. Len(rows) /\ c \in ToSet(rows[i].calls)
      <3>1. rows'[i].calls # <<>>
        BY DEF ToSet
      <3>2. i # Len(rows) + 1
        BY <2>1, <2>3, <3>1
      <3>3. i \in 1 .. Len(rows)
        BY <1>1, <2>3, <3>2
      <3> QED
        BY <2>3, <3>3
    <2>5. IdsDistinct(rows')
      <3> SUFFICES ASSUME NEW i \in 1 .. Len(rows'), NEW j \in 1 .. Len(rows'),
                          NEW c \in ToSet(rows'[i].calls) \cap ToSet(rows'[j].calls)
                   PROVE  i = j
        BY DEF IdsDistinct
      <3>1. /\ i \in 1 .. Len(rows) /\ c \in ToSet(rows[i].calls)
            /\ j \in 1 .. Len(rows) /\ c \in ToSet(rows[j].calls)
        BY <2>4
      <3>2. IdsDistinct(rows)
        BY DEF IdsInv
      <3> QED
        BY <3>1, <3>2 DEF IdsDistinct
    <2> QED
      BY <1>4, <2>2, <2>4, <2>5 DEF IdsInv
  <1> QED
    BY <1>6, <1>7, <1>8, RowsGrow

LEMMA RepairKept ==
  ASSUME LoopTypes, RowsInv, RepairInv, [Next]_vars
  PROVE  RepairInv'
  <1> SUFFICES ASSUME causes' = {} PROVE IdsInv' /\ CallsMet(rows', Answered', TRUE)
    BY DEF RepairInv
  <1>1. rows \in Seq(Messages) /\ Len(rows) \in Nat /\ reply.calls \in Seq(Ids) /\ Len(reply.calls) \in Nat
        /\ Results \in Nat /\ TRUE \in BOOLEAN
    BY LoopMessages, LenProperties DEF LoopTypes, ConversationTypes
  <1>2. IdsInv /\ CallsMet(rows, Answered, TRUE)
    BY CountSteps DEF RepairInv
  <1>3. IdsInv'
    BY <1>2, IdsKept
  <1>4. CASE StoreReply(TRUE)
    <2>1. PICK m \in Messages : /\ m.role = "assistant" /\ rows' = Append(rows, m) /\ pc = "reply"
                                /\ ~Answering'
      BY <1>4, StoredReply
    <2>2. Answered = 0 /\ Answered' = 0
      BY <2>1 DEF Answered, Answering
    <2>3. PICK ms \in Seq(Messages) : ms = Append(rows, m) /\ Len(ms) = Len(rows) + 1
      BY <1>1, Appended
    <2>4. CallsMet(ms, Len(rows) + 1, TRUE) /\ OpenAt(ms, m.calls, 0)
      BY <1>1, <1>2, <2>1, <2>2, <2>3, CallAppended
    <2>5. CallsMet(ms, Len(ms) - 0, TRUE) /\ m.calls \in Seq(Ids) /\ 0 \in Nat
      <3>1. Len(ms) - 0 = Len(rows) + 1 /\ m.calls \in Seq(Ids)
        BY <1>1, <2>3, MessageType
      <3> QED
        BY <2>4, <3>1
    <2>6. CallsMet(ms, 0, TRUE)
      BY <2>4, <2>5, Closed
    <2> QED
      BY <1>3, <2>1, <2>2, <2>3, <2>6
  <1>5. CASE StoreResult(TRUE)
    <2>1. PICK m \in Messages : /\ m.role = "tool" /\ m.id = reply.calls[Results + 1]
                                /\ rows' = Append(rows, m) /\ Answering /\ Open
                                /\ IF Results + 1 < Len(reply.calls) THEN Answering' /\ Results' = Results + 1
                                   ELSE pc' \in {"turnEnd", "loop"}
      BY <1>5, StoredResult
    <2>2. PICK k \in Nat : k = Results
      BY <1>1
    <2>3. k < Len(reply.calls) /\ OpenAt(rows, reply.calls, k)
      BY <2>1, <2>2, LoopMessages DEF RowsInv
    <2>4. CallsMet(rows, Len(rows) - k, TRUE)
      BY <1>2, <2>1, <2>2 DEF Answered
    <2>5. PICK ms \in Seq(Messages) : ms = Append(rows, m) /\ Len(ms) = Len(rows) + 1
      BY <1>1, Appended
    <2>6. CallsMet(ms, Len(rows) - k, TRUE) /\ OpenAt(ms, reply.calls, k + 1)
      BY <1>1, <2>1, <2>2, <2>3, <2>4, <2>5, ResultAppended
    <2>7. Len(ms) - (k + 1) = Len(rows) - k /\ k + 1 \in Nat
      BY <1>1, <2>5
    <2>8. CASE k + 1 < Len(reply.calls)
      <3>1. Answered' = Len(rows) - k
        BY <2>1, <2>2, <2>5, <2>7, <2>8 DEF Answered
      <3> QED
        BY <1>3, <2>1, <2>5, <2>6, <3>1
    <2>9. CASE ~(k + 1 < Len(reply.calls))
      <3>1. k + 1 = Len(reply.calls)
        BY <1>1, <2>3, <2>9
      <3>2. Answered' = 0
        <4>1. pc' \in {"turnEnd", "loop"}
          BY <2>1, <2>2, <2>9
        <4> QED
          BY <4>1 DEF Answered, Answering
      <3>3. CallsMet(ms, Len(ms) - (k + 1), TRUE)
        BY <2>6, <2>7
      <3>4. CallsMet(ms, 0, TRUE)
        BY <1>1, <2>6, <2>7, <3>1, <3>3, Closed
      <3> QED
        BY <1>3, <2>1, <2>5, <3>2, <3>4
    <2> QED
      BY <2>8, <2>9
  <1>6. CASE Noted(rows, rows') /\ ~StoreReply(TRUE) /\ ~StoreResult(TRUE)
    <2>1. \A b : CallsMet(rows, b, TRUE) => CallsMet(rows', b, TRUE)
      BY <1>1, <1>6, NotedKeeps
    <2>2. CASE Answering'
      <3>1. Open'
        BY <2>2 DEF Open
      <3>2. Open /\ rows' = rows /\ Results' = Results
        BY <1>6, <3>1, OpenSteps
      <3>3. Answered' = Len(rows) - Results
        BY <2>2, <3>2 DEF Answered
      <3>4. Answered = Len(rows) - Results \/ Answered = 0
        BY DEF Answered
      <3>5. CallsMet(rows, Len(rows) - Results, TRUE)
        BY <1>2, <3>4 DEF CallsMet
      <3> QED
        BY <1>3, <3>2, <3>3, <3>5
    <2>3. CASE ~Answering' /\ ~Answering
      <3>1. Answered' = 0 /\ Answered = 0
        BY <2>3 DEF Answered
      <3> QED
        BY <1>2, <1>3, <2>1, <3>1
    <2>4. CASE ~Answering' /\ Answering
      <3>1. rows' = rows /\ Results = 0
        BY <1>6, <2>4, AnsweringEnds
      <3>2. Answered' = 0 /\ Answered = Len(rows) - 0
        BY <2>4, <3>1 DEF Answered
      <3>3. OpenAt(rows, reply.calls, 0)
        BY <2>4, <3>1 DEF RowsInv, Open
      <3>4. CallsMet(rows, 0, TRUE)
        BY <1>1, <1>2, <3>2, <3>3, Closed
      <3> QED
        BY <1>3, <3>1, <3>2, <3>4
    <2> QED
      BY <2>2, <2>3, <2>4
  <1> QED
    BY <1>4, <1>5, <1>6, RowsGrow

-----------------------------------------------------------------------------
(* The conversations that are sent are complete.                           *)

Sending == pc \in {"loop", "call", "reply", "turnEnd"}

(* A turn goes on with the conversation it has, or after all results of a  *)
(* reply; a reply that is dropped halfway had no calls, or is a cause.     *)
LEMMA SendingSteps ==
  ASSUME LoopTypes, [Next]_vars, Sending', causes' = {}
  PROVE  \/ Sending \/ StoreResult(TRUE)
         \/ (\E n \in 0 .. 1, noted, ok \in BOOLEAN : SessionStart(n, noted, ok))
         \/ Open /\ Results = 0 /\ Len(reply.calls) = 0
  <1>1. /\ reply.calls \in Seq(Ids) /\ reply.names \in Seq(STRING)
        /\ Len(reply.calls) = Len(reply.names)
    BY DEF LoopTypes, ReplyTypes
  <1>2. ASSUME reply.names = <<>> \/ reply.calls = <<>> PROVE Len(reply.calls) = 0
    BY <1>1, <1>2
  <1>3. ASSUME \/ (\E pre \in BOOLEAN : StartRun(pre)) \/ (\E n \in 0 .. 2 : SlashCommand(n))
               \/ SetupFails \/ CallFails
        PROVE  ~Sending'
    BY <1>3 DEF StartRun, SlashCommand, SetupFails, CallFails, localEmitError, Sending
  <1>4. ASSUME \/ (\E n \in 0 .. 1 : LoopTop(n)) \/ ContextOverflow
               \/ (\E stage \in Stages : PromptTooLong(stage)) \/ InvalidResponseId
               \/ BudgetExceeded \/ (\E ok \in BOOLEAN : StoreReply(ok))
               \/ (\E n \in 0 .. 1, noted \in BOOLEAN, stage \in Stages : EndToolTurn(n, noted, stage))
        PROVE  Sending
    BY <1>4 DEF LoopTop, ContextOverflow, PromptTooLong, InvalidResponseId, BudgetExceeded, StoreReply,
                EndToolTurn, Sending
  <1>5. ASSUME NEW finish \in Finishes, NEW text \in BOOLEAN, NEW textual \in BOOLEAN,
               NEW fallback \in BOOLEAN, NEW rid \in BOOLEAN, NEW names \in Batches,
               Reply(finish, text, names, textual, fallback, rid)
        PROVE  Sending
    BY <1>5 DEF Reply, Sending
  <1>6. ASSUME NEW ok \in BOOLEAN, StoreResult(ok) PROVE StoreResult(TRUE) \/ ~Sending'
    <2>1. CASE ok = TRUE
      BY <1>6, <2>1
    <2>2. CASE ok = FALSE
      BY <1>6, <2>2 DEF StoreResult, emitError, Sending
    <2> QED
      BY <2>1, <2>2
  <1>7. ASSUME NEW failed \in BOOLEAN, NEW escalated \in BOOLEAN, ExecuteBatch(failed, escalated)
        PROVE  Open /\ Results = 0 /\ Len(reply.calls) = 0
    <2>1. pc = "tools"
      BY <1>7 DEF ExecuteBatch
    <2>2. reply.names = <<>>
      BY <1>7 DEF ExecuteBatch, emitError, Sending
    <2> QED
      BY <1>2, <2>1, <2>2 DEF Open, Answering, Results
  <1>8. ASSUME LengthRetry \/ BudgetNudge PROVE Open /\ Results = 0 /\ Len(reply.calls) = 0
    <2>1. pc \in {"length", "stop"} /\ causes' = causes \cup Truncated
      BY <1>8 DEF LengthRetry, BudgetNudge
    <2>2. Truncated = {}
      BY <2>1
    <2>3. reply.calls = <<>>
      BY <2>2 DEF Truncated
    <2> QED
      BY <1>2, <2>1, <2>3 DEF Open, Answering, Results
  <1>9. ASSUME RepeatedBatch \/ LengthGivesUp
               \/ (\E n \in 0 .. 1, noted \in BOOLEAN : CompleteRun(n, noted))
               \/ (\E noted \in BOOLEAN : RunEndHooks(noted))
               \/ (\E ok \in BOOLEAN : Finalize(ok)) \/ EmptyBatchPanics \/ Crash
        PROVE  ~Sending'
    BY <1>9 DEF RepeatedBatch, LengthGivesUp, CompleteRun,
                RunEndHooks, Finalize, EmptyBatchPanics, Crash, Dies, Return,
                emitError, Sending
  <1>10. ASSUME ContextEnds \/ Done \/ UNCHANGED vars PROVE Sending
    BY <1>10 DEF ContextEnds, Done, vars, Sending
  <1>11. ASSUME NEW n \in 0 .. 1, NEW noted \in BOOLEAN, NEW ok \in BOOLEAN, SessionStart(n, noted, ok)
         PROVE  \E n1 \in 0 .. 1, noted1, ok1 \in BOOLEAN : SessionStart(n1, noted1, ok1)
    BY <1>11
  <1> HIDE DEF LoopTypes, Sending, Open, Results
  <1> QED
    BY <1>3, <1>4, <1>5, <1>6, <1>7, <1>8, <1>9, <1>10, <1>11 DEF Next, Step

(* A complete conversation without results makes no calls: a compaction    *)
(* leaves it complete.                                                     *)
LEMMA CompactedComplete ==
  ASSUME NEW ms \in Seq(Messages), NEW stage \in Stages, CallsMet(ms, 0, FALSE),
         \A i \in 1 .. Len(ms) : ms[i].role # "tool"
  PROVE  /\ Grounded(ReactiveCompact(stage, ms))
         /\ CallsMet(ReactiveCompact(stage, ms), 0, FALSE)
  <1>1. Len(ms) \in Nat
    BY LenProperties
  <1>2. ASSUME NEW i \in 1 .. Len(ms) PROVE Loose(ms[i])
    <2>1. ms[i] \in Messages
      BY ElementOfSeq
    <2>2. ms[i].role # "tool"
      OBVIOUS
    <2>3. SUFFICES ASSUME ms[i].calls # <<>> PROVE FALSE
      BY <2>2 DEF Loose
    <2>4. BlockAt(ms, i) /\ Len(ms[i].calls) > 0 /\ Len(ms[i].calls) \in Nat
      BY <1>1, <2>1, <2>3, MessageType DEF CallsMet
    <2>5. i + 1 <= Len(ms) /\ ms[i + 1].role = "tool"
      BY <2>4 DEF BlockAt
    <2> QED
      BY <1>1, <2>5
  <1>3. PICK new : new = ReactiveCompact(stage, ms)
    OBVIOUS
  <1>4. \A i \in 1 .. Len(new) : Loose(new[i])
    BY <1>2, <1>3, CompactedFrom
  <1>5. Grounded(new) /\ CallsMet(new, 0, FALSE)
    BY <1>4 DEF Grounded, CallsMet, Loose
  <1> QED
    BY <1>3, <1>5

SentInv ==
  causes = {} =>
    /\ Sending => Grounded(msgs) /\ CallsMet(msgs, 0, FALSE)
    /\ Open => Grounded(msgs) /\ CallsMet(msgs, Len(msgs) - Results, FALSE)

LEMMA SessionComplete ==
  ASSUME LoopTypes, RowsInv, RepairInv, causes' = {},
         NEW n \in 0 .. 1, NEW noted \in BOOLEAN, NEW ok \in BOOLEAN, SessionStart(n, noted, ok)
  PROVE  Grounded(msgs') /\ CallsMet(msgs', 0, FALSE)
  <1>1. /\ pc = "setup" /\ causes = {}
        /\ ~(Len(rows) > MaxHistoryMessages /\ Window[1].role = "tool")
    <2>1. pc = "setup" /\ causes' = causes \cup (IF Len(rows) > MaxHistoryMessages /\ Window[1].role = "tool"
                                                 THEN {"window"} ELSE {})
      BY DEF SessionStart
    <2> QED
      BY <2>1
  <1>2. IdsDistinct(rows) /\ CallsMet(rows, 0, TRUE) /\ Grounded(rows)
    <2>1. Answered = 0
      BY <1>1 DEF Answered, Answering
    <2> QED
      BY <1>1, <2>1 DEF RepairInv, RowsInv, IdsInv
  <1>3. /\ rows \in Seq(Messages) /\ stored \in BOOLEAN
        /\ stored => rows # <<>> /\ Loose(rows[Len(rows)])
    BY <1>1 DEF LoopTypes, ConversationTypes, ScalarTypes, StoredMessage
  <1>4. Grounded(History) /\ CallsMet(History, 0, FALSE)
    BY <1>1, <1>2, <1>3, HistoryCompletes
  <1> QED
    BY <1>4, SessionNotes, NotedKeeps

LEMMA SendingComplete ==
  ASSUME LoopTypes, RowsInv, RepairInv, SentInv, [Next]_vars, Sending', causes' = {}
  PROVE  Grounded(msgs') /\ CallsMet(msgs', 0, FALSE)
  <1>1. /\ msgs \in Seq(Messages) /\ Len(msgs) \in Nat /\ reply.calls \in Seq(Ids)
        /\ Len(reply.calls) \in Nat /\ Results \in Nat /\ causes = {} /\ FALSE \in BOOLEAN
    BY LoopMessages, LenProperties, CountSteps DEF LoopTypes, ConversationTypes
  <1>2. CASE \E n \in 0 .. 1, noted, ok \in BOOLEAN : SessionStart(n, noted, ok)
    BY <1>2, SessionComplete
  <1>3. CASE StoreResult(TRUE)
    <2>1. PICK m \in Messages : /\ m.role = "tool" /\ m.id = reply.calls[Results + 1]
                                /\ msgs' = Append(msgs, m) /\ Open
                                /\ ~(Results + 1 < Len(reply.calls))
      <3>1. Open' => ~Sending'
        BY DEF Open, Answering, Sending
      <3> QED
        BY <1>3, <3>1, StoredResult
    <2>2. Answering
      BY <1>3 DEF StoreResult, Answering
    <2>3. PICK k \in Nat : k = Results
      BY <1>1
    <2>4. k < Len(reply.calls) /\ OpenAt(msgs, reply.calls, k) /\ k + 1 = Len(reply.calls) /\ k + 1 \in Nat
      <3>1. Results < Len(reply.calls)
        BY <2>2, LoopMessages
      <3> QED
        BY <1>1, <2>1, <2>3, <3>1 DEF RowsInv
    <2>5. Grounded(msgs) /\ CallsMet(msgs, Len(msgs) - k, FALSE)
      BY <1>1, <2>1, <2>3 DEF SentInv
    <2>6. PICK ms \in Seq(Messages) : ms = Append(msgs, m) /\ Len(ms) = Len(msgs) + 1
      BY <1>1, Appended
    <2>7. /\ CallsMet(ms, Len(msgs) - k, FALSE) /\ OpenAt(ms, reply.calls, k + 1) /\ Grounded(ms)
      BY <1>1, <2>1, <2>3, <2>4, <2>5, <2>6, ResultAppended
    <2>8. Len(ms) - (k + 1) = Len(msgs) - k
      BY <1>1, <2>6
    <2>9. CallsMet(ms, Len(ms) - (k + 1), FALSE)
      BY <2>7, <2>8
    <2>10. CallsMet(ms, 0, FALSE)
      BY <1>1, <2>4, <2>7, <2>9, Closed
    <2> QED
      BY <2>1, <2>6, <2>7, <2>10
  <1>4. CASE ~StoreResult(TRUE) /\ ~(\E n \in 0 .. 1, noted, ok \in BOOLEAN : SessionStart(n, noted, ok))
    <2>1. Grounded(msgs) /\ CallsMet(msgs, 0, FALSE)
      <3>1. CASE Sending
        BY <1>1, <3>1 DEF SentInv
      <3>2. CASE Open /\ Results = 0 /\ Len(reply.calls) = 0
        <4>1. Grounded(msgs) /\ CallsMet(msgs, Len(msgs) - 0, FALSE) /\ OpenAt(msgs, reply.calls, 0)
          BY <1>1, <3>2 DEF SentInv, RowsInv
        <4>2. CallsMet(msgs, 0, FALSE)
          BY <1>1, <3>2, <4>1, Closed
        <4> QED
          BY <4>1, <4>2
      <3> QED
        BY <1>4, <3>1, <3>2, SendingSteps
    <2>2. Noted(msgs, msgs') => Grounded(msgs') /\ CallsMet(msgs', 0, FALSE)
      BY <1>1, <2>1, NotedKeeps
    <2>3. ~StoreReply(TRUE)
      <3>1. SUFFICES ASSUME StoreReply(TRUE) PROVE FALSE
        OBVIOUS
      <3>2. Open'
        BY <3>1, StoredReply
      <3> QED
        BY <3>2 DEF Open, Answering, Sending
    <2>4. ASSUME NEW stage \in Stages, PromptTooLong(stage)
          PROVE  Grounded(msgs') /\ CallsMet(msgs', 0, FALSE)
      <3>1. /\ msgs' = ReactiveCompact(stage, msgs)
            /\ causes' = causes \cup (IF \E i \in DOMAIN msgs : msgs[i].role = "tool"
                                      THEN {"compaction"} ELSE {})
        BY <2>4 DEF PromptTooLong, Compacted
      <3>2. ~(\E i \in DOMAIN msgs : msgs[i].role = "tool")
        BY <3>1
      <3>3. \A i \in 1 .. Len(msgs) : msgs[i].role # "tool"
        BY <1>1, <3>2, LenProperties
      <3> QED
        BY <1>1, <2>1, <3>1, <3>3, CompactedComplete
    <2>5. ~CompactedTurn /\ pc' # "idle"
      BY DEF CompactedTurn, Sending
    <2> QED
      BY <1>4, <2>2, <2>3, <2>4, <2>5, MessagesChange
  <1> QED
    BY <1>2, <1>3, <1>4

LEMMA OpenComplete ==
  ASSUME LoopTypes, RowsInv, SentInv, [Next]_vars, Open', causes' = {}
  PROVE  Grounded(msgs') /\ CallsMet(msgs', Len(msgs') - Results', FALSE)
  <1>1. /\ msgs \in Seq(Messages) /\ Len(msgs) \in Nat /\ reply.calls \in Seq(Ids)
        /\ Len(reply.calls) \in Nat /\ Results \in Nat /\ causes = {} /\ FALSE \in BOOLEAN
    BY LoopMessages, LenProperties, CountSteps DEF LoopTypes, ConversationTypes
  <1>2. CASE StoreReply(TRUE)
    <2>1. PICK m \in Messages : /\ m.role = "assistant" /\ msgs' = Append(msgs, m) /\ pc = "reply"
                                /\ Results' = 0
      BY <1>2, StoredReply
    <2>2. Grounded(msgs) /\ CallsMet(msgs, 0, FALSE)
      BY <1>1, <2>1 DEF SentInv, Sending
    <2>3. Grounded(Append(msgs, m)) /\ CallsMet(Append(msgs, m), Len(msgs) + 1, FALSE)
      BY <1>1, <2>1, <2>2, GroundedStays, CallAppended
    <2>4. Len(msgs') - Results' = Len(msgs) + 1
      BY <1>1, <2>1, Appended
    <2> QED
      BY <2>1, <2>3, <2>4
  <1>3. CASE StoreResult(TRUE)
    <2>1. PICK m \in Messages : /\ m.role = "tool" /\ m.id = reply.calls[Results + 1]
                                /\ msgs' = Append(msgs, m) /\ Answering /\ Open
                                /\ Results' = Results + 1
      BY <1>1, <1>3, StoredResult
    <2>2. PICK k \in Nat : k = Results
      BY <1>1
    <2>3. k < Len(reply.calls) /\ OpenAt(msgs, reply.calls, k)
      BY <2>1, <2>2, LoopMessages DEF RowsInv
    <2>4. Grounded(msgs) /\ CallsMet(msgs, Len(msgs) - k, FALSE)
      BY <1>1, <2>1, <2>2 DEF SentInv
    <2>5. Grounded(Append(msgs, m)) /\ CallsMet(Append(msgs, m), Len(msgs) - k, FALSE)
      BY <1>1, <2>1, <2>2, <2>3, <2>4, ResultAppended
    <2>6. Len(msgs') - Results' = Len(msgs) - k
      BY <1>1, <2>1, <2>2, Appended
    <2> QED
      BY <2>1, <2>5, <2>6
  <1>4. CASE Open /\ UNCHANGED <<rows, msgs, reply>> /\ Results' = Results
    <2>1. Grounded(msgs) /\ CallsMet(msgs, Len(msgs) - Results, FALSE)
      BY <1>1, <1>4 DEF SentInv
    <2>2. msgs' = msgs /\ Results' = Results
      BY <1>4
    <2> QED
      BY <2>1, <2>2
  <1> QED
    BY <1>2, <1>3, <1>4, OpenSteps

LEMMA SentKept ==
  ASSUME LoopTypes, RowsInv, RepairInv, SentInv, [Next]_vars
  PROVE  SentInv'
  BY SendingComplete, OpenComplete DEF SentInv

(* A conversation is sent with a result for every call and a call for      *)
(* every result, unless one of the five causes applies: whatever failed,   *)
(* was cancelled or crashed before, loadHistory repairs, and whatever a    *)
(* run adds stays complete.                                                *)
THEOREM SentIsWellFormed == Spec => []RequestsWellFormed
  <1>1. Init => RepairInv /\ SentInv
    <2>1. SUFFICES ASSUME Init PROVE RepairInv /\ SentInv
      OBVIOUS
    <2>2. Len(rows) = 0 /\ pc = "idle"
      BY <2>1 DEF Init
    <2>3. RepairInv
      BY <2>2 DEF RepairInv, IdsInv, IdsDistinct, CallsMet
    <2>4. SentInv
      BY <2>2 DEF SentInv, Sending, Open, Answering
    <2> QED
      BY <2>3, <2>4
  <1>2. LoopTypes /\ RowsInv /\ RepairInv /\ SentInv /\ [Next]_vars => RepairInv' /\ SentInv'
    BY RepairKept, SentKept
  <1>3. LoopTypes /\ SentInv => RequestsWellFormed
    <2>1. SUFFICES ASSUME LoopTypes, SentInv, pc = "call", causes = {} PROVE WellFormed(msgs)
      BY DEF RequestsWellFormed
    <2>2. msgs \in Seq(Messages) /\ Grounded(msgs) /\ CallsMet(msgs, 0, FALSE)
      BY <2>1 DEF LoopTypes, ConversationTypes, SentInv, Sending
    <2> QED
      BY <2>2, CompleteIsWellFormed
  <1> QED
    BY <1>1, <1>2, <1>3, RowsAlways, LoopTyping, PTL DEF Spec

-----------------------------------------------------------------------------
(* The loop keeps the session's log.                                       *)

LEMMA NotesAdded ==
  ASSUME NEW ms \in Seq(Messages), rows = ms
  PROVE  /\ rows' = ms => Session!AddsNotes(1)
         /\ rows' \in Notes1(ms) => Session!AddsNotes(1)
         /\ Noted(ms, rows') => Session!AddsNotes(2)
  <1>1. Len(ms) \in Nat
    BY LenProperties
  <1>2. ASSUME rows' = ms PROVE Session!AddsNotes(1) /\ Session!AddsNotes(2)
    BY <1>1, <1>2 DEF Session!AddsNotes, Session!Grows
  <1>3. ASSUME rows' \in Notes1(ms) PROVE Session!AddsNotes(1) /\ Session!AddsNotes(2)
    <2>1. /\ Len(rows') = Len(ms) + 1 /\ \A i \in 1 .. Len(ms) : rows'[i] = ms[i]
          /\ Loose(rows'[Len(rows')])
      BY <1>3, NotedOnce
    <2> QED
      BY <1>1, <2>1 DEF Session!AddsNotes, Session!Grows, Loose
  <1>4. ASSUME NEW s \in Notes1(ms), rows' \in Notes1(s) PROVE Session!AddsNotes(2)
    <2>1. s \in Seq(Messages) /\ Len(s) = Len(ms) + 1
      BY NotedOnce
    <2>2. Len(rows') = Len(ms) + 2
      BY <1>1, <1>4, <2>1, NotedOnce
    <2>3. Noted(ms, rows')
      BY <1>4 DEF Noted
    <2>4. /\ \A i \in 1 .. Len(ms) : rows'[i] = ms[i]
          /\ \A i \in 1 .. Len(rows') : i \notin 1 .. Len(ms) => Loose(rows'[i])
      BY <2>3, NotedKeeps
    <2> QED
      BY <1>1, <2>2, <2>4 DEF Session!AddsNotes, Session!Grows, Loose
  <1> QED
    BY <1>2, <1>3, <1>4 DEF Noted

(* The steps that change neither the rows nor what is pending.             *)
LEMMA LogUnchanged ==
  ASSUME UNCHANGED <<rows, Pending, Phase, completes>>
  PROVE  UNCHANGED Session!vars
  BY DEF Session!vars

(* The first of the pending calls, and the others.                         *)
LEMMA PendingCalls ==
  ASSUME NEW calls \in Seq(Ids), NEW k \in 1 .. Len(calls)
  PROVE  /\ SubSeq(calls, k, Len(calls)) # <<>>
         /\ Head(SubSeq(calls, k, Len(calls))) = calls[k]
         /\ Tail(SubSeq(calls, k, Len(calls))) = SubSeq(calls, k + 1, Len(calls))
         /\ SubSeq(calls, 1, Len(calls)) = calls
         /\ SubSeq(calls, Len(calls) + 1, Len(calls)) = <<>>
  <1>1. Len(calls) \in Nat /\ \A i \in 1 .. Len(calls) : calls[i] \in Ids
    BY LenProperties, ElementOfSeq
  <1>2. SubSeq(calls, 1, Len(calls)) = calls
    BY SubSeqFull
  <1>3. SubSeq(calls, Len(calls) + 1, Len(calls)) = <<>>
    BY <1>1, SubSeqEmpty
  <1> DEFINE s == SubSeq(calls, k, Len(calls))
             t == SubSeq(calls, k + 1, Len(calls))
  <1>4. /\ s \in Seq(Ids) /\ Len(s) = Len(calls) - k + 1
        /\ \A i \in 1 .. Len(calls) - k + 1 : s[i] = calls[k + i - 1]
    BY <1>1, SubSeqProperties
  <1>5. /\ t \in Seq(Ids) /\ Len(t) = Len(calls) - k
        /\ \A i \in 1 .. Len(calls) - k : t[i] = calls[k + i]
    <2>1. CASE k < Len(calls)
      BY <1>1, <2>1, SubSeqProperties
    <2>2. CASE k = Len(calls)
      BY <1>1, <1>3, <2>2, EmptySeq
    <2> QED
      BY <1>1, <2>1, <2>2
  <1> HIDE DEF s, t
  <1>6. s # <<>> /\ Head(s) = calls[k]
    BY <1>1, <1>4
  <1>7. /\ Tail(s) \in Seq(Ids) /\ Len(Tail(s)) = Len(s) - 1
        /\ \A i \in 1 .. Len(s) - 1 : Tail(s)[i] = s[i + 1]
    BY <1>4, <1>6, HeadTailProperties
  <1>8. \A i \in 1 .. Len(Tail(s)) : Tail(s)[i] = t[i]
    <2> TAKE i \in 1 .. Len(Tail(s))
    <2>1. i \in 1 .. Len(calls) - k /\ i + 1 \in 1 .. Len(calls) - k + 1 /\ k + (i + 1) - 1 = k + i
      BY <1>1, <1>4, <1>7
    <2>2. Tail(s)[i] = s[i + 1]
      BY <1>1, <1>4, <1>7, <2>1
    <2>3. s[i + 1] = calls[k + i] /\ t[i] = calls[k + i]
      BY <1>4, <1>5, <2>1
    <2> QED
      BY <2>2, <2>3
  <1>9. Tail(s) = t
    <2>1. Len(Tail(s)) = Len(t)
      BY <1>1, <1>4, <1>5, <1>7
    <2> QED
      BY <1>5, <1>7, <1>8, <2>1, SeqEqual
  <1> QED
    BY <1>2, <1>3, <1>6, <1>9 DEF s, t

(* A run that has recorded an error has not announced its end.             *)
ErrorInv == lastError => pc = "finalize" /\ ~completed

LEMMA ErrorKept ==
  ASSUME EndInv, ErrorInv, [Next]_vars
  PROVE  ErrorInv'
  <1>1. ASSUME UNCHANGED <<completed, lastError>>, pc # "finalize" PROVE ErrorInv'
    BY <1>1 DEF ErrorInv
  <1>2. ASSUME pc \notin {"idle", "runEnd", "finalize"}, pc' = "finalize", UNCHANGED completed
        PROVE  ErrorInv'
    BY <1>2 DEF EndInv, ErrorInv
  <1>3. ASSUME pc # "finalize", UNCHANGED lastError PROVE ErrorInv'
    BY <1>3 DEF ErrorInv
  <1>4. ASSUME lastError' = FALSE PROVE ErrorInv'
    BY <1>4 DEF ErrorInv
  <1>5. ASSUME NEW n \in 0 .. 2, SlashCommand(n) PROVE ErrorInv'
    <2>1. pc = "setup" /\ pc' = "finalize"
      BY <1>5 DEF SlashCommand, localEmitError
    <2>2. UNCHANGED completed \/ UNCHANGED lastError
      BY <1>5 DEF SlashCommand
    <2> QED
      BY <1>2, <1>3, <2>1, <2>2
  <1>6. ASSUME NEW n \in 0 .. 1, NEW noted \in BOOLEAN, CompleteRun(n, noted) PROVE ErrorInv'
    <2>1. pc = "stop" /\ UNCHANGED lastError
      BY <1>6 DEF CompleteRun
    <2> QED
      BY <1>3, <2>1
  <1>14. ASSUME NEW noted \in BOOLEAN, RunEndHooks(noted) PROVE ErrorInv'
    <2>1. pc = "runEnd" /\ UNCHANGED lastError
      BY <1>14 DEF RunEndHooks, endVars
    <2> QED
      BY <1>3, <2>1
  <1>7. ASSUME (\E ok \in BOOLEAN : Finalize(ok)) \/ EmptyBatchPanics \/ Crash PROVE ErrorInv'
    BY <1>4, <1>7 DEF Finalize, EmptyBatchPanics, Crash, Dies, Return
  <1>8. ASSUME \/ SetupFails \/ CallFails \/ BudgetExceeded \/ LengthGivesUp
        PROVE  ErrorInv'
    <2>1. pc \notin {"idle", "runEnd", "finalize"} /\ pc' = "finalize" /\ UNCHANGED completed
      BY <1>8 DEF SetupFails, CallFails, BudgetExceeded, LengthGivesUp, localEmitError, emitError
    <2> QED
      BY <1>2, <2>1
  <1>9. ASSUME \/ (\E n \in 0 .. 1, noted, ok \in BOOLEAN : SessionStart(n, noted, ok))
               \/ (\E n \in 0 .. 1 : LoopTop(n))
        PROVE  ErrorInv'
    <2>1. pc \notin {"idle", "runEnd", "finalize"} /\ UNCHANGED completed
      BY <1>9 DEF SessionStart, LoopTop
    <2>2. pc' = "finalize" \/ UNCHANGED lastError
      BY <1>9 DEF SessionStart, LoopTop, localEmitError, emitError
    <2> QED
      BY <1>1, <1>2, <2>1, <2>2
  <1>10. ASSUME \/ (\E pre \in BOOLEAN : StartRun(pre)) \/ ContextOverflow
                \/ (\E stage \in Stages : PromptTooLong(stage)) \/ InvalidResponseId
         PROVE  UNCHANGED <<completed, lastError>> /\ pc # "finalize"
    BY <1>10 DEF StartRun, ContextOverflow, PromptTooLong, InvalidResponseId, endVars
  <1>11. ASSUME \/ (\E ok \in BOOLEAN : StoreReply(ok)) \/ RepeatedBatch
                \/ (\E failed, escalated \in BOOLEAN : ExecuteBatch(failed, escalated))
                \/ (\E ok \in BOOLEAN : StoreResult(ok))
                \/ (\E n \in 0 .. 1, noted \in BOOLEAN, stage \in Stages : EndToolTurn(n, noted, stage))
                \/ LengthRetry \/ BudgetNudge
         PROVE  UNCHANGED <<completed, lastError>> /\ pc # "finalize"
    BY <1>11 DEF StoreReply, ReplyNotStored, RepeatedBatch, ExecuteBatch, StoreResult, EndToolTurn,
                 LengthRetry, BudgetNudge, emitError, endVars
  <1>12. ASSUME NEW finish \in Finishes, NEW text \in BOOLEAN, NEW textual \in BOOLEAN,
                NEW fallback \in BOOLEAN, NEW rid \in BOOLEAN, NEW names \in Batches,
                Reply(finish, text, names, textual, fallback, rid)
         PROVE  UNCHANGED <<completed, lastError>> /\ pc # "finalize"
    BY <1>12 DEF Reply, endVars
  <1>13. ASSUME ContextEnds \/ Done \/ UNCHANGED vars PROVE ErrorInv'
    <2>1. UNCHANGED <<pc, completed, lastError>>
      BY <1>13 DEF ContextEnds, Done, vars, endVars
    <2> QED
      BY <2>1 DEF ErrorInv
  <1> QED
    BY <1>1, <1>5, <1>6, <1>7, <1>8, <1>9, <1>10, <1>11, <1>12, <1>13, <1>14 DEF Next, Step

(* The steps of the loop, as those of the log.  While the loop runs, its   *)
(* end is not announced yet.                                               *)
LEMMA LogRunning ==
  ASSUME EndInv, pc \notin {"idle", "runEnd", "finalize"}
  PROVE  /\ Phase = "running" /\ ~completed /\ ~crashed /\ completes = 0
         /\ ~Answering /\ pc # "tools" => Pending = <<>>
         /\ pc = "tools" => Pending = reply.calls
         /\ Answering => Pending = SubSeq(reply.calls, next, Len(reply.calls))
  BY DEF EndInv, Phase, Pending, Answering

(* A step that stores at most notes and goes on, or fails.                 *)
LEMMA LogWrites ==
  ASSUME LoopTypes, EndInv, UNCHANGED <<completed, completes>>,
         pc \notin {"idle", "runEnd", "finalize"}, pc' # "idle", ~Answering, pc # "tools", ~Answering', pc' # "tools", Noted(rows, rows')
  PROVE  Session!Write
  <1>1. Session!AddsNotes(2)
    BY NotesAdded DEF LoopTypes, ConversationTypes
  <1>2. /\ Phase = "running" /\ ~completed /\ completes = 0 /\ Pending = <<>>
    BY LogRunning
  <1>3. Phase' \in {"running", "ending"}
    BY <1>2 DEF Phase
  <1>4. Pending' = <<>>
    BY DEF Pending, Answering
  <1> QED
    BY <1>1, <1>2, <1>3, <1>4 DEF Session!Write

LEMMA LogGivesUp ==
  ASSUME EndInv, UNCHANGED <<rows, completed, completes>>,
         pc \notin {"idle", "runEnd", "finalize"}, pc' = "finalize"
  PROVE  Session!GiveUp
  <1>1. Phase = "running" /\ ~completed
    BY LogRunning
  <1>2. Phase' = "ending" /\ Pending' = <<>>
    BY <1>1 DEF Phase, Pending
  <1> QED
    BY <1>1, <1>2 DEF Session!GiveUp

LEMMA LogBegins ==
  ASSUME LoopTypes, NEW pre \in BOOLEAN, StartRun(pre)
  PROVE  Session!Begin
  <1>1. /\ rows \in Seq(Messages) /\ pc = "idle" /\ pc' = "setup" /\ completes' = 0
        /\ rows' = rows \/ rows' = Append(rows, UserMessage)
    BY DEF LoopTypes, ConversationTypes, StartRun
  <1>2. UserMessage \in Messages /\ Loose(UserMessage) /\ ~UserMessage.rid
    BY UserMessageType DEF UserMessage, Message
  <1>3. Session!AddsNotes(1)
    BY <1>1, <1>2, OneNote, NotesAdded
  <1>4. Phase \in {"ready", "crashed"} /\ Phase' = "running" /\ Pending = <<>> /\ Pending' = <<>>
    BY <1>1 DEF Phase, Pending
  <1> QED
    BY <1>1, <1>3, <1>4 DEF Session!Begin

LEMMA LogAnnounces ==
  ASSUME LoopTypes, EndInv, AnnounceEnd, pc \in {"setup", "stop"}, pc' \in {"runEnd", "finalize"},
         Noted(rows, rows')
  PROVE  Session!Write
  <1>1. Session!AddsNotes(2)
    BY NotesAdded DEF LoopTypes, ConversationTypes
  <1>2. Phase = "running" /\ Pending = <<>>
    BY LogRunning DEF Answering
  <1>3. completes' = completes + 1 /\ completed'
    BY DEF AnnounceEnd
  <1>4. Phase' = "announced" /\ Pending' = <<>>
    BY <1>3 DEF Phase, Pending
  <1> QED
    BY <1>1, <1>2, <1>3, <1>4 DEF Session!Write

LEMMA LogRemarks ==
  ASSUME LoopTypes, EndInv, NEW noted \in BOOLEAN, RunEndHooks(noted)
  PROVE  Session!Remark \/ UNCHANGED Session!vars
  <1>1. /\ rows \in Seq(Messages) /\ pc = "runEnd" /\ pc' \in {"runEnd", "finalize"}
        /\ UNCHANGED <<completed, completes, crashed>>
        /\ rows' = rows \/ rows' = Append(rows, UserMessage)
    BY DEF LoopTypes, ConversationTypes, RunEndHooks, endVars
  <1>2. completed
    BY <1>1 DEF EndInv
  <1>3. Phase = "announced" /\ Phase' = "announced" /\ Pending = <<>> /\ Pending' = <<>>
    BY <1>1, <1>2 DEF Phase, Pending
  <1>4. CASE rows' = Append(rows, UserMessage)
    <2>1. PICK u \in Messages : u = UserMessage /\ u.role = "user" /\ u.calls = <<>>
      BY UserMessageType DEF UserMessage, Message, Loose
    <2>2. /\ Len(rows) \in Nat /\ Len(rows') = Len(rows) + 1 /\ rows'[Len(rows) + 1] = u
          /\ \A i \in 1 .. Len(rows) : rows'[i] = rows[i]
      BY <1>1, <1>4, <2>1, Appended
    <2>3. Session!Grows(1, 1) /\ Session!Newest = u
      BY <2>2 DEF Session!Grows, Session!Newest
    <2> QED
      BY <1>1, <1>3, <2>1, <2>3 DEF Session!Remark
  <1>5. CASE rows' = rows
    BY <1>1, <1>3, <1>5, LogUnchanged
  <1> QED
    BY <1>1, <1>4, <1>5

LEMMA LogEnds ==
  ASSUME LoopTypes, EndInv, ErrorInv, NEW ok \in BOOLEAN, Finalize(ok)
  PROVE  Session!End
  <1>1. /\ rows \in Seq(Messages) /\ pc = "finalize" /\ pc' = "idle" /\ crashed' = crashed
        /\ rows' = rows \/ rows' = Append(rows, AssistantMessage(TRUE, <<>>, FALSE))
        /\ completes' = completes + (IF completed THEN 0 ELSE 1)
    BY DEF LoopTypes, ConversationTypes, Finalize, Return
  <1>2. Pending = <<>> /\ Pending' = <<>> /\ Phase' = "ready" /\ ~crashed
    BY <1>1 DEF Phase, Pending, EndInv
  <1>3. completes \in Nat
    BY DEF LoopTypes, ScalarTypes
  <1>4. CASE ~completed
    <2>1. PICK a \in Messages : a = AssistantMessage(TRUE, <<>>, FALSE) /\ Loose(a) /\ ~a.rid
      BY AssistantMessageType, EmptySeq DEF Loose
    <2>2. Session!AddsNotes(1)
      BY <1>1, <2>1, OneNote, NotesAdded
    <2>3. Phase = "ending" /\ completes' = completes + 1
      BY <1>1, <1>4 DEF Phase
    <2> QED
      BY <1>2, <2>2, <2>3 DEF Session!End
  <1>5. CASE completed
    <2>1. Phase = "announced" /\ completes' = completes
      BY <1>1, <1>3, <1>5 DEF Phase
    <2>2. rows' = rows
      BY <1>5 DEF Finalize, ErrorInv
    <2> QED
      BY <1>2, <2>1, <2>2 DEF Session!End
  <1> QED
    BY <1>4, <1>5

LEMMA LogReplies ==
  ASSUME LoopTypes, EndInv, NEW ok \in BOOLEAN, StoreReply(ok)
  PROVE  Session!Reply \/ Session!GiveUp
  <1>1. pc = "reply" /\ UNCHANGED <<completed, completes, reply>>
    BY DEF StoreReply
  <1>2. CASE ok = TRUE
    <2>1. PICK m \in Messages : /\ m.role = "assistant" /\ m.calls = reply.calls
                                /\ rows' = Append(rows, m)
      BY <1>2, StoredReply
    <2>2. rows \in Seq(Messages)
      BY DEF LoopTypes, ConversationTypes
    <2>3. /\ Len(rows) \in Nat /\ Len(rows') = Len(rows) + 1 /\ rows'[Len(rows) + 1] = m
          /\ \A i \in 1 .. Len(rows) : rows'[i] = rows[i]
      BY <2>1, <2>2, Appended
    <2>4. Session!Grows(1, 1) /\ Session!Newest = m
      BY <2>3 DEF Session!Grows, Session!Newest
    <2>5. pc' \in {"tools", "length", "stop"}
      BY <1>2 DEF StoreReply
    <2>6. Phase = "running" /\ Pending = <<>>
      BY <1>1, LogRunning DEF Answering
    <2>7. Phase' = "running" /\ Pending' \in {m.calls, <<>>}
      BY <1>1, <2>1, <2>5 DEF Phase, Pending
    <2> QED
      BY <1>1, <2>1, <2>4, <2>6, <2>7 DEF Session!Reply
  <1>3. CASE ok = FALSE
    <2>1. UNCHANGED rows /\ pc' = "finalize"
      BY <1>3 DEF StoreReply, ReplyNotStored, emitError, convVars
    <2> QED
      BY <1>1, <2>1, LogGivesUp
  <1> QED
    BY <1>2, <1>3

LEMMA LogResults ==
  ASSUME LoopTypes, EndInv, NEW ok \in BOOLEAN, StoreResult(ok)
  PROVE  Session!Result \/ Session!GiveUp
  <1>1. Answering /\ pc \notin {"idle", "runEnd", "finalize"} /\ UNCHANGED <<completed, completes, reply>>
    BY DEF StoreResult, Answering
  <1>2. CASE ok = TRUE
    <2>1. PICK m \in Messages : /\ m.role = "tool" /\ m.id = reply.calls[Results + 1]
                                /\ rows' = Append(rows, m)
      BY <1>2, StoredResult
    <2>2. /\ rows \in Seq(Messages) /\ next \in 1 .. Len(reply.calls) /\ Results + 1 = next
          /\ reply.calls \in Seq(Ids) /\ Len(reply.calls) \in Nat
      BY <1>1, LoopMessages DEF LoopTypes, ConversationTypes, ReplyTypes
    <2>3. /\ Len(rows) \in Nat /\ Len(rows') = Len(rows) + 1 /\ rows'[Len(rows) + 1] = m
          /\ \A i \in 1 .. Len(rows) : rows'[i] = rows[i]
      BY <2>1, <2>2, Appended
    <2>4. Session!Grows(1, 1) /\ Session!Newest = m
      BY <2>3 DEF Session!Grows, Session!Newest
    <2>5. Phase = "running" /\ Pending = SubSeq(reply.calls, next, Len(reply.calls))
      BY <1>1, LogRunning
    <2>6. /\ next' = next + 1
          /\ IF next < Len(reply.calls) THEN pc' = pc ELSE pc' \in {"turnEnd", "loop"}
      BY <1>2 DEF StoreResult
    <2>7. Phase' = "running"
      BY <1>1, <2>6 DEF Phase, Answering
    <2>8. Pending' = SubSeq(reply.calls, next + 1, Len(reply.calls))
      <3>1. CASE next < Len(reply.calls)
        <4>1. pc' = "results" \/ pc' = "nudge"
          BY <1>1, <2>6, <3>1 DEF Answering
        <4>2. Pending' = SubSeq(reply.calls', next', Len(reply.calls'))
          BY <4>1 DEF Pending
        <4> QED
          BY <1>1, <2>6, <4>2
      <3>2. CASE next = Len(reply.calls)
        <4>1. pc' = "turnEnd" \/ pc' = "loop"
          BY <2>2, <2>6, <3>2
        <4>2. Pending' = <<>>
          BY <4>1 DEF Pending
        <4> QED
          BY <2>2, <3>2, <4>2, PendingCalls
      <3> QED
        BY <2>2, <3>1, <3>2
    <2>9. Pending # <<>> /\ Head(Pending) = m.id /\ Pending' = Tail(Pending)
      BY <2>1, <2>2, <2>5, <2>8, PendingCalls
    <2> QED
      BY <1>1, <2>1, <2>4, <2>5, <2>7, <2>9 DEF Session!Result
  <1>3. CASE ok = FALSE
    <2>1. UNCHANGED rows /\ pc' = "finalize"
      BY <1>3 DEF StoreResult, emitError, convVars
    <2> QED
      BY <1>1, <2>1, LogGivesUp
  <1> QED
    BY <1>2, <1>3

LEMMA LogTools ==
  ASSUME LoopTypes, EndInv,
         RepeatedBatch \/ (\E failed, escalated \in BOOLEAN : ExecuteBatch(failed, escalated))
  PROVE  Session!GiveUp \/ UNCHANGED Session!vars
  <1>1. pc = "tools" /\ UNCHANGED <<rows, reply, completed, completes, crashed>>
    BY DEF RepeatedBatch, ExecuteBatch, convVars, endVars
  <1>2. Phase = "running" /\ Pending = reply.calls
    BY <1>1, LogRunning
  <1>3. /\ reply.calls \in Seq(Ids) /\ Len(reply.calls) = Len(reply.names)
        /\ reply.names \in Seq(STRING)
    BY DEF LoopTypes, ReplyTypes
  <1>4. \/ pc' = "finalize"
        \/ pc' \in {"nudge", "results"} /\ next' = 1
        \/ pc' = "turnEnd" /\ reply.names = <<>>
    BY DEF RepeatedBatch, ExecuteBatch, emitError
  <1>5. CASE pc' = "finalize"
    BY <1>1, <1>5, LogGivesUp
  <1>6. CASE pc' \in {"nudge", "results"} /\ next' = 1
    <2>1. Phase' = "running" /\ Pending' = SubSeq(reply.calls, 1, Len(reply.calls))
      BY <1>1, <1>6 DEF Phase, Pending
    <2>2. Pending' = Pending
      BY <1>2, <1>3, <2>1, SubSeqFull
    <2> QED
      BY <1>1, <1>2, <2>1, <2>2, LogUnchanged
  <1>7. CASE pc' = "turnEnd" /\ reply.names = <<>>
    <2>1. Len(reply.calls) = 0
      BY <1>3, <1>7
    <2>2. Pending = <<>>
      BY <1>2, <1>3, <2>1, EmptySeq
    <2>3. Phase' = "running" /\ Pending' = <<>>
      BY <1>7 DEF Phase, Pending
    <2> QED
      BY <1>1, <1>2, <2>2, <2>3, LogUnchanged
  <1> QED
    BY <1>4, <1>5, <1>6, <1>7

LEMMA LogStep ==
  ASSUME LoopTypes, EndInv, ErrorInv, [Next]_vars
  PROVE  Session!Next \/ UNCHANGED Session!vars
  <1>1. StoreReply(TRUE) => pc = "reply"
    BY DEF StoreReply
  <1>2. StoreResult(TRUE) => Answering
    BY DEF StoreResult, Answering
  <1>3. ASSUME UNCHANGED <<completed, completes>>, pc \notin {"idle", "runEnd", "finalize"},
               pc # "tools", pc # "reply", ~Answering, pc' \in {"loop", "call", "reply", "finalize"}
        PROVE  Session!Write
    <2>1. Noted(rows, rows')
      BY <1>1, <1>2, <1>3, RowsGrow
    <2>2. ~Answering' /\ pc' # "idle" /\ pc' # "tools"
      BY <1>3 DEF Answering
    <2> QED
      BY <1>3, <2>1, <2>2, LogWrites
  <1>4. ASSUME NEW pre \in BOOLEAN, StartRun(pre) PROVE Session!Begin
    BY <1>4, LogBegins
  <1>5. ASSUME NEW n \in 0 .. 2, SlashCommand(n) PROVE Session!Write
    <2>1. pc = "setup" /\ pc' = "finalize"
      BY <1>5 DEF SlashCommand, localEmitError
    <2>2. AnnounceEnd \/ UNCHANGED <<completed, completes>>
      BY <1>5 DEF SlashCommand
    <2>3. Noted(rows, rows')
      BY <1>1, <1>2, <2>1, RowsGrow DEF Answering
    <2> QED
      BY <1>3, <2>1, <2>2, <2>3, LogAnnounces DEF Answering
  <1>6. ASSUME SetupFails \/ CallFails \/ BudgetExceeded \/ LengthGivesUp
        PROVE  Session!GiveUp
    <2>1. /\ pc \notin {"idle", "runEnd", "finalize"} /\ pc' = "finalize"
          /\ UNCHANGED <<rows, completed, completes>>
      BY <1>6 DEF SetupFails, CallFails, BudgetExceeded, LengthGivesUp, localEmitError, emitError,
                  convVars
    <2> QED
      BY <2>1, LogGivesUp
  <1>7. ASSUME \/ (\E n \in 0 .. 1, noted, ok \in BOOLEAN : SessionStart(n, noted, ok))
               \/ (\E n \in 0 .. 1 : LoopTop(n)) \/ ContextOverflow
               \/ (\E stage \in Stages : PromptTooLong(stage)) \/ InvalidResponseId
        PROVE  Session!Write
    <2>1. /\ UNCHANGED <<completed, completes>> /\ pc \in {"setup", "loop", "call"}
          /\ pc' \in {"loop", "call", "finalize"}
      BY <1>7 DEF SessionStart, LoopTop, ContextOverflow, PromptTooLong, InvalidResponseId,
                  localEmitError, emitError, endVars
    <2>2. pc \notin {"idle", "runEnd", "finalize"} /\ pc # "tools" /\ pc # "reply" /\ ~Answering
      BY <2>1 DEF Answering
    <2> QED
      BY <1>3, <2>1, <2>2
  <1>8. ASSUME NEW finish \in Finishes, NEW text \in BOOLEAN, NEW textual \in BOOLEAN,
               NEW fallback \in BOOLEAN, NEW rid \in BOOLEAN, NEW names \in Batches,
               Reply(finish, text, names, textual, fallback, rid)
        PROVE  Session!Write
    <2>1. UNCHANGED <<completed, completes>> /\ pc = "call" /\ pc' \in {"loop", "reply"}
      BY <1>8 DEF Reply, endVars
    <2>2. pc \notin {"idle", "runEnd", "finalize"} /\ pc # "tools" /\ pc # "reply" /\ ~Answering
      BY <2>1 DEF Answering
    <2> QED
      BY <1>3, <2>1, <2>2
  <1>9. ASSUME \/ (\E n \in 0 .. 1, noted \in BOOLEAN, stage \in Stages : EndToolTurn(n, noted, stage))
               \/ LengthRetry \/ BudgetNudge
        PROVE  Session!Write
    <2>1. UNCHANGED <<completed, completes>> /\ pc \in {"turnEnd", "length", "stop"} /\ pc' = "loop"
      BY <1>9 DEF EndToolTurn, LengthRetry, BudgetNudge, endVars
    <2>2. pc \notin {"idle", "runEnd", "finalize"} /\ pc # "tools" /\ pc # "reply" /\ ~Answering
      BY <2>1 DEF Answering
    <2> QED
      BY <1>3, <2>1, <2>2
  <1>10. ASSUME NEW n \in 0 .. 1, NEW noted \in BOOLEAN, CompleteRun(n, noted)
         PROVE  Session!Write
    <2>1. AnnounceEnd /\ pc = "stop" /\ pc' = "runEnd"
      BY <1>10 DEF CompleteRun
    <2>2. Noted(rows, rows')
      BY <1>1, <1>2, <2>1, RowsGrow DEF Answering
    <2> QED
      BY <2>1, <2>2, LogAnnounces
  <1>11. ASSUME NEW ok \in BOOLEAN, StoreReply(ok) PROVE Session!Reply \/ Session!GiveUp
    BY <1>11, LogReplies
  <1>12. ASSUME NEW ok \in BOOLEAN, StoreResult(ok) PROVE Session!Result \/ Session!GiveUp
    BY <1>12, LogResults
  <1>13. ASSUME RepeatedBatch \/ (\E failed, escalated \in BOOLEAN : ExecuteBatch(failed, escalated))
         PROVE  Session!GiveUp \/ UNCHANGED Session!vars
    BY <1>13, LogTools
  <1>14. ASSUME NEW ok \in BOOLEAN, Finalize(ok) PROVE Session!End
    BY <1>14, LogEnds
  <1>15. ASSUME EmptyBatchPanics \/ Crash PROVE Session!Crash
    <2>1. /\ pc # "idle" /\ pc' = "idle" /\ crashed' = TRUE /\ UNCHANGED <<rows, completes>>
      BY <1>15 DEF EmptyBatchPanics, Crash, Dies, Return
    <2>2. Phase \in {"running", "ending", "announced"}
      BY <2>1 DEF Phase
    <2>3. Phase' = "crashed" /\ Pending' = <<>>
      BY <2>1 DEF Phase, Pending
    <2> QED
      BY <2>1, <2>2, <2>3 DEF Session!Crash
  <1>16. ASSUME ContextEnds \/ Done \/ UNCHANGED vars PROVE UNCHANGED Session!vars
    <2>1. UNCHANGED <<rows, pc, reply, next, completed, completes, crashed>>
      BY <1>16 DEF ContextEnds, Done, vars, convVars, endVars
    <2>2. UNCHANGED <<Pending, Phase>>
      BY <2>1 DEF Pending, Phase
    <2> QED
      BY <2>1, <2>2, LogUnchanged
  <1>17. ASSUME \/ Session!Begin \/ Session!Write \/ Session!Reply \/ Session!Result
                \/ Session!GiveUp \/ Session!Remark \/ Session!End \/ Session!Crash
         PROVE  Session!Next
    BY <1>17 DEF Session!Next
  <1>18. ASSUME NEW noted \in BOOLEAN, RunEndHooks(noted)
         PROVE  Session!Remark \/ UNCHANGED Session!vars
    BY <1>18, LogRemarks
  <1> QED
    BY <1>4, <1>5, <1>6, <1>7, <1>8, <1>9, <1>10, <1>11, <1>12, <1>13, <1>14, <1>15, <1>16, <1>17,
       <1>18 DEF Next, Step

(* The loop implements the session's log, whatever fails: nothing is       *)
(* stored between a reply and the results of its calls, results are stored *)
(* in the order of the calls, a run that gives up on them says at most one *)
(* thing more, and a run announces its end once, after its last reply,     *)
(* result or error: only the notes of run-end hooks follow.                *)
THEOREM LoopKeepsLog == Spec => KeepsSessionLog
  <1>1. Init => EndInv /\ ErrorInv
    BY DEF Init, EndInv, ErrorInv
  <1>2. Init => Session!Init
    <2>1. SUFFICES ASSUME Init PROVE Session!Init
      OBVIOUS
    <2>2. rows = <<>> /\ pc = "idle" /\ ~crashed /\ completes = 1
      BY <2>1 DEF Init
    <2>3. Pending = <<>> /\ Phase = "ready"
      BY <2>2 DEF Pending, Phase
    <2> QED
      BY <2>2, <2>3 DEF Session!Init
  <1>3. LoopTypes /\ EndInv /\ ErrorInv /\ [Next]_vars => EndInv' /\ ErrorInv'
    BY EndKept, ErrorKept
  <1>4. LoopTypes /\ EndInv /\ ErrorInv /\ [Next]_vars => [Session!Next]_Session!vars
    BY LogStep
  <1> QED
    BY <1>1, <1>2, <1>3, <1>4, LoopTyping, PTL DEF Spec, KeepsSessionLog, Session!Spec
=============================================================================
