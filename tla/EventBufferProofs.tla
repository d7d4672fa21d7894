------------------------- MODULE EventBufferProofs --------------------------
(***************************************************************************)
(* For every capacity, every set of events and every number of appends:    *)
(* the ring is well formed, its window is contiguous, the ring implements  *)
(* the sliding window of EventLog, and EventsSince returns all the events  *)
(* after a position or says that some were evicted.                        *)
(***************************************************************************)
EXTENDS EventBuffer, WellFoundedInduction, TLAPS

(* Slot arithmetic: % brings the two positions that Append and the readers *)
(* compute, which are never beyond twice the capacity, back into the ring. *)
LEMMA ModWrap ==
  ASSUME NEW x \in Nat, x < Capacity + Capacity
  PROVE  /\ x < Capacity => x % Capacity = x
         /\ x >= Capacity => x % Capacity = x - Capacity
         /\ x % Capacity \in Slots
  <1> USE CapacityAssumption
  <1>1. CASE x < Capacity
    BY <1>1 DEF Slots
  <1>2. CASE x >= Capacity
    <2>1. x - Capacity \in 0 .. Capacity - 1
      BY <1>2
    <2>2. x % Capacity = x - Capacity
      BY <1>2, <2>1
    <2> QED
      BY <1>2, <2>1, <2>2 DEF Slots
  <1> QED
    BY <1>1, <1>2

(* The slot Append writes: the first free one, or the oldest event's.      *)
LEMMA WriteSlot ==
  ASSUME TypeOK, CountMatchesSeq
  PROVE  /\ (start + count) % Capacity \in Slots
         /\ count < Capacity => (start + count) % Capacity = count
         /\ count = Capacity => (start + count) % Capacity = start
  <1> DEFINE x == start + count
  <1>1. x \in Nat /\ x < Capacity + Capacity
    BY CapacityAssumption DEF TypeOK, Slots
  <1>2. /\ x < Capacity => x % Capacity = x
        /\ x >= Capacity => x % Capacity = x - Capacity
        /\ x % Capacity \in Slots
    BY <1>1, ModWrap
  <1> QED
    BY <1>1, <1>2, CapacityAssumption DEF TypeOK, CountMatchesSeq, Slots

(* Position i of the window is a slot, and only position 1 is the slot of  *)
(* the oldest event.                                                       *)
LEMMA ReadSlot ==
  ASSUME NEW s \in Slots, NEW i \in 1 .. Capacity
  PROVE  /\ (s + i - 1) % Capacity \in Slots
         /\ i = 1 => (s + i - 1) % Capacity = s
         /\ i > 1 => (s + i - 1) % Capacity # s
  <1> DEFINE x == s + i - 1
  <1>1. x \in Nat /\ x < Capacity + Capacity
    BY CapacityAssumption DEF Slots
  <1>2. /\ x < Capacity => x % Capacity = x
        /\ x >= Capacity => x % Capacity = x - Capacity
        /\ x % Capacity \in Slots
    BY <1>1, ModWrap
  <1> QED
    BY <1>1, <1>2, CapacityAssumption DEF Slots

(* Advancing start by one shifts every position of the window by one; the  *)
(* slot that was the oldest becomes the newest.                            *)
LEMMA ShiftSlot ==
  ASSUME NEW s \in Slots, NEW i \in 1 .. Capacity
  PROVE  /\ (s + 1) % Capacity \in Slots
         /\ i < Capacity =>
              (((s + 1) % Capacity) + i - 1) % Capacity = (s + (i + 1) - 1) % Capacity
         /\ i = Capacity => (((s + 1) % Capacity) + i - 1) % Capacity = s
  <1> DEFINE t == (s + 1) % Capacity
             x == t + i - 1
             y == s + i
  <1>1. /\ s + 1 < Capacity => t = s + 1
        /\ s + 1 >= Capacity => t = s + 1 - Capacity
        /\ t \in Slots
    BY ModWrap, CapacityAssumption DEF Slots
  <1>2. x \in Nat /\ x < Capacity + Capacity /\ y \in Nat /\ y < Capacity + Capacity
    BY <1>1, CapacityAssumption DEF Slots
  <1>3. /\ x < Capacity => x % Capacity = x
        /\ x >= Capacity => x % Capacity = x - Capacity
    BY <1>2, ModWrap
  <1>4. /\ y < Capacity => y % Capacity = y
        /\ y >= Capacity => y % Capacity = y - Capacity
    BY <1>2, ModWrap
  <1>5. i < Capacity => x % Capacity = y % Capacity
    BY <1>1, <1>2, <1>3, <1>4, CapacityAssumption DEF Slots
  <1>6. i = Capacity => x % Capacity = s
    BY <1>1, <1>2, <1>3, CapacityAssumption DEF Slots
  <1>7. s + (i + 1) - 1 = y
    BY CapacityAssumption DEF Slots
  <1> QED
    BY <1>1, <1>5, <1>6, <1>7

(* Init establishes the invariant.                                         *)
LEMMA RingInit == Init => TypeOK /\ RingInv
  <1> SUFFICES ASSUME Init PROVE TypeOK /\ RingInv
    OBVIOUS
  <1> USE CapacityAssumption DEF Init, NewEventBuffer
  <1>1. TypeOK
    <2>1. [id |-> 0, event |-> NoEvent] \in BufferedEvent
      BY DEF BufferedEvent
    <2>2. buf \in [Slots -> BufferedEvent]
      BY <2>1
    <2>3. start \in Slots /\ count \in 0 .. Capacity /\ nextSeq \in Nat \ {0}
      BY DEF Slots
    <2>4. done \in BOOLEAN
      OBVIOUS
    <2> QED
      BY <2>2, <2>3, <2>4 DEF TypeOK
  <1>2. RingInv
    BY DEF RingInv, CountMatchesSeq, WindowContiguous
  <1> QED
    BY <1>1, <1>2

(* What an append does to the window, position by position.  The two cases *)
(* are a ring that still has free slots, which starts at slot 0, and a     *)
(* full one.                                                               *)
LEMMA WindowAfterAppend ==
  ASSUME TypeOK, CountMatchesSeq, NEW ev \in Events, AppendEvent(ev)
  PROVE  /\ count < Capacity =>
              /\ count' = count + 1 /\ start' = start
              /\ \A i \in 1 .. count' :
                   Window'[i] = IF i = count + 1 THEN [id |-> nextSeq, event |-> ev]
                                ELSE Window[i]
         /\ count = Capacity =>
              /\ count' = count /\ start' \in Slots
              /\ \A i \in 1 .. count' :
                   Window'[i] = IF i = count THEN [id |-> nextSeq, event |-> ev]
                                ELSE Window[i + 1]
  <1> DEFINE slot == (start + count) % Capacity
             entry == [id |-> nextSeq, event |-> ev]
  <1> USE CapacityAssumption
  <1>1. slot \in Slots /\ buf' = [buf EXCEPT ![slot] = entry]
    BY WriteSlot DEF AppendEvent
  <1>2. Window' = [i \in 1 .. count' |-> buf'[(start' + i - 1) % Capacity]]
    BY DEF Window
  <1>3. CASE count < Capacity
    <2>1. start = 0 /\ slot = count /\ count' = count + 1 /\ start' = start
      BY <1>3, WriteSlot DEF AppendEvent, CountMatchesSeq, TypeOK
    <2>2. ASSUME NEW i \in 1 .. count'
          PROVE  Window'[i] = IF i = count + 1 THEN entry ELSE Window[i]
      <3> DEFINE k == i - 1
      <3>1. k \in Nat /\ k < Capacity /\ start + i - 1 = k /\ start' + i - 1 = k
        BY <1>3, <2>1 DEF TypeOK
      <3>2. k \in Slots /\ k % Capacity = k
        BY <3>1, ModWrap
      <3>3. Window'[i] = buf'[k]
        BY <1>2, <3>1, <3>2
      <3>4. i # count + 1 => Window[i] = buf[k] /\ k # slot
        BY <2>1, <3>1, <3>2 DEF Window, TypeOK
      <3> QED
        BY <1>1, <2>1, <3>2, <3>3, <3>4 DEF TypeOK
    <2> QED
      BY <1>3, <2>1, <2>2
  <1>4. CASE count = Capacity
    <2>1. slot = start /\ count' = count /\ start' = (start + 1) % Capacity
      BY <1>4, WriteSlot DEF AppendEvent
    <2>2. start \in Slots /\ start' \in Slots
      BY <2>1, ShiftSlot DEF TypeOK
    <2>3. ASSUME NEW i \in 1 .. count'
          PROVE  Window'[i] = IF i = count THEN entry ELSE Window[i + 1]
      <3>1. i \in 1 .. Capacity /\ Window'[i] = buf'[(start' + i - 1) % Capacity]
        BY <1>2, <1>4, <2>1
      <3>2. CASE i = Capacity
        <4>1. (start' + i - 1) % Capacity = start
          BY <2>1, <2>2, <3>1, <3>2, ShiftSlot
        <4> QED
          BY <1>1, <1>4, <2>1, <3>1, <3>2, <4>1 DEF TypeOK
      <3>3. CASE i < Capacity
        <4> DEFINE j == i + 1
        <4>1. j \in 1 .. Capacity /\ j > 1 /\ j \in 1 .. count
          BY <1>4, <3>1, <3>3
        <4>2. (start + j - 1) % Capacity \in Slots \ {start}
          BY <2>2, <4>1, ReadSlot
        <4>3. Window[j] = buf[(start + j - 1) % Capacity]
          BY <4>1 DEF Window
        <4>4. (start' + i - 1) % Capacity = (start + j - 1) % Capacity
          BY <2>1, <2>2, <3>1, <3>3, ShiftSlot
        <4>5. Window'[i] = Window[j]
          BY <1>1, <2>1, <3>1, <4>2, <4>3, <4>4 DEF TypeOK
        <4> QED
          BY <1>4, <3>3, <4>5
      <3> QED
        BY <3>1, <3>2, <3>3
    <2> QED
      BY <1>4, <2>1, <2>2, <2>3
  <1> QED
    BY <1>3, <1>4

(* Every step preserves the invariant.                                     *)
LEMMA RingStep == TypeOK /\ RingInv /\ [Next]_bufferVars => TypeOK' /\ RingInv'
  <1> SUFFICES ASSUME TypeOK, RingInv, [Next]_bufferVars
               PROVE  TypeOK' /\ RingInv'
    OBVIOUS
  <1> USE CapacityAssumption DEF RingInv
  <1>1. ASSUME NEW ev \in Events, AppendEvent(ev)
        PROVE  TypeOK' /\ RingInv'
    <2> DEFINE entry == [id |-> nextSeq, event |-> ev]
    <2>1. /\ buf' \in [Slots -> BufferedEvent]
          /\ nextSeq' = nextSeq + 1
          /\ done' = done
      <3>1. entry \in BufferedEvent
        BY DEF TypeOK, BufferedEvent
      <3> QED
        BY <1>1, <3>1 DEF AppendEvent, TypeOK
    <2>2. CASE count < Capacity
      <3>1. /\ count' = count + 1 /\ start' = start
            /\ \A i \in 1 .. count' :
                 Window'[i] = IF i = count + 1 THEN entry ELSE Window[i]
        BY <1>1, <2>2, WindowAfterAppend
      <3>2. TypeOK'
        BY <2>1, <2>2, <3>1 DEF TypeOK
      <3>3. CountMatchesSeq'
        BY <2>1, <2>2, <3>1 DEF TypeOK, CountMatchesSeq
      <3>4. WindowContiguous'
        BY <2>1, <3>1 DEF TypeOK, WindowContiguous
      <3> QED
        BY <3>2, <3>3, <3>4
    <2>3. CASE count = Capacity
      <3>1. /\ count' = count /\ start' \in Slots
            /\ \A i \in 1 .. count' :
                 Window'[i] = IF i = count THEN entry ELSE Window[i + 1]
        BY <1>1, <2>3, WindowAfterAppend
      <3>2. TypeOK'
        BY <2>1, <3>1 DEF TypeOK
      <3>3. CountMatchesSeq'
        BY <2>1, <2>3, <3>1 DEF TypeOK, CountMatchesSeq
      <3>4. WindowContiguous'
        BY <2>1, <3>1 DEF TypeOK, WindowContiguous
      <3> QED
        BY <3>2, <3>3, <3>4
    <2> QED
      BY <2>2, <2>3 DEF TypeOK
  <1>2. CASE MarkDone
    BY <1>2 DEF MarkDone, TypeOK, CountMatchesSeq, WindowContiguous, Window
  <1>3. CASE UNCHANGED bufferVars
    BY <1>3 DEF bufferVars, TypeOK, CountMatchesSeq, WindowContiguous, Window
  <1> QED
    BY <1>1, <1>2, <1>3 DEF Next

(* The ring's fields stay in their ranges in every behaviour of the buffer *)
(* (EventBuffer.Append, MarkDone).                                         *)
THEOREM TypeCorrect == Spec => []TypeOK
  BY RingInit, RingStep, PTL DEF Spec

(* Reading the ring from start always yields consecutive, written events   *)
(* that end at the newest one, however often Append has wrapped.           *)
THEOREM RingCorrect == Spec => []RingInv
  BY RingInit, RingStep, PTL DEF Spec

-----------------------------------------------------------------------------
(* The refinement.                                                         *)

(* The window is a sequence of length count.                               *)
LEMMA WindowSeq ==
  ASSUME TypeOK
  PROVE  /\ Window \in Seq(BufferedEvent)
         /\ Len(Window) = count
         /\ DOMAIN Window = 1 .. count
  <1>1. ASSUME NEW i \in 1 .. count
        PROVE  buf[(start + i - 1) % Capacity] \in BufferedEvent
    BY <1>1, ReadSlot, CapacityAssumption DEF TypeOK
  <1>2. count \in Nat /\ Window = [i \in 1 .. count |-> buf[(start + i - 1) % Capacity]]
    BY CapacityAssumption DEF TypeOK, Window
  <1> QED
    BY <1>1, <1>2

(* An append to the ring is an append to the window.                       *)
LEMMA AppendRefines ==
  ASSUME TypeOK, RingInv, NEW ev \in Events, AppendEvent(ev)
  PROVE  Log!AppendEvent(ev)
  <1> DEFINE entry == [id |-> nextSeq, event |-> ev]
  <1> USE CapacityAssumption
  <1>1. nextSeq <= MaxEvents /\ nextSeq' = nextSeq + 1 /\ done' = done
    BY DEF AppendEvent
  <1>2. entry \in BufferedEvent
    BY DEF TypeOK, BufferedEvent
  <1>3. Window \in Seq(BufferedEvent) /\ Len(Window) = count
    BY WindowSeq
  <1>4. Window' = [i \in 1 .. count' |-> Window'[i]]
    BY DEF Window
  <1>5. CASE count < Capacity
    <2>1. /\ count' = count + 1
          /\ \A i \in 1 .. count' :
               Window'[i] = IF i = count + 1 THEN entry ELSE Window[i]
      BY <1>5, WindowAfterAppend DEF RingInv
    <2>2. Append(Window, entry) =
            [i \in 1 .. count + 1 |-> IF i = count + 1 THEN entry ELSE Window[i]]
      BY <1>2, <1>3 DEF TypeOK
    <2>3. Window' = Append(Window, entry)
      BY <1>4, <2>1, <2>2
    <2> QED
      BY <1>1, <1>3, <1>5, <2>3 DEF Log!AppendEvent
  <1>6. CASE count = Capacity
    <2>1. /\ count' = count
          /\ \A i \in 1 .. count' :
               Window'[i] = IF i = count THEN entry ELSE Window[i + 1]
      BY <1>6, WindowAfterAppend DEF RingInv
    <2>2. /\ Tail(Window) \in Seq(BufferedEvent)
          /\ Len(Tail(Window)) = count - 1
          /\ \A i \in 1 .. count - 1 : Tail(Window)[i] = Window[i + 1]
      BY <1>3, <1>6 DEF TypeOK
    <2>3. Append(Tail(Window), entry) =
            [i \in 1 .. count |-> IF i = count THEN entry ELSE Window[i + 1]]
      BY <1>2, <1>6, <2>2 DEF TypeOK
    <2>4. Window' = Append(Tail(Window), entry)
      BY <1>4, <2>1, <2>3
    <2> QED
      BY <1>1, <1>3, <1>6, <2>4 DEF Log!AppendEvent
  <1> QED
    BY <1>5, <1>6 DEF TypeOK

(* Every behaviour of the ring is a behaviour of the sliding window: no    *)
(* reader can tell the circular buffer of EventBuffer from a window that   *)
(* drops its oldest event.                                                 *)
THEOREM RingImplementsLog == Spec => LogSpec
  <1>1. Init => Log!Init
    BY CapacityAssumption DEF Init, NewEventBuffer, Log!Init, Window
  <1>2. TypeOK /\ RingInv /\ [Next]_bufferVars => [Log!Next]_(Log!vars)
    <2> SUFFICES ASSUME TypeOK, RingInv, [Next]_bufferVars
                 PROVE  [Log!Next]_(Log!vars)
      OBVIOUS
    <2>1. ASSUME NEW ev \in Events, AppendEvent(ev)
          PROVE  Log!Next
      BY <2>1, AppendRefines DEF Log!Next
    <2>2. ASSUME MarkDone
          PROVE  Log!Next
      BY <2>2 DEF MarkDone, Window, Log!Next, Log!MarkDone
    <2>3. ASSUME UNCHANGED bufferVars
          PROVE  UNCHANGED Log!vars
      BY <2>3 DEF bufferVars, Window, Log!vars
    <2> QED
      BY <2>1, <2>2, <2>3 DEF Next
  <1> QED
    BY <1>1, <1>2, TypeCorrect, RingCorrect, PTL DEF Spec, LogSpec, Log!Spec

-----------------------------------------------------------------------------
(* What KeepAt returns.  Facts about its recursive function are proved from *)
(* the least position at which they would fail.                            *)

(* Every set of numbers that is not empty has a least one.                 *)
LEMMA LeastNumber ==
  ASSUME NEW T, T \subseteq Nat, T # {}
  PROVE  \E m \in T : \A k \in T : m <= k
  <1> DEFINE R == OpToRel(<, Nat)
  <1>1. IsWellFoundedOn(R, Nat)
    BY NatLessThanWellFounded
  <1>2. \A y, x \in Nat : y < x => <<y, x>> \in R
    BY DEF OpToRel
  <1> HIDE DEF R
  <1>3. PICK m \in T : \A y \in T : ~(<<y, m>> \in R)
    BY <1>1, WFMin
  <1>4. \A y \in T : y \in Nat /\ m \in Nat /\ ~(y < m)
    BY <1>2, <1>3, Zenon
  <1> QED
    BY <1>3, <1>4

(* The function that KeepAt builds, up to position m.                      *)
Builds(f, s, P, m) ==
  f = [n \in 0 .. m |->
         IF n = 0 THEN << >>
         ELSE IF n \in P THEN Append(f[n - 1], s[n])
         ELSE f[n - 1]]

(* It exists: a least m for which it did not would have a predecessor to   *)
(* extend.                                                                 *)
LEMMA BuildsExists ==
  ASSUME NEW s, NEW P, NEW m \in Nat
  PROVE  \E f : Builds(f, s, P, m)
  <1> DEFINE T == {n \in Nat : ~\E f : Builds(f, s, P, n)}
  <1> SUFFICES ASSUME T # {} PROVE FALSE
    OBVIOUS
  <1>1. PICK n \in T : \A k \in T : n <= k
    <2>1. T \subseteq Nat
      OBVIOUS
    <2> HIDE DEF T
    <2> QED
      BY <2>1, LeastNumber
  <1>2. CASE n = 0
    <2>1. Builds([i \in 0 .. 0 |-> << >>], s, P, 0)
      BY DEF Builds
    <2> QED
      BY <1>1, <1>2, <2>1
  <1>3. CASE n # 0
    <2>1. n - 1 \in Nat /\ ~(n <= n - 1) /\ n \in Nat
      BY <1>1, <1>3
    <2>2. PICK f : Builds(f, s, P, n - 1)
      BY <1>1, <2>1
    <2> DEFINE value == IF n \in P THEN Append(f[n - 1], s[n]) ELSE f[n - 1]
               g == [i \in 0 .. n |-> IF i < n THEN f[i] ELSE value]
    <2>3. ASSUME NEW i \in 0 .. n
          PROVE  g[i] = IF i = 0 THEN << >>
                        ELSE IF i \in P THEN Append(g[i - 1], s[i])
                        ELSE g[i - 1]
      <3>1. CASE i < n
        <4>1. i \in 0 .. n - 1 /\ g[i] = f[i]
          BY <2>1, <3>1
        <4>2. f[i] = IF i = 0 THEN << >>
                     ELSE IF i \in P THEN Append(f[i - 1], s[i])
                     ELSE f[i - 1]
          BY <2>2, <4>1 DEF Builds
        <4>3. i # 0 => i - 1 \in 0 .. n /\ i - 1 < n
          BY <2>1, <4>1
        <4>4. i # 0 => g[i - 1] = f[i - 1]
          BY <4>3
        <4> HIDE DEF g
        <4> QED
          BY <4>1, <4>2, <4>4
      <3>2. CASE i = n
        <4>1. g[n] = value /\ g[n - 1] = f[n - 1]
          BY <2>1
        <4> QED
          BY <1>3, <3>2, <4>1
      <3> QED
        BY <2>1, <3>1, <3>2
    <2>4. Builds(g, s, P, n)
      <3>1. g = [i \in 0 .. n |-> g[i]]
        OBVIOUS
      <3> HIDE DEF g
      <3> QED
        BY <2>3, <3>1 DEF Builds
    <2> QED
      BY <1>1, <2>4
  <1> QED
    BY <1>2, <1>3

(* What KeepAt returns is the end of that function.                        *)
LEMMA KeepAtBuilt ==
  ASSUME NEW s, NEW P, Len(s) \in Nat
  PROVE  \E f : Builds(f, s, P, Len(s)) /\ KeepAt(s, P) = f[Len(s)]
  <1>1. KeepAt(s, P) = (CHOOSE f : Builds(f, s, P, Len(s)))[Len(s)]
    BY Zenon DEF KeepAt, Builds
  <1>2. \E f : Builds(f, s, P, Len(s))
    BY BuildsExists
  <1> QED
    BY <1>1, <1>2, Zenon

(* Keeping an end of s: nothing before it, and then all of it.             *)
LEMMA KeepAtEnd ==
  ASSUME NEW S, NEW s \in Seq(S), NEW P, NEW b \in 0 .. Len(s),
         \A n \in 1 .. Len(s) : n \in P <=> b < n
  PROVE  KeepAt(s, P) = [j \in 1 .. Len(s) - b |-> s[b + j]]
  <1>1. Len(s) \in Nat /\ b \in Nat
    OBVIOUS
  <1>2. PICK f : Builds(f, s, P, Len(s)) /\ KeepAt(s, P) = f[Len(s)]
    BY <1>1, KeepAtBuilt
  <1> DEFINE End(n) == IF n <= b THEN << >> ELSE [j \in 1 .. n - b |-> s[b + j]]
             T == {n \in 0 .. Len(s) : f[n] # End(n)}
  <1>3. T = {}
    <2> SUFFICES ASSUME T # {} PROVE FALSE
      OBVIOUS
    <2>1. PICK n \in T : \A k \in T : n <= k
      <3>1. T \subseteq Nat
        BY <1>1
      <3> HIDE DEF T
      <3> QED
        BY <3>1, LeastNumber
    <2>2. n \in 0 .. Len(s) /\ f[n] # End(n)
      BY <2>1
    <2>3. f[n] = IF n = 0 THEN << >>
                 ELSE IF n \in P THEN Append(f[n - 1], s[n])
                 ELSE f[n - 1]
      BY <1>2, <2>2 DEF Builds
    <2>4. CASE n = 0
      BY <1>1, <2>2, <2>3, <2>4
    <2>5. CASE n # 0
      <3>1. n - 1 \in 0 .. Len(s) /\ n \in 1 .. Len(s) /\ ~(n <= n - 1)
        BY <1>1, <2>2, <2>5
      <3>2. f[n - 1] = End(n - 1)
        BY <2>1, <3>1
      <3>3. CASE n <= b
        BY <1>1, <2>2, <2>3, <2>5, <3>1, <3>2, <3>3
      <3>4. CASE n = b + 1
        <4>1. f[n - 1] = << >> /\ f[n] = Append(<< >>, s[n])
          BY <1>1, <2>3, <2>5, <3>1, <3>2, <3>4
        <4>2. End(n) = [j \in 1 .. 1 |-> s[b + j]]
          BY <1>1, <3>4
        <4>3. s[n] \in S
          BY <3>1
        <4>4. Append(<< >>, s[n]) = [j \in 1 .. 1 |-> s[b + j]]
          BY <1>1, <3>4, <4>3
        <4> QED
          BY <2>2, <4>1, <4>2, <4>4
      <3>5. CASE n > b + 1
        <4> DEFINE e == [j \in 1 .. n - 1 - b |-> s[b + j]]
        <4>1. f[n - 1] = e /\ n \in P
          BY <1>1, <3>1, <3>2, <3>5
        <4>2. e \in Seq(S) /\ Len(e) = n - 1 - b /\ s[n] \in S
          <5>1. \A j \in 1 .. n - 1 - b : b + j \in 1 .. Len(s)
            BY <1>1, <3>1, <3>5
          <5>2. n - 1 - b \in Nat /\ \A j \in 1 .. n - 1 - b : s[b + j] \in S
            BY <1>1, <3>1, <3>5, <5>1
          <5> QED
            BY <3>1, <5>2
        <4>3. Append(e, s[n]) = [j \in 1 .. n - b |-> IF j = n - b THEN s[n] ELSE e[j]]
          BY <1>1, <3>1, <3>5, <4>2
        <4>4. \A j \in 1 .. n - b : (IF j = n - b THEN s[n] ELSE e[j]) = s[b + j]
          BY <1>1, <3>1, <3>5
        <4>5. End(n) = [j \in 1 .. n - b |-> s[b + j]]
          BY <1>1, <3>1, <3>5
        <4>6. Append(e, s[n]) = End(n)
          <5> HIDE DEF e, End
          <5>1. [j \in 1 .. n - b |-> IF j = n - b THEN s[n] ELSE e[j]]
                  = [j \in 1 .. n - b |-> s[b + j]]
            BY <4>4
          <5> QED
            BY <4>3, <4>5, <5>1
        <4> QED
          BY <2>2, <2>3, <2>5, <4>1, <4>6
      <3> QED
        BY <1>1, <3>1, <3>3, <3>4, <3>5
    <2> QED
      BY <2>4, <2>5
  <1>4. f[Len(s)] = End(Len(s))
    BY <1>1, <1>3
  <1>5. CASE b = Len(s)
    <2>1. [j \in 1 .. 0 |-> s[b + j]] = << >>
      OBVIOUS
    <2>2. Len(s) - b = 0 /\ End(Len(s)) = << >>
      BY <1>1, <1>5
    <2> QED
      BY <1>2, <1>4, <2>1, <2>2
  <1>6. CASE b < Len(s)
    BY <1>1, <1>2, <1>4, <1>6
  <1> QED
    BY <1>1, <1>5, <1>6

(* Keeping any positions: the kept ones, in their order.                   *)
LEMMA KeepAtPicks ==
  ASSUME NEW S, NEW s \in Seq(S), NEW P
  PROVE  /\ KeepAt(s, P) \in Seq(S)
         /\ \E at \in [1 .. Len(KeepAt(s, P)) -> 1 .. Len(s)] :
              /\ \A j \in 1 .. Len(KeepAt(s, P)) : at[j] \in P /\ KeepAt(s, P)[j] = s[at[j]]
              /\ \A i, j \in 1 .. Len(KeepAt(s, P)) : i < j => at[i] < at[j]
              /\ \A n \in 1 .. Len(s) : n \in P =>
                   \E j \in 1 .. Len(KeepAt(s, P)) : at[j] = n
  <1>1. Len(s) \in Nat
    OBVIOUS
  <1>2. PICK f : Builds(f, s, P, Len(s)) /\ KeepAt(s, P) = f[Len(s)]
    BY <1>1, KeepAtBuilt
  <1> DEFINE Picks(t, m) ==
               /\ t \in Seq(S)
               /\ \E at \in [1 .. Len(t) -> 1 .. m] :
                    /\ \A j \in 1 .. Len(t) : at[j] \in P /\ t[j] = s[at[j]]
                    /\ \A i, j \in 1 .. Len(t) : i < j => at[i] < at[j]
                    /\ \A n \in 1 .. m : n \in P => \E j \in 1 .. Len(t) : at[j] = n
             T == {m \in 0 .. Len(s) : ~Picks(f[m], m)}
  <1>3. T = {}
    <2> SUFFICES ASSUME T # {} PROVE FALSE
      OBVIOUS
    <2>1. PICK m \in T : \A k \in T : m <= k
      <3>1. T \subseteq Nat
        BY <1>1
      <3> HIDE DEF T
      <3> QED
        BY <3>1, LeastNumber
    <2>2. m \in 0 .. Len(s) /\ ~Picks(f[m], m)
      BY <2>1
    <2>3. f[m] = IF m = 0 THEN << >>
                 ELSE IF m \in P THEN Append(f[m - 1], s[m])
                 ELSE f[m - 1]
      BY <1>2, <2>2 DEF Builds
    <2>4. CASE m = 0
      <3> DEFINE z == f[m]
                 none == [j \in {} |-> 0]
      <3>1. z \in Seq(S) /\ Len(z) = 0
        BY <2>3, <2>4
      <3>2. 1 .. 0 = {} /\ none \in [{} -> {}]
        OBVIOUS
      <3>3. 1 .. Len(z) = {}
        BY <3>1
      <3> HIDE DEF none, z
      <3>4. \E at \in [1 .. Len(z) -> 1 .. 0] :
              /\ \A j \in 1 .. Len(z) : at[j] \in P /\ z[j] = s[at[j]]
              /\ \A i, j \in 1 .. Len(z) : i < j => at[i] < at[j]
              /\ \A n \in 1 .. 0 : n \in P => \E j \in 1 .. Len(z) : at[j] = n
        BY <3>2, <3>3, Zenon
      <3>5. Picks(z, 0)
        BY <3>1, <3>4
      <3> HIDE DEF Picks
      <3> QED
        BY <2>2, <2>4, <3>5 DEF z
    <2>5. CASE m # 0
      <3>1. m - 1 \in 0 .. Len(s) /\ m \in 1 .. Len(s) /\ m - 1 \in Nat /\ m \in Nat
            /\ ~(m <= m - 1) /\ s[m] \in S
        BY <1>1, <2>2, <2>5
      <3>2. Picks(f[m - 1], m - 1)
        <4> HIDE DEF Picks
        <4> QED
          BY <2>1, <3>1
      <3> DEFINE u == f[m - 1]
      <3>3. u \in Seq(S) /\ Len(u) \in Nat
        BY <3>2
      <3>4. PICK at \in [1 .. Len(u) -> 1 .. m - 1] :
               /\ \A j \in 1 .. Len(u) : at[j] \in P /\ u[j] = s[at[j]]
               /\ \A i, j \in 1 .. Len(u) : i < j => at[i] < at[j]
               /\ \A n \in 1 .. m - 1 : n \in P => \E j \in 1 .. Len(u) : at[j] = n
        BY <3>2
      <3>5. \A j \in 1 .. Len(u) : at[j] \in 1 .. m - 1 /\ at[j] \in P
        BY <3>4
      <3>6. CASE m \notin P
        <4>1. f[m] = u
          BY <2>3, <2>5, <3>6
        <4> HIDE DEF u
        <4>2. at \in [1 .. Len(u) -> 1 .. m]
          BY <3>1, <3>4, <3>5
        <4>3. \A n \in 1 .. m : n \in P => \E j \in 1 .. Len(u) : at[j] = n
          BY <3>1, <3>4, <3>6
        <4>4. Picks(u, m)
          BY <3>3, <3>4, <4>2, <4>3
        <4> HIDE DEF Picks
        <4> QED
          BY <2>2, <4>1, <4>4
      <3>7. CASE m \in P
        <4>1. f[m] = Append(u, s[m])
          BY <2>3, <2>5, <3>7
        <4> HIDE DEF u
        <4> DEFINE t == Append(u, s[m])
                   onto == [j \in 1 .. Len(u) + 1 |-> IF j = Len(u) + 1 THEN m ELSE at[j]]
        <4>2. /\ t \in Seq(S) /\ Len(t) = Len(u) + 1
              /\ \A j \in 1 .. Len(u) : t[j] = u[j]
              /\ t[Len(u) + 1] = s[m]
          BY <3>1, <3>3
        <4> HIDE DEF t
        <4>3. \A j \in 1 .. Len(u) + 1 : onto[j] = IF j = Len(u) + 1 THEN m ELSE at[j]
          OBVIOUS
        <4>4. \A j \in 1 .. Len(u) + 1 : j # Len(u) + 1 => j \in 1 .. Len(u)
          BY <3>3
        <4>5. onto \in [1 .. Len(t) -> 1 .. m]
          <5>1. \A j \in 1 .. Len(u) + 1 :
                  (IF j = Len(u) + 1 THEN m ELSE at[j]) \in 1 .. m
            BY <3>1, <3>5, <4>4
          <5> QED
            BY <4>2, <5>1
        <4> HIDE DEF onto
        <4>6. \A j \in 1 .. Len(t) : onto[j] \in P /\ t[j] = s[onto[j]]
          BY <3>3, <3>4, <3>7, <4>2, <4>3, <4>4
        <4>7. \A i, j \in 1 .. Len(t) : i < j => onto[i] < onto[j]
          <5> SUFFICES ASSUME NEW i \in 1 .. Len(t), NEW j \in 1 .. Len(t), i < j
                       PROVE  onto[i] < onto[j]
            OBVIOUS
          <5>1. i \in 1 .. Len(u) /\ onto[i] = at[i] /\ at[i] \in 1 .. m - 1
            BY <3>3, <3>5, <4>2, <4>3, <4>4
          <5>2. CASE j = Len(u) + 1
            BY <3>1, <4>2, <4>3, <5>1, <5>2
          <5>3. CASE j # Len(u) + 1
            <6>1. j \in 1 .. Len(u) /\ onto[j] = at[j]
              BY <4>2, <4>3, <4>4, <5>3
            <6> QED
              BY <3>4, <5>1, <6>1
          <5> QED
            BY <5>2, <5>3
        <4>8. ASSUME NEW n \in 1 .. m, n \in P PROVE \E j \in 1 .. Len(t) : onto[j] = n
          <5>1. CASE n = m
            <6>1. Len(u) + 1 \in 1 .. Len(t) /\ onto[Len(u) + 1] = m
              BY <3>3, <4>2, <4>3
            <6> QED
              BY <5>1, <6>1
          <5>2. CASE n # m
            <6>1. n \in 1 .. m - 1
              BY <3>1, <5>2
            <6>2. PICK j \in 1 .. Len(u) : at[j] = n
              BY <3>4, <4>8, <6>1
            <6>3. j \in 1 .. Len(t) /\ j # Len(u) + 1
              BY <3>3, <4>2
            <6> QED
              BY <4>2, <4>3, <6>2, <6>3
          <5> QED
            BY <5>1, <5>2
        <4>9. Picks(t, m)
          BY <4>2, <4>5, <4>6, <4>7, <4>8
        <4> HIDE DEF Picks
        <4> QED
          BY <2>2, <4>1, <4>9 DEF t
      <3> QED
        BY <3>6, <3>7
    <2> QED
      BY <2>4, <2>5
  <1>4. Picks(f[Len(s)], Len(s))
    <2> HIDE DEF Picks
    <2> QED
      BY <1>1, <1>3
  <1> QED
    BY <1>2, <1>4

-----------------------------------------------------------------------------
(* What EventsSince returns.                                               *)

(* The last event before those that EventsSince(a) returns: a reader       *)
(* without a position gets what the ring still holds.                      *)
Before(a) == IF a < nextSeq - 1 - count THEN nextSeq - 1 - count ELSE a

(* The ring ends at the newest event and begins count - 1 before it.       *)
LEMMA NewestAndOldest ==
  ASSUME TypeOK, RingInv
  PROVE  /\ count \in Nat /\ nextSeq - 1 \in Nat /\ count <= nextSeq - 1
         /\ count = 0 => nextSeq - 1 = 0
         /\ NewestSeq = nextSeq - 1
         /\ count > 0 => OldestSeq = nextSeq - 1 - count + 1
         /\ count > 0 => OldestSeq \in Nat /\ OldestSeq <= NewestSeq
         /\ \A i \in 1 .. count : Window[i].id = nextSeq - 1 - count + i
  <1>1. /\ count \in Nat /\ nextSeq - 1 \in Nat /\ count <= nextSeq - 1
        /\ count = 0 => nextSeq - 1 = 0
    BY CapacityAssumption DEF TypeOK, RingInv, CountMatchesSeq
  <1>2. \A i \in 1 .. count : Window[i].id = nextSeq - 1 - count + i
    <2>1. \A i \in 1 .. count : Window[i].id = nextSeq - count + i - 1
      BY DEF RingInv, WindowContiguous
    <2> QED
      BY <1>1, <2>1 DEF TypeOK
  <1>3. count > 0 => OldestSeq = nextSeq - 1 - count + 1
    <2> SUFFICES ASSUME count > 0 PROVE OldestSeq = nextSeq - 1 - count + 1
      OBVIOUS
    <2>1. start \in Slots /\ start + 1 - 1 = start /\ 1 \in 1 .. count /\ 1 \in 1 .. Capacity
      BY <1>1, CapacityAssumption DEF TypeOK, Slots
    <2>2. (start + 1 - 1) % Capacity = start
      BY <2>1, ReadSlot
    <2>3. Window[1] = buf[start]
      BY <2>1, <2>2 DEF Window
    <2> QED
      BY <1>1, <1>2, <2>1, <2>3 DEF OldestSeq
  <1>4. NewestSeq = nextSeq - 1
    BY <1>1 DEF NewestSeq
  <1> QED
    BY <1>1, <1>2, <1>3, <1>4

(* EventsSince(a) is the end of the window, and so of the run, from a on.  *)
LEMMA EventsSinceIsEnd ==
  ASSUME TypeOK, RingInv, NEW a \in 0 .. nextSeq - 1, ~Overflowed(a)
  PROVE  /\ Before(a) \in 0 .. nextSeq - 1 /\ nextSeq - 1 - Before(a) <= count
         /\ a # 0 => Before(a) = a
         /\ EventsSince(a) = [j \in 1 .. nextSeq - 1 - Before(a) |->
                                Window[count - (nextSeq - 1 - Before(a)) + j]]
  <1> DEFINE newest == nextSeq - 1
             b == Before(a)
             c == count - (newest - b)
  <1>1. /\ count \in Nat /\ newest \in Nat /\ count <= newest /\ a \in Nat /\ a <= newest
        /\ count = 0 => newest = 0
        /\ \A i \in 1 .. count : Window[i].id = newest - count + i
        /\ count > 0 => OldestSeq = newest - count + 1
    BY NewestAndOldest
  <1>2. Window \in Seq(BufferedEvent) /\ Len(Window) = count
    BY WindowSeq
  <1>3. \A i \in 1 .. count : Window[i].id = newest - count + i
    BY <1>1
  <1>4. /\ b \in 0 .. newest /\ newest - b <= count /\ (a # 0 => b = a)
        /\ c \in 0 .. count /\ newest - b = count - c
    BY <1>1 DEF Before, Overflowed
  <1>5. \A i \in 1 .. count : Window[i].id > a <=> c < i
    <2> SUFFICES ASSUME NEW i \in 1 .. count PROVE newest - count + i > a <=> c < i
      BY <1>3
    <2> QED
      BY <1>1 DEF Before
  <1>6. EventsSince(a) = [j \in 1 .. count - c |-> Window[c + j]]
    <2> DEFINE P == {i \in 1 .. count : Window[i].id > a}
    <2>1. \A n \in 1 .. Len(Window) : n \in P <=> c < n
      BY <1>2, <1>5
    <2>2. EventsSince(a) = KeepAt(Window, P)
      BY DEF EventsSince
    <2> HIDE DEF P, c
    <2> QED
      BY <1>2, <1>4, <2>1, <2>2, KeepAtEnd
  <1> HIDE DEF c
  <1>7. [j \in 1 .. count - c |-> Window[c + j]] = [j \in 1 .. newest - b |-> Window[c + j]]
    BY <1>4
  <1> QED
    BY <1>4, <1>6, <1>7 DEF c

(* EventsSince never reports an overflow to a reader that is up to date,   *)
(* and otherwise returns every event after the reader's position or says   *)
(* that some were evicted (eventbuffer.go, EventsSince).                   *)
THEOREM SinceIsComplete == Spec => []SinceComplete
  <1>1. TypeOK /\ RingInv => SinceComplete
    <2> SUFFICES ASSUME TypeOK, RingInv PROVE SinceComplete
      OBVIOUS
    <2>1. /\ nextSeq - 1 \in Nat /\ NewestSeq = nextSeq - 1 /\ count \in Nat
          /\ count > 0 => OldestSeq <= NewestSeq
      BY NewestAndOldest
    <2>2. ~Overflowed(NewestSeq)
      <3>1. count > 0 => OldestSeq \in Nat
        BY NewestAndOldest
      <3> QED
        BY <2>1, <3>1 DEF Overflowed
    <2>3. ASSUME NEW a \in 1 .. nextSeq - 1, ~Overflowed(a)
          PROVE  EventsSince(a) =
                   [i \in 1 .. nextSeq - 1 - a |-> Window[count - (nextSeq - 1 - a) + i]]
      <3>1. a \in 0 .. nextSeq - 1 /\ a # 0
        BY <2>1, <2>3
      <3> QED
        BY <2>3, <3>1, EventsSinceIsEnd
    <2> QED
      BY <2>2, <2>3 DEF SinceComplete
  <1> QED
    BY <1>1, TypeCorrect, RingCorrect, PTL
=============================================================================
