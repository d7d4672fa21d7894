---------------------------- MODULE EventBuffer -----------------------------
(***************************************************************************)
(* The circular event buffer of one chat run                               *)
(* (internal/domain/chat/eventbuffer.go, type EventBuffer).  Every method  *)
(* holds the mutex from its first to its last statement, so each one is    *)
(* one atomic step here.                                                   *)
(***************************************************************************)
EXTENDS Naturals, Sequences

CONSTANTS Events,      \* the RunEvents a run may produce
          NoEvent,     \* the zero RunEvent of a slot never written
          Capacity,    \* slots of the ring (1000 in production)
          MaxEvents    \* bound: events appended in a behaviour

ASSUME CapacityAssumption == Capacity \in Nat \ {0}
ASSUME MaxEventsAssumption == MaxEvents \in Nat
ASSUME NoEventAssumption == NoEvent \notin Events

VARIABLES buf,         \* the ring: slot -> [id, event]
          start,       \* the slot of the oldest event
          count,       \* events held
          nextSeq,     \* the id the next event gets
          done         \* MarkDone was called

bufferVars == <<buf, start, count, nextSeq, done>>

Slots == 0 .. Capacity - 1

BufferedEvent == [id : Nat, event : Events \cup {NoEvent}]

NewEventBuffer ==
  /\ buf = [i \in Slots |-> [id |-> 0, event |-> NoEvent]]
  /\ start = 0
  /\ count = 0
  /\ nextSeq = 1
  /\ done = FALSE

(* Plausible slips of AppendEvent, for the mutation checks: start is left  *)
(* where it is when the ring is full; it is advanced without wrapping; a   *)
(* full ring drops the new event instead of the oldest.                    *)
AppendEventKeepsStart(ev) ==
  /\ nextSeq <= MaxEvents
  /\ nextSeq' = nextSeq + 1
  /\ buf' = [buf EXCEPT ![(start + count) % Capacity] =
                            [id |-> nextSeq, event |-> ev]]
  /\ count' = IF count < Capacity THEN count + 1 ELSE count
  /\ UNCHANGED <<start, done>>

AppendEventNoWrap(ev) ==
  /\ nextSeq <= MaxEvents
  /\ nextSeq' = nextSeq + 1
  /\ buf' = [buf EXCEPT ![(start + count) % Capacity] =
                            [id |-> nextSeq, event |-> ev]]
  /\ IF count < Capacity
     THEN count' = count + 1 /\ UNCHANGED start
     ELSE start' = start + 1 /\ UNCHANGED count
  /\ UNCHANGED done

AppendEventDropsNewest(ev) ==
  /\ nextSeq <= MaxEvents
  /\ nextSeq' = nextSeq + 1
  /\ IF count < Capacity
     THEN /\ buf' = [buf EXCEPT ![start + count] = [id |-> nextSeq, event |-> ev]]
          /\ count' = count + 1
     ELSE UNCHANGED <<buf, count>>
  /\ UNCHANGED <<start, done>>

(* A full ring overwrites the slot of its oldest event and advances start. *)
AppendEvent(ev) ==
  /\ nextSeq <= MaxEvents
  /\ nextSeq' = nextSeq + 1
  /\ buf' = [buf EXCEPT ![(start + count) % Capacity] =
                            [id |-> nextSeq, event |-> ev]]
  /\ IF count < Capacity
     THEN count' = count + 1 /\ UNCHANGED start
     ELSE start' = (start + 1) % Capacity /\ UNCHANGED count
  /\ UNCHANGED done

MarkDone ==
  /\ done' = TRUE
  /\ UNCHANGED <<buf, start, count, nextSeq>>

-----------------------------------------------------------------------------
(* The readers' methods.                                                   *)

IsDone == done

(* The loops of EventsSince walk the ring from start.                      *)
Window == [i \in 1 .. count |-> buf[(start + i - 1) % Capacity]]

OldestSeq == IF count = 0 THEN 0 ELSE buf[start].id

NewestSeq == IF count = 0 THEN 0 ELSE nextSeq - 1

(* The elements of s at the positions in P, in the order of s: the loops   *)
(* that filter events append them one by one.                              *)
KeepAt(s, P) ==
  LET kept[n \in 0 .. Len(s)] ==
        IF n = 0 THEN << >>
        ELSE IF n \in P THEN Append(kept[n - 1], s[n])
        ELSE kept[n - 1]
  IN  kept[Len(s)]

(* A slip for the mutation checks: eviction is never reported.             *)
OverflowedNever(afterSeq) == FALSE

(* EventsSince returns a slice and a flag; the flag is false when the      *)
(* buffer says that the caller has missed evicted events.                  *)
Overflowed(afterSeq) == count > 0 /\ afterSeq # 0 /\ afterSeq < OldestSeq

(* A slip for the mutation checks: the comparison is off by one.           *)
EventsFrom(afterSeq) ==
  IF Overflowed(afterSeq)
  THEN << >>
  ELSE KeepAt(Window, {i \in 1 .. count : Window[i].id >= afterSeq})

EventsSince(afterSeq) ==
  IF Overflowed(afterSeq)
  THEN << >>
  ELSE KeepAt(Window, {i \in 1 .. count : Window[i].id > afterSeq})

-----------------------------------------------------------------------------
Init == NewEventBuffer

Next ==
  \/ \E ev \in Events : AppendEvent(ev)
  \/ MarkDone

Spec == Init /\ [][Next]_bufferVars

-----------------------------------------------------------------------------
TypeOK ==
  /\ buf \in [Slots -> BufferedEvent]
  /\ start \in Slots
  /\ count \in 0 .. Capacity
  /\ nextSeq \in Nat \ {0}
  /\ done \in BOOLEAN

(* Until the ring is full it is filled from slot 0; after that it holds    *)
(* exactly the last Capacity events.                                       *)
CountMatchesSeq ==
  /\ count < Capacity => start = 0
  /\ count = IF nextSeq - 1 < Capacity THEN nextSeq - 1 ELSE Capacity

(* Whatever wrapping has happened, reading the ring from start yields      *)
(* written events only, with consecutive ids that end at nextSeq - 1: the  *)
(* replay of EventsSince has neither holes nor repetitions nor stale       *)
(* slots.                                                                  *)
WindowContiguous ==
  \A i \in 1 .. count :
    /\ Window[i].id = nextSeq - count + i - 1
    /\ Window[i].event \in Events

RingInv == CountMatchesSeq /\ WindowContiguous

(* EventsSince never reports an overflow to a reader that is up to date,   *)
(* and when it does not report one to a reader with a position it returns  *)
(* exactly the events after that position, none evicted.                   *)
SinceComplete ==
  /\ ~Overflowed(NewestSeq)
  /\ \A a \in 1 .. nextSeq - 1 :
       ~Overflowed(a) =>
         EventsSince(a) =
           [i \in 1 .. nextSeq - 1 - a |-> Window[count - (nextSeq - 1 - a) + i]]

(* The ring implements the sliding window.                                 *)
Log == INSTANCE EventLog WITH window <- Window

LogSpec == Log!Spec
=============================================================================
