------------------------------ MODULE EventLog ------------------------------
(***************************************************************************)
(* What the event buffer of one chat run promises to its readers: a        *)
(* sliding window over the sequence of events the run has produced.  Every *)
(* event gets the next sequence number, starting at 1; the window holds    *)
(* the most recent events, at most Capacity of them; once full it drops    *)
(* its oldest event for every new one; and a run that is done stays done.  *)
(* Nothing is said of how the window is stored.                            *)
(***************************************************************************)
EXTENDS Naturals, Sequences

CONSTANTS Events,      \* the events a run may produce
          Capacity,    \* the events the window holds at most
          MaxEvents    \* bound: events appended in a behaviour

VARIABLES window,      \* the retained events with their ids, oldest first
          nextSeq,     \* the id the next event will get
          done         \* no more events are expected

vars == <<window, nextSeq, done>>

Init ==
  /\ window = << >>
  /\ nextSeq = 1
  /\ done = FALSE

(* The newest event enters the window and, if the window was full, the     *)
(* oldest one leaves it.                                                   *)
AppendEvent(ev) ==
  /\ nextSeq <= MaxEvents
  /\ nextSeq' = nextSeq + 1
  /\ LET entry == [id |-> nextSeq, event |-> ev]
     IN  window' = IF Len(window) < Capacity
                   THEN Append(window, entry)
                   ELSE Append(Tail(window), entry)
  /\ UNCHANGED done

MarkDone ==
  /\ done' = TRUE
  /\ UNCHANGED <<window, nextSeq>>

Next ==
  \/ \E ev \in Events : AppendEvent(ev)
  \/ MarkDone

Spec == Init /\ [][Next]_vars
=============================================================================
