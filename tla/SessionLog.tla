---------------------------- MODULE SessionLog -----------------------------
(***************************************************************************)
(* What the agentic loop promises of the stored conversation of a session, *)
(* whatever fails or is cancelled.  A reply that makes calls is followed   *)
(* by the results of its calls, in their order; until they are complete    *)
(* nothing else is stored.  A run that gives up on them stores at most a   *)
(* last note.  A run announces its end once, unless it crashes, and what   *)
(* is stored between the announcement and the next run is no more than the *)
(* notes of its run-end hooks: no reply, result or error.                  *)
(***************************************************************************)
EXTENDS Naturals, Sequences

VARIABLES log,        \* the stored messages of the session
          pending,    \* the calls of the last reply that are still to be answered
          phase,      \* of the session's last run
          announced   \* how often that run has announced its end

vars == <<log, pending, phase, announced>>

Init ==
  /\ log = <<>> /\ pending = <<>>
  /\ phase = "ready" /\ announced = 1

Grows(least, most) ==
  /\ Len(log') \in Len(log) + least .. Len(log) + most
  /\ \A i \in 1 .. Len(log) : log'[i] = log[i]
Newest == log'[Len(log')]

(* At most so many messages that make no calls and answer none.            *)
AddsNotes(most) ==
  /\ Grows(0, most)
  /\ \A i \in Len(log) + 1 .. Len(log') : log'[i].role # "tool" /\ log'[i].calls = <<>>

Begin ==
  /\ phase \in {"ready", "crashed"}
  /\ AddsNotes(1)
  /\ phase' = "running" /\ announced' = 0
  /\ UNCHANGED pending

Write ==
  /\ phase = "running" /\ pending = <<>>
  /\ AddsNotes(2)
  /\ \/ phase' \in {"running", "ending"} /\ UNCHANGED announced
     \/ phase' = "announced" /\ announced' = announced + 1
  /\ UNCHANGED pending

(* A reply; its calls may be dropped at once.                              *)
Reply ==
  /\ phase = "running" /\ pending = <<>>
  /\ Grows(1, 1)
  /\ Newest.role = "assistant" /\ pending' \in {Newest.calls, <<>>}
  /\ UNCHANGED <<phase, announced>>

Result ==
  /\ phase = "running" /\ pending # <<>>
  /\ Grows(1, 1)
  /\ Newest.role = "tool" /\ Newest.id = Head(pending)
  /\ pending' = Tail(pending)
  /\ UNCHANGED <<phase, announced>>

GiveUp ==
  /\ phase = "running"
  /\ phase' = "ending" /\ pending' = <<>>
  /\ UNCHANGED <<log, announced>>

(* A run-end hook has something to add.                                    *)
Remark ==
  /\ phase = "announced"
  /\ Grows(1, 1)
  /\ Newest.role = "user" /\ Newest.calls = <<>>
  /\ UNCHANGED <<pending, phase, announced>>

(* A run that has not announced its end does so now, after what it still   *)
(* has to say.                                                             *)
End ==
  /\ \/ phase = "ending" /\ AddsNotes(1) /\ announced' = announced + 1
     \/ phase = "announced" /\ UNCHANGED <<log, announced>>
  /\ phase' = "ready"
  /\ UNCHANGED pending

Crash ==
  /\ phase \in {"running", "ending", "announced"}
  /\ phase' = "crashed" /\ pending' = <<>>
  /\ UNCHANGED <<log, announced>>

Next == Begin \/ Write \/ Reply \/ Result \/ GiveUp \/ Remark \/ End \/ Crash

Spec == Init /\ [][Next]_vars
=============================================================================
