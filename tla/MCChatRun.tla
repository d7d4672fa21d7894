----------------------------- MODULE MCChatRun ------------------------------
EXTENDS ChatRun, TLC

CONSTANTS r1, r2, r3, s1, s2, p1, p2, k1

(* A single run: for what its requests, deliveries and cancels do.         *)
Runs1 == {r1}
SessionOf1 == [r \in Runs1 |-> s1]

(* Two runs of one session.                                                *)
Runs2 == {r1, r2}
SessionOf2 == [r \in Runs2 |-> s1]

(* Three runs, two of them of the same session.                            *)
Runs3 == {r1, r2, r3}
SessionOf3 == (r1 :> s1) @@ (r2 :> s1) @@ (r3 :> s2)

Pods1 == {p1}
Pods2 == {p1, p2}
=============================================================================
