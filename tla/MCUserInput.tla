---------------------------- MODULE MCUserInput -----------------------------
(* Two runs of a session on one of two pods: a second run replaces the     *)
(* handlers of the first, and answers also reach the pod without them.     *)
EXTENDS UserInput, TLC

CONSTANTS r1, r2, p1, p2

MCPodOf == [r \in InputRuns |-> p1]
=============================================================================
