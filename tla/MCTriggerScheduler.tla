------------------------- MODULE MCTriggerScheduler -------------------------
(* One trigger and one pod; a day of two hours of four minutes.            *)
EXTENDS TriggerScheduler

CONSTANTS t1, p1

Every(n) == [kind |-> "step", n |-> n]
At(n) == [kind |-> "literal", n |-> n]
Always == [kind |-> "any", n |-> 0]

MCCrons == {[minute |-> Every(2), hour |-> Always], [minute |-> At(1), hour |-> At(1)]}
=============================================================================
