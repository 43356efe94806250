----------------------------- MODULE MCCostLedger -----------------------------
(* Two servers and three calls, two of them of the same tool within the    *)
(* same millisecond.                                                       *)
EXTENDS CostLedger

MCKey == [c \in Call |-> IF c = 3 THEN 2 ELSE c]
================================================================================
