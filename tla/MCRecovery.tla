----------------------------- MODULE MCRecovery -----------------------------
(* Two days, each with its own order; the first can be filled in two         *)
(* executions.                                                               *)
EXTENDS Recovery

CONSTANTS a, b

MCOrders == {a, b}
MCBatch == [d \in Days |-> IF d = 1 THEN {a} ELSE {b}]
MCQuantity == [o \in MCOrders |-> IF o = a THEN 2 ELSE 1]
=============================================================================
