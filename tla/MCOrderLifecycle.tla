------------------------- MODULE MCOrderLifecycle -------------------------
(* Nothing is held.  Two BUYs of one share each and a SELL of two, which can  *)
(* be filled in two executions, one before and one after the second BUY.  The *)
(* SELL may be reported on twice.  The first BUY is authorised on the main    *)
(* loop, the others on the runtime_loop thread.                               *)
EXTENDS OrderLifecycle

CONSTANTS buy, later, sell

MCOrders == {buy, later, sell}
MCBuys == {buy, later}
MCQuantity == [o \in MCOrders |-> IF o = sell THEN 2 ELSE 1]
MCMaxReports == [o \in MCOrders |-> IF o = sell THEN 2 ELSE 1]
MCOnMain == {buy}
=============================================================================
