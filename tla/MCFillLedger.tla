---------------------------- MODULE MCFillLedger ----------------------------
(* Four executions of two instruments.  Four orders: purchases 1 and 3, of    *)
(* which the first is filled by two executions or left with a rest, and sales *)
(* 2 and 4.  The days differ in the orders, the quantities and the seconds of *)
(* the executions, whose identifiers sort backwards; the broker never sells   *)
(* short.                                                                     *)
EXTENDS FillLedger

CONSTANTS a, b

MCCons == {a, b}
MCOrders == {1, 2, 3, 4}
MCTotals == [o \in MCOrders |-> IF o = 1 THEN 3 ELSE IF o = 4 THEN 5 ELSE 2]
Sales == {2, 4}
Prices == <<2, 5, 3, 4>>
Commissions == <<1, 2, 0, 1>>

Patterns ==
  { [order |-> <<1, 1, 2, 2>>, con |-> <<a, a, a, a>>],
    [order |-> <<1, 2, 3, 2>>, con |-> <<a, a, a, a>>],
    [order |-> <<1, 3, 1, 2>>, con |-> <<a, b, a, a>>],
    [order |-> <<1, 2, 3, 4>>, con |-> <<a, a, a, a>>] }
Times == {<<1, 2, 3, 4>>, <<1, 1, 2, 2>>, <<1, 1, 1, 2>>}
Rank == <<4, 3, 2, 1>>
Quantities == {<<1, 2, 2, 1>>, <<2, 1, 1, 1>>}

Day(p, t, q) ==
  [e \in 1..4 |->
     [order |-> p.order[e], con |-> p.con[e],
      side |-> IF p.order[e] \in Sales THEN "SLD" ELSE "BOT",
      shares |-> q[e], price |-> Prices[e], time |-> t[e], rank |-> Rank[e],
      commission |-> Commissions[e]]]

\* The sale 4 sells what the purchases 1 and 3 have bought; it may be booked before one.
SoldOut ==
  Day([order |-> <<1, 1, 3, 4>>, con |-> <<a, a, a, a>>], <<1, 2, 3, 4>>, <<1, 2, 2, 5>>)

MCDays ==
  {d \in {Day(p, t, q) : p \in Patterns, t \in Times, q \in Quantities} \cup {SoldOut} :
     \A c \in MCCons : \A n \in 1..4 : Held(d, c, n) >= 0}
MCCapital == {-4}
=============================================================================
