---------------------------- MODULE OrderPromise ----------------------------
(***************************************************************************)
(* What an order tracker promises to the rest of a trading session: the    *)
(* life of an order has one direction, what remains only shrinks, an order *)
(* is FILLED exactly when nothing remains, and a filled order is booked in *)
(* the portfolio at most once, after it was filled.  OrderLifecycle is     *)
(* shown to implement this module.                                         *)
(***************************************************************************)
EXTENDS Integers

CONSTANTS
  Orders,       \* the order trackers
  Quantity      \* [Orders -> Nat \ {0}], the quantity of each request

VARIABLES
  status,       \* OrderState.status
  remaining,    \* OrderState.remaining_quantity
  booked        \* the orders booked in the portfolio

pvars == <<status, remaining, booked>>

Init ==
  /\ status = [o \in Orders |-> "CREATED"]
  /\ remaining = Quantity
  /\ booked = {}

Acknowledge(o) ==
  /\ status[o] = "CREATED"
  /\ status' = [status EXCEPT ![o] = "SUBMITTED"]
  /\ UNCHANGED <<remaining, booked>>

Execute(o, k) ==
  /\ status[o] \in {"SUBMITTED", "PARTIALLY_FILLED"}
  /\ remaining' = [remaining EXCEPT ![o] = @ - k]
  /\ status' = [status EXCEPT ![o] = IF k = remaining[o] THEN "FILLED" ELSE "PARTIALLY_FILLED"]
  /\ UNCHANGED booked

End(o) ==
  /\ \/ /\ status[o] \in {"CREATED", "SUBMITTED", "PARTIALLY_FILLED"}
        /\ status' = [status EXCEPT ![o] = "CANCELLED"]
     \/ /\ status[o] = "SUBMITTED"
        /\ status' = [status EXCEPT ![o] = "REJECTED"]
  /\ UNCHANGED <<remaining, booked>>

Book(o) ==
  /\ status[o] = "FILLED"
  /\ o \notin booked
  /\ booked' = booked \cup {o}
  /\ UNCHANGED <<status, remaining>>

Next ==
  \E o \in Orders :
    \/ Acknowledge(o)
    \/ \E k \in 1 .. remaining[o] : Execute(o, k)
    \/ End(o)
    \/ Book(o)

Spec == Init /\ [][Next]_pvars
=============================================================================
