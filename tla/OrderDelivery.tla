--------------------------- MODULE OrderDelivery ---------------------------
(***************************************************************************)
(* What the order path promises between an OrderManager that routes an     *)
(* order and the gateway that places it: an order is taken at most once,   *)
(* no paper order is taken while a live order waits, orders of one mode    *)
(* are taken in the order they arrived, and the path closes only when      *)
(* nothing waits.  OrderRouter is shown to implement this module.          *)
(***************************************************************************)
EXTENDS Integers, Sequences

CONSTANTS
  Orders,       \* the order trackers that can be routed
  LiveOrders    \* those whose session key has mode LIVE; the others are PAPER

VARIABLES
  arrived,      \* every order routed so far, in order of arrival
  taken,        \* the arrival numbers and orders taken so far, in that order
  closing,      \* the path has been asked to close
  closed        \* the path has closed: nothing is taken any more

dvars == <<arrived, taken, closing, closed>>

Waiting ==
  {k \in 1 .. Len(arrived) : \A i \in 1 .. Len(taken) : taken[i].seq # k}

\* Arrival j goes ahead of arrival k: live before paper, then first come first served.
Ahead(j, k) ==
  \/ arrived[j] \in LiveOrders /\ arrived[k] \notin LiveOrders
  \/ (arrived[j] \in LiveOrders <=> arrived[k] \in LiveOrders) /\ j < k

Init ==
  /\ arrived = << >>
  /\ taken = << >>
  /\ closing = FALSE
  /\ closed = FALSE

Submit(o) ==
  /\ \A k \in 1 .. Len(arrived) : arrived[k] # o
  /\ arrived' = Append(arrived, o)
  /\ UNCHANGED <<taken, closing, closed>>

Take(k) ==
  /\ ~closed
  /\ k \in Waiting
  /\ \A j \in Waiting : ~Ahead(j, k)
  /\ taken' = Append(taken, [seq |-> k, order |-> arrived[k]])
  /\ UNCHANGED <<arrived, closing, closed>>

TakeNext == \E k \in Waiting : Take(k)

AskToClose ==
  /\ closing' = TRUE
  /\ UNCHANGED <<arrived, taken, closed>>

Close ==
  /\ closing
  /\ Waiting = {}
  /\ closed' = TRUE
  /\ UNCHANGED <<arrived, taken, closing>>

Next ==
  \/ \E o \in Orders : Submit(o)
  \/ TakeNext
  \/ AskToClose
  \/ Close

\* An open path keeps taking orders as long as one waits.
Spec == Init /\ [][Next]_dvars /\ WF_dvars(TakeNext)

\* The safety part alone, which the proofs are about.
SafeSpec == Init /\ [][Next]_dvars
=============================================================================
