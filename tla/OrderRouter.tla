---------------------------- MODULE OrderRouter ----------------------------
(***************************************************************************)
(* GlobalOrderRouter (trading/router.py) and the thread that runs its      *)
(* loop.  route_order is called by any thread and appends to one of two    *)
(* deques under the condition variable's lock; the order_router thread     *)
(* pops the live deque first and hands what it popped to the gateway's     *)
(* sink outside the lock.                                                  *)
(*                                                                         *)
(* Each action is one critical section, or one piece of the loop between   *)
(* two of them.  arrived and popped are history variables: the order of    *)
(* arrival and the order of removal from the deques.                       *)
(***************************************************************************)
EXTENDS Integers, Sequences, FiniteSets

CONSTANTS
  Trackers,     \* the order trackers that can be routed
  LiveOrders,   \* those whose session_key.mode is "LIVE"
  NoOrder       \* no routed order in hand

ASSUME RouterAssumption == LiveOrders \subseteq Trackers

RoutedOrder == [seq : Nat \ {0}, order : Trackers]

ASSUME NoOrderAssumption == NoOrder \notin RoutedOrder

VARIABLES
  seq,       \* self._seq
  live,      \* self._live
  paper,     \* self._paper
  stop,      \* the stop event of the ManagedThread
  loop,      \* where the order_router thread is
  current,   \* the local routed_order of the loop
  failed,    \* orders whose sink raised: the exception is printed and swallowed
  arrived,   \* history: orders in the order route_order ran
  popped,    \* history: routed orders in the order _pop_next returned them
  early      \* history: number of orders that had arrived when stop was set

routerVars == <<seq, live, paper, stop, loop, current, failed, arrived, popped, early>>
queues == <<seq, live, paper, arrived>>

LoopStates == {"check", "locked", "waiting", "sink", "returned"}

RouterTypeOK ==
  /\ seq \in Nat
  /\ live \in Seq(RoutedOrder)
  /\ paper \in Seq(RoutedOrder)
  /\ stop \in BOOLEAN
  /\ loop \in LoopStates
  /\ current \in RoutedOrder \cup {NoOrder}
  /\ failed \subseteq Trackers
  /\ arrived \in Seq(Trackers)
  /\ popped \in Seq(RoutedOrder)
  /\ early \in Nat

RouterInit ==
  /\ seq = 0
  /\ live = << >>
  /\ paper = << >>
  /\ stop = FALSE
  /\ loop = "check"
  /\ current = NoOrder
  /\ failed = {}
  /\ arrived = << >>
  /\ popped = << >>
  /\ early = 0

PendingCount == Len(live) + Len(paper)

(***************************************************************************)
(* Producers.  An OrderManager routes a tracker once: it has popped it     *)
(* from its pending orders, or just created it for the risk manager.       *)
(***************************************************************************)
\* Mutant: the sequence number is read before it is incremented.
RouteOrderStaleSeq(o) ==
  /\ \A k \in 1 .. Len(arrived) : arrived[k] # o
  /\ seq' = seq + 1
  /\ LET ro == [seq |-> seq, order |-> o]
     IN  IF o \in LiveOrders
         THEN live' = Append(live, ro) /\ UNCHANGED paper
         ELSE paper' = Append(paper, ro) /\ UNCHANGED live
  /\ loop' = IF loop = "waiting" THEN "locked" ELSE loop
  /\ arrived' = Append(arrived, o)
  /\ UNCHANGED <<stop, current, failed, popped, early>>

\* Mutant: appendleft instead of append.
RouteOrderLifo(o) ==
  /\ \A k \in 1 .. Len(arrived) : arrived[k] # o
  /\ seq' = seq + 1
  /\ LET ro == [seq |-> seq + 1, order |-> o]
     IN  IF o \in LiveOrders
         THEN live' = <<ro>> \o live /\ UNCHANGED paper
         ELSE paper' = <<ro>> \o paper /\ UNCHANGED live
  /\ loop' = IF loop = "waiting" THEN "locked" ELSE loop
  /\ arrived' = Append(arrived, o)
  /\ UNCHANGED <<stop, current, failed, popped, early>>

RouteOrder(o) ==
  /\ \A k \in 1 .. Len(arrived) : arrived[k] # o
  /\ seq' = seq + 1
  /\ LET ro == [seq |-> seq + 1, order |-> o]
     IN  IF o \in LiveOrders
         THEN live' = Append(live, ro) /\ UNCHANGED paper
         ELSE paper' = Append(paper, ro) /\ UNCHANGED live
  /\ loop' = IF loop = "waiting" THEN "locked" ELSE loop     \* notify_all
  /\ arrived' = Append(arrived, o)
  /\ UNCHANGED <<stop, current, failed, popped, early>>

\* ThreadManager.stop_thread("order_router"): set the event, then join.
RequestStop ==
  /\ ~stop
  /\ stop' = TRUE
  /\ early' = Len(arrived)
  /\ UNCHANGED <<loop, current, failed, popped>>
  /\ UNCHANGED queues

(***************************************************************************)
(* The order_router thread.                                                *)
(***************************************************************************)
\* Mutant: the loop ends as soon as the event is set.
MayLeaveEager == stop

\* The condition of the outer while: leave only once stopped and drained.
MayLeave == stop /\ PendingCount = 0

CheckLoop ==
  /\ loop = "check"
  /\ loop' = IF MayLeave THEN "returned" ELSE "locked"
  /\ UNCHANGED <<stop, current, failed, popped, early>>
  /\ UNCHANGED queues

Take(ro) ==
  /\ current' = ro
  /\ popped' = Append(popped, ro)
  /\ loop' = "sink"
  /\ UNCHANGED <<seq, stop, failed, arrived, early>>

\* Mutant: the paper deque is served first.
PopPaperFirst ==
  /\ loop = "locked"
  /\ \/ /\ paper # << >>
        /\ Take(Head(paper))
        /\ paper' = Tail(paper)
        /\ UNCHANGED live
     \/ /\ paper = << >>
        /\ live # << >>
        /\ Take(Head(live))
        /\ live' = Tail(live)
        /\ UNCHANGED paper

\* Mutant: the head of the paper deque is read and left in place.
PopWithoutRemoving ==
  /\ loop = "locked"
  /\ IF live # << >>
     THEN Take(Head(live)) /\ live' = Tail(live) /\ UNCHANGED paper
     ELSE paper # << >> /\ Take(Head(paper)) /\ UNCHANGED <<live, paper>>

PopNext ==
  /\ loop = "locked"
  /\ \/ /\ live # << >>
        /\ Take(Head(live))
        /\ live' = Tail(live)
        /\ UNCHANGED paper
     \/ /\ live = << >>
        /\ paper # << >>
        /\ Take(Head(paper))
        /\ paper' = Tail(paper)
        /\ UNCHANGED live

\* Both deques empty: leave if the event is set, otherwise cv.wait releases the lock.
ParkOrReturn ==
  /\ loop = "locked"
  /\ PendingCount = 0
  /\ loop' = IF stop THEN "returned" ELSE "waiting"
  /\ UNCHANGED <<stop, current, failed, popped, early>>
  /\ UNCHANGED queues

\* cv.wait(timeout=0.5) ends without a notification.
WaitTimeout ==
  /\ loop = "waiting"
  /\ loop' = "locked"
  /\ UNCHANGED <<stop, current, failed, popped, early>>
  /\ UNCHANGED queues

\* Mutant: an exception of the sink ends the thread.
CallSinkFatal ==
  /\ loop = "sink"
  /\ current' = NoOrder
  /\ \/ loop' = "check" /\ UNCHANGED failed
     \/ loop' = "returned" /\ failed' = failed \cup {current.order}
  /\ UNCHANGED <<stop, popped, early>>
  /\ UNCHANGED queues

\* The sink runs outside the lock; whether it returns or raises, the loop goes on.
CallSink ==
  /\ loop = "sink"
  /\ loop' = "check"
  /\ current' = NoOrder
  /\ \/ UNCHANGED failed
     \/ failed' = failed \cup {current.order}
  /\ UNCHANGED <<stop, popped, early>>
  /\ UNCHANGED queues

RouterThread == CheckLoop \/ PopNext \/ ParkOrReturn \/ WaitTimeout \/ CallSink

RouterNext ==
  \/ \E o \in Trackers : RouteOrder(o)
  \/ RequestStop
  \/ RouterThread

RouterSafeSpec == RouterInit /\ [][RouterNext]_routerVars

\* The thread runs until its target returns; cv.wait has a timeout, so it wakes by itself.
RouterSpec == RouterSafeSpec /\ WF_routerVars(RouterThread)

(***************************************************************************)
(* Properties.                                                             *)
(***************************************************************************)
Mode(ro) == IF ro.order \in LiveOrders THEN "LIVE" ELSE "PAPER"

Holds(q, k) == \E i \in 1 .. Len(q) : q[i].seq = k

\* Nothing routed is lost and nothing is handed over twice: every sequence number given
\* out by route_order is in exactly one of the two deques and the popped orders, and it
\* was popped at most once (router.py: route_order and _pop_next under one lock).
ExactlyOnePlace ==
  \A k \in 1 .. seq :
    /\ Holds(live, k) \/ Holds(paper, k) \/ Holds(popped, k)
    /\ ~(Holds(live, k) /\ Holds(paper, k))
    /\ Holds(popped, k) => ~Holds(live, k) /\ ~Holds(paper, k)
    /\ \A i, j \in 1 .. Len(popped) :
         popped[i].seq = k /\ popped[j].seq = k => i = j

\* Orders of one mode reach the sink in the order they were routed, whatever the other
\* mode's traffic, the waits and the failures of the sink in between.
FifoPerMode ==
  \A i, j \in 1 .. Len(popped) :
    i < j /\ Mode(popped[i]) = Mode(popped[j]) => popped[i].seq < popped[j].seq

\* Once the thread has returned, every order that was routed before the stop was
\* requested has been handed to the sink: stopping the router drains it.
DrainedAtStop ==
  loop = "returned" => /\ current = NoOrder
                       /\ \A k \in 1 .. early : Holds(popped, k)

\* Every order routed before a stop is requested reaches the sink in the end: neither a
\* stop, a lost wakeup nor a sink that raises can leave it in a deque.
EventuallyHanded ==
  \A k \in 1 .. Cardinality(Trackers) :
    (k <= seq /\ ~stop) ~> Holds(popped, k)

\* The router implements the delivery promise: the orders taken are those popped, and
\* the path is closed when the thread has returned.
Delivery == INSTANCE OrderDelivery WITH
  Orders <- Trackers, taken <- popped, closing <- stop, closed <- (loop = "returned")

ImplementsDelivery == Delivery!Spec
=============================================================================
