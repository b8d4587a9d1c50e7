----------------------------- MODULE OrderProofs -----------------------------
(***************************************************************************)
(* Proofs about the two halves of an order's way: OrderRouter, which hands *)
(* it from an OrderManager to the gateway, for any set of trackers, and    *)
(* OrderLifecycle, which follows it from there to the portfolio, for any   *)
(* set of orders, quantities, sides and assignment of the orders to        *)
(* threads.                                                                *)
(***************************************************************************)
EXTENDS OrderRouter, OrderLifecycle, SumLemmas, TLAPS

(***************************************************************************)
(* OrderRouter.                                                            *)
(*                                                                         *)
(* HandInv ties the loop's local variable to where the loop is, and is all *)
(* that type correctness needs.  QueueInv says where every sequence number *)
(* is and in which order, and supports the delivery properties.  DrainInv  *)
(* follows the stop request until the thread returns.                      *)
(***************************************************************************)
LEMMA AppendFacts ==
  ASSUME NEW S, NEW s \in Seq(S), NEW e \in S
  PROVE  /\ Append(s, e) \in Seq(S)
         /\ Len(Append(s, e)) = Len(s) + 1
         /\ \A i \in 1 .. Len(s) : Append(s, e)[i] = s[i]
         /\ Append(s, e)[Len(s) + 1] = e
OBVIOUS

LEMMA TailFacts ==
  ASSUME NEW S, NEW s \in Seq(S), s # << >>
  PROVE  /\ Head(s) \in S
         /\ Head(s) = s[1]
         /\ Len(s) > 0
         /\ Tail(s) \in Seq(S)
         /\ Len(Tail(s)) = Len(s) - 1
         /\ \A i \in 1 .. Len(s) - 1 : Tail(s)[i] = s[i + 1]
OBVIOUS

(***************************************************************************)
(* Type correctness.                                                       *)
(***************************************************************************)
HandInv == current # NoOrder <=> loop = "sink"

RouterTypeInv == RouterTypeOK /\ HandInv

LEMMA RouteOrderType ==
  ASSUME RouterTypeInv, NEW o \in Trackers, RouteOrder(o)
  PROVE  RouterTypeInv'
<1> DEFINE ro == [seq |-> seq + 1, order |-> o]
<1>1. ro \in RoutedOrder
  BY DEF RouterTypeInv, RouterTypeOK, RoutedOrder
<1>2. Append(live, ro) \in Seq(RoutedOrder) /\ Append(paper, ro) \in Seq(RoutedOrder)
  BY <1>1, AppendFacts DEF RouterTypeInv, RouterTypeOK
<1>3. live' \in Seq(RoutedOrder) /\ paper' \in Seq(RoutedOrder)
  BY <1>2 DEF RouteOrder, RouterTypeInv, RouterTypeOK
<1>4. arrived' \in Seq(Trackers)
  BY AppendFacts DEF RouteOrder, RouterTypeInv, RouterTypeOK
<1> HIDE DEF ro
<1>5. RouterTypeOK'
  BY <1>3, <1>4 DEF RouteOrder, RouterTypeInv, RouterTypeOK, LoopStates
<1>6. HandInv'
  BY DEF RouteOrder, RouterTypeInv, HandInv
<1>7. QED
  BY <1>5, <1>6 DEF RouterTypeInv

LEMMA TakeType ==
  ASSUME RouterTypeInv, NEW ro \in RoutedOrder, Take(ro),
         live' \in Seq(RoutedOrder), paper' \in Seq(RoutedOrder)
  PROVE  RouterTypeInv'
BY AppendFacts, NoOrderAssumption DEF Take, RouterTypeInv, RouterTypeOK, HandInv, LoopStates

LEMMA PopNextType ==
  ASSUME RouterTypeInv, PopNext
  PROVE  RouterTypeInv'
<1>1. CASE live # << >> /\ Take(Head(live)) /\ live' = Tail(live) /\ UNCHANGED paper
  BY <1>1, TailFacts, TakeType DEF RouterTypeInv, RouterTypeOK
<1>2. CASE paper # << >> /\ Take(Head(paper)) /\ paper' = Tail(paper) /\ UNCHANGED live
  BY <1>2, TailFacts, TakeType DEF RouterTypeInv, RouterTypeOK
<1>3. QED
  BY <1>1, <1>2 DEF PopNext

LEMMA NextType ==
  ASSUME RouterTypeInv, [RouterNext]_routerVars
  PROVE  RouterTypeInv'
<1> USE DEF RouterTypeInv, RouterTypeOK, HandInv
<1>1. CASE \E o \in Trackers : RouteOrder(o)
  BY <1>1, RouteOrderType
<1>2. CASE RequestStop
  BY <1>2 DEF RequestStop, queues
<1>3. CASE CheckLoop
  BY <1>3 DEF CheckLoop, queues, LoopStates
<1>4. CASE PopNext
  BY <1>4, PopNextType
<1>5. CASE ParkOrReturn
  BY <1>5 DEF ParkOrReturn, queues, LoopStates
<1>6. CASE WaitTimeout
  BY <1>6 DEF WaitTimeout, queues, LoopStates
<1>7. CASE CallSink
  <2>1. current.order \in Trackers
    BY <1>7 DEF CallSink, RoutedOrder
  <2>2. QED
    BY <1>7, <2>1 DEF CallSink, LoopStates, queues
<1>8. CASE UNCHANGED routerVars
  BY <1>8 DEF routerVars
<1>9. QED
  BY <1>1, <1>2, <1>3, <1>4, <1>5, <1>6, <1>7, <1>8 DEF RouterNext, RouterThread

(***************************************************************************)
(* Where the orders are.  The parts of the invariant are stated for any    *)
(* deque q, history p and arrivals a, so that the lemmas about one step    *)
(* serve both deques.                                                      *)
(***************************************************************************)
\* The entries of a deque or of the history carry the number of their arrival.
Numbered(q, a) ==
  \A i \in 1 .. Len(q) : q[i].seq \in 1 .. Len(a) /\ q[i].order = a[q[i].seq]

OfMode(q, m) == \A i \in 1 .. Len(q) : Mode(q[i]) = m

Sorted(q) == \A i, j \in 1 .. Len(q) : i < j => q[i].seq < q[j].seq

\* What was popped of one mode arrived before what still waits of that mode.
PoppedBefore(p, q, m) ==
  \A i \in 1 .. Len(p), j \in 1 .. Len(q) : Mode(p[i]) = m => p[i].seq < q[j].seq

Deque(q, p, a, m) ==
  Numbered(q, a) /\ OfMode(q, m) /\ Sorted(q) /\ PoppedBefore(p, q, m)

Fifo(p) ==
  \A i, j \in 1 .. Len(p) : i < j /\ Mode(p[i]) = Mode(p[j]) => p[i].seq < p[j].seq

NoLoss == \A k \in 1 .. seq : Holds(live, k) \/ Holds(paper, k) \/ Holds(popped, k)

QueueInv ==
  /\ seq = Len(arrived)
  /\ Numbered(popped, arrived)
  /\ Deque(live, popped, arrived, "LIVE")
  /\ Deque(paper, popped, arrived, "PAPER")
  /\ Fifo(popped)
  /\ NoLoss

LEMMA NumberedLater ==
  ASSUME NEW q \in Seq(RoutedOrder), NEW a \in Seq(Trackers), NEW o \in Trackers,
         Numbered(q, a)
  PROVE  Numbered(q, Append(a, o))
<1>1. Len(Append(a, o)) = Len(a) + 1 /\ \A k \in 1 .. Len(a) : Append(a, o)[k] = a[k]
  BY AppendFacts
<1>2. Len(a) \in Nat
  OBVIOUS
<1>3. QED
  BY <1>1, <1>2 DEF Numbered

\* route_order appends an entry numbered after everything that has arrived.
LEMMA DequeAppend ==
  ASSUME NEW q \in Seq(RoutedOrder), NEW p \in Seq(RoutedOrder), NEW a \in Seq(Trackers),
         NEW o \in Trackers, NEW ro \in RoutedOrder, NEW m,
         Deque(q, p, a, m), Numbered(p, a),
         ro.seq = Len(a) + 1, ro.order = o, Mode(ro) = m
  PROVE  Deque(Append(q, ro), p, Append(a, o), m)
<1> DEFINE r == Append(q, ro)
           b == Append(a, o)
<1>1. r \in Seq(RoutedOrder) /\ Len(r) = Len(q) + 1 /\ r[Len(q) + 1] = ro
      /\ \A i \in 1 .. Len(q) : r[i] = q[i]
  BY AppendFacts
<1>2. Len(b) = Len(a) + 1 /\ b[Len(a) + 1] = o /\ \A k \in 1 .. Len(a) : b[k] = a[k]
  BY AppendFacts
<1>3. Len(a) \in Nat /\ Len(q) \in Nat /\ Len(p) \in Nat
  OBVIOUS
<1>4. \A i \in 1 .. Len(q) : q[i] \in RoutedOrder
  OBVIOUS
<1> HIDE DEF r, b
<1>5. Numbered(r, b)
  <2> SUFFICES ASSUME NEW i \in 1 .. Len(r)
               PROVE  r[i].seq \in 1 .. Len(b) /\ r[i].order = b[r[i].seq]
    BY DEF Numbered
  <2>1. CASE i \in 1 .. Len(q)
    <3>1. q[i].seq \in 1 .. Len(a) /\ q[i].order = a[q[i].seq]
      BY <2>1 DEF Deque, Numbered
    <3>2. QED
      BY <1>1, <1>2, <1>3, <2>1, <3>1
  <2>2. CASE i = Len(q) + 1
    BY <1>1, <1>2, <1>3, <2>2
  <2>3. QED
    BY <1>1, <1>3, <2>1, <2>2
<1>6. OfMode(r, m)
  BY <1>1, <1>3 DEF Deque, OfMode
<1>7. Sorted(r)
  <2> SUFFICES ASSUME NEW i \in 1 .. Len(r), NEW j \in 1 .. Len(r), i < j
               PROVE  r[i].seq < r[j].seq
    BY DEF Sorted
  <2>1. i \in 1 .. Len(q) /\ r[i] = q[i] /\ q[i].seq \in 1 .. Len(a)
    BY <1>1, <1>3 DEF Deque, Numbered
  <2>2. CASE j \in 1 .. Len(q)
    BY <1>1, <2>1, <2>2 DEF Deque, Sorted
  <2>3. CASE j = Len(q) + 1
    BY <1>1, <1>3, <2>1, <2>3
  <2>4. QED
    BY <1>1, <1>3, <2>2, <2>3
<1>8. PoppedBefore(p, r, m)
  <2> SUFFICES ASSUME NEW i \in 1 .. Len(p), NEW j \in 1 .. Len(r), Mode(p[i]) = m
               PROVE  p[i].seq < r[j].seq
    BY DEF PoppedBefore
  <2>1. CASE j \in 1 .. Len(q)
    BY <1>1, <2>1 DEF Deque, PoppedBefore
  <2>2. CASE j = Len(q) + 1
    <3>1. p[i].seq \in 1 .. Len(a)
      BY DEF Numbered
    <3>2. QED
      BY <1>1, <1>3, <2>2, <3>1
  <2>3. QED
    BY <1>1, <1>3, <2>1, <2>2
<1>9. QED
  BY <1>5, <1>6, <1>7, <1>8 DEF Deque, r, b

\* _pop_next moves the first entry of a deque to the end of the history.
LEMMA DequePop ==
  ASSUME NEW q \in Seq(RoutedOrder), q # << >>, NEW p \in Seq(RoutedOrder),
         NEW a \in Seq(Trackers), NEW m, Deque(q, p, a, m), Numbered(p, a), Fifo(p)
  PROVE  /\ Deque(Tail(q), Append(p, Head(q)), a, m)
         /\ Numbered(Append(p, Head(q)), a)
         /\ Fifo(Append(p, Head(q)))
         /\ Mode(Head(q)) = m
<1> DEFINE e == Head(q)
           t == Tail(q)
           r == Append(p, e)
<1>1. /\ e \in RoutedOrder /\ e = q[1] /\ Len(q) > 0 /\ Len(t) = Len(q) - 1
      /\ \A i \in 1 .. Len(t) : t[i] = q[i + 1]
  BY TailFacts
<1>2. r \in Seq(RoutedOrder) /\ Len(r) = Len(p) + 1 /\ r[Len(p) + 1] = e
      /\ \A i \in 1 .. Len(p) : r[i] = p[i]
  BY <1>1, AppendFacts
<1>3. Len(a) \in Nat /\ Len(q) \in Nat /\ Len(p) \in Nat
  OBVIOUS
<1> HIDE DEF e, t, r
<1>4. Mode(e) = m
  BY <1>1, <1>3 DEF Deque, OfMode
<1>5. Numbered(t, a) /\ OfMode(t, m) /\ Sorted(t)
  <2>1. \A i \in 1 .. Len(t) : i + 1 \in 1 .. Len(q) /\ t[i] = q[i + 1]
    BY <1>1, <1>3
  <2>2. Numbered(t, a)
    BY <2>1 DEF Deque, Numbered
  <2>3. OfMode(t, m)
    BY <2>1 DEF Deque, OfMode
  <2>4. Sorted(t)
    <3> SUFFICES ASSUME NEW i \in 1 .. Len(t), NEW j \in 1 .. Len(t), i < j
                 PROVE  t[i].seq < t[j].seq
      BY DEF Sorted
    <3>1. i + 1 < j + 1
      OBVIOUS
    <3>2. QED
      BY <2>1, <3>1 DEF Deque, Sorted
  <2>5. QED
    BY <2>2, <2>3, <2>4
<1>6. PoppedBefore(r, t, m)
  <2> SUFFICES ASSUME NEW i \in 1 .. Len(r), NEW j \in 1 .. Len(t), Mode(r[i]) = m
               PROVE  r[i].seq < t[j].seq
    BY DEF PoppedBefore
  <2>1. j + 1 \in 1 .. Len(q) /\ t[j] = q[j + 1]
    BY <1>1, <1>3
  <2>2. CASE i \in 1 .. Len(p)
    BY <1>2, <2>1, <2>2 DEF Deque, PoppedBefore
  <2>3. CASE i = Len(p) + 1
    <3>1. 1 \in 1 .. Len(q) /\ 1 < j + 1
      BY <1>1, <1>3
    <3>2. QED
      BY <1>1, <1>2, <2>1, <2>3, <3>1 DEF Deque, Sorted
  <2>4. QED
    BY <1>2, <1>3, <2>2, <2>3
<1>7. Numbered(r, a)
  <2> SUFFICES ASSUME NEW i \in 1 .. Len(r)
               PROVE  r[i].seq \in 1 .. Len(a) /\ r[i].order = a[r[i].seq]
    BY DEF Numbered
  <2>1. CASE i \in 1 .. Len(p)
    BY <1>2, <2>1 DEF Numbered
  <2>2. CASE i = Len(p) + 1
    <3>1. Numbered(q, a) /\ 1 \in 1 .. Len(q)
      BY <1>1, <1>3 DEF Deque
    <3>2. QED
      BY <1>1, <1>2, <2>2, <3>1 DEF Numbered
  <2>3. QED
    BY <1>2, <1>3, <2>1, <2>2
<1>8. Fifo(r)
  <2> SUFFICES ASSUME NEW i \in 1 .. Len(r), NEW j \in 1 .. Len(r),
                      i < j, Mode(r[i]) = Mode(r[j])
               PROVE  r[i].seq < r[j].seq
    BY DEF Fifo
  <2>1. i \in 1 .. Len(p) /\ r[i] = p[i]
    BY <1>2, <1>3
  <2>2. CASE j \in 1 .. Len(p)
    BY <1>2, <2>1, <2>2 DEF Fifo
  <2>3. CASE j = Len(p) + 1
    <3>1. PoppedBefore(p, q, m) /\ 1 \in 1 .. Len(q)
      BY <1>1, <1>3 DEF Deque
    <3>2. r[j] = q[1] /\ Mode(p[i]) = m
      BY <1>1, <1>2, <1>4, <2>1, <2>3
    <3>3. p[i].seq < q[1].seq
      BY <2>1, <3>1, <3>2 DEF PoppedBefore
    <3>4. QED
      BY <2>1, <3>2, <3>3
  <2>4. QED
    BY <1>2, <1>3, <2>2, <2>3
<1>9. QED
  BY <1>4, <1>5, <1>6, <1>7, <1>8 DEF Deque, e, t, r

\* The other deque is not disturbed by what is popped of the first one.
LEMMA DequeOther ==
  ASSUME NEW q \in Seq(RoutedOrder), NEW p \in Seq(RoutedOrder), NEW a, NEW m,
         NEW e \in RoutedOrder, Deque(q, p, a, m), Mode(e) # m
  PROVE  Deque(q, Append(p, e), a, m)
<1>1. Len(Append(p, e)) = Len(p) + 1 /\ Append(p, e)[Len(p) + 1] = e
      /\ \A i \in 1 .. Len(p) : Append(p, e)[i] = p[i]
  BY AppendFacts
<1>2. Len(p) \in Nat
  OBVIOUS
<1>3. PoppedBefore(Append(p, e), q, m)
  BY <1>1, <1>2 DEF Deque, PoppedBefore
<1>4. QED
  BY <1>3 DEF Deque

LEMMA HoldsAppend ==
  ASSUME NEW q \in Seq(RoutedOrder), NEW e \in RoutedOrder, NEW k
  PROVE  Holds(Append(q, e), k) <=> Holds(q, k) \/ e.seq = k
<1>1. Len(Append(q, e)) = Len(q) + 1 /\ Append(q, e)[Len(q) + 1] = e
      /\ \A i \in 1 .. Len(q) : Append(q, e)[i] = q[i]
  BY AppendFacts
<1>2. Len(q) \in Nat
  OBVIOUS
<1>3. QED
  BY <1>1, <1>2 DEF Holds

LEMMA HoldsTail ==
  ASSUME NEW q \in Seq(RoutedOrder), q # << >>, NEW k
  PROVE  Holds(q, k) <=> Holds(Tail(q), k) \/ Head(q).seq = k
<1>1. /\ Head(q) = q[1] /\ Len(q) > 0 /\ Len(q) \in Nat /\ Len(Tail(q)) = Len(q) - 1
      /\ \A i \in 1 .. Len(Tail(q)) : Tail(q)[i] = q[i + 1]
  BY TailFacts
<1>2. ASSUME Holds(q, k) PROVE Holds(Tail(q), k) \/ Head(q).seq = k
  <2>1. PICK i \in 1 .. Len(q) : q[i].seq = k
    BY <1>2 DEF Holds
  <2>2. CASE i = 1
    BY <1>1, <2>1, <2>2
  <2>3. CASE i # 1
    <3>1. i - 1 \in 1 .. Len(Tail(q)) /\ Tail(q)[i - 1] = q[i]
      BY <1>1, <2>3
    <3>2. QED
      BY <2>1, <3>1 DEF Holds
  <2>4. QED
    BY <2>2, <2>3
<1>3. ASSUME Holds(Tail(q), k) \/ Head(q).seq = k PROVE Holds(q, k)
  BY <1>1, <1>3 DEF Holds
<1>4. QED
  BY <1>2, <1>3

LEMMA RouteOrderQueue ==
  ASSUME RouterTypeInv, QueueInv, NEW o \in Trackers, RouteOrder(o)
  PROVE  QueueInv'
<1> DEFINE ro == [seq |-> seq + 1, order |-> o]
<1>1. ro \in RoutedOrder /\ ro.seq = seq + 1 /\ ro.order = o
  BY DEF RouterTypeInv, RouterTypeOK, RoutedOrder
<1>2. /\ seq' = seq + 1
      /\ popped' = popped
      /\ arrived' = Append(arrived, o)
      /\ o \in LiveOrders => live' = Append(live, ro) /\ paper' = paper
      /\ o \notin LiveOrders => paper' = Append(paper, ro) /\ live' = live
  BY DEF RouteOrder
<1> HIDE DEF ro
<1>3. /\ seq \in Nat /\ live \in Seq(RoutedOrder) /\ paper \in Seq(RoutedOrder)
      /\ popped \in Seq(RoutedOrder) /\ arrived \in Seq(Trackers)
  BY DEF RouterTypeInv, RouterTypeOK
<1>4. /\ seq = Len(arrived) /\ Numbered(popped, arrived) /\ Fifo(popped) /\ NoLoss
      /\ Deque(live, popped, arrived, "LIVE") /\ Deque(paper, popped, arrived, "PAPER")
  BY DEF QueueInv
<1>5. seq' = Len(arrived') /\ Fifo(popped')
  BY <1>2, <1>3, <1>4, AppendFacts
<1>6. Numbered(popped', arrived')
  BY <1>2, <1>3, <1>4, NumberedLater
<1>7. /\ o \in LiveOrders => Mode(ro) = "LIVE"
      /\ o \notin LiveOrders => Mode(ro) = "PAPER"
  BY <1>1 DEF Mode
<1>8. ASSUME NEW q \in Seq(RoutedOrder), NEW m, Deque(q, popped, arrived, m)
      PROVE  Deque(q, popped, arrived', m)
  BY <1>2, <1>3, <1>8, NumberedLater DEF Deque
<1>9. ASSUME NEW q \in Seq(RoutedOrder), Deque(q, popped, arrived, Mode(ro))
      PROVE  Deque(Append(q, ro), popped, arrived', Mode(ro))
  BY <1>1, <1>2, <1>3, <1>4, <1>9, DequeAppend
<1>10. Deque(live', popped', arrived', "LIVE") /\ Deque(paper', popped', arrived', "PAPER")
  BY <1>2, <1>3, <1>4, <1>7, <1>8, <1>9
<1>11. NoLoss'
  <2> SUFFICES ASSUME NEW k \in 1 .. seq'
               PROVE  Holds(live', k) \/ Holds(paper', k) \/ Holds(popped', k)
    BY DEF NoLoss
  <2>1. k \in 1 .. seq \/ k = ro.seq
    BY <1>1, <1>2, <1>3
  <2>2. /\ Holds(Append(live, ro), k) <=> Holds(live, k) \/ ro.seq = k
        /\ Holds(Append(paper, ro), k) <=> Holds(paper, k) \/ ro.seq = k
    BY <1>1, <1>3, HoldsAppend
  <2>3. QED
    BY <1>2, <1>4, <2>1, <2>2 DEF NoLoss
<1>12. QED
  BY <1>5, <1>6, <1>10, <1>11 DEF QueueInv

LEMMA PopNextQueue ==
  ASSUME RouterTypeInv, QueueInv, PopNext
  PROVE  QueueInv'
<1>1. /\ live \in Seq(RoutedOrder) /\ paper \in Seq(RoutedOrder)
      /\ popped \in Seq(RoutedOrder) /\ arrived \in Seq(Trackers)
  BY DEF RouterTypeInv, RouterTypeOK
<1>2. /\ seq = Len(arrived) /\ Numbered(popped, arrived) /\ Fifo(popped) /\ NoLoss
      /\ Deque(live, popped, arrived, "LIVE") /\ Deque(paper, popped, arrived, "PAPER")
  BY DEF QueueInv
<1>3. seq' = seq /\ arrived' = arrived
  BY DEF PopNext, Take
<1>4. CASE /\ live # << >> /\ popped' = Append(popped, Head(live))
           /\ live' = Tail(live) /\ paper' = paper
  <2>1. Head(live) \in RoutedOrder
    BY <1>1, <1>4, TailFacts
  <2>2. /\ Deque(live', popped', arrived', "LIVE") /\ Numbered(popped', arrived')
        /\ Fifo(popped') /\ Mode(Head(live)) = "LIVE"
    BY <1>1, <1>2, <1>3, <1>4, DequePop
  <2>3. Deque(paper', popped', arrived', "PAPER")
    BY <1>1, <1>2, <1>3, <1>4, <2>1, <2>2, DequeOther
  <2>4. NoLoss'
    <3>1. \A k : /\ Holds(live, k) <=> Holds(live', k) \/ Head(live).seq = k
                 /\ Holds(popped', k) <=> Holds(popped, k) \/ Head(live).seq = k
      BY <1>1, <1>4, <2>1, HoldsTail, HoldsAppend
    <3>2. QED
      BY <1>2, <1>3, <1>4, <3>1 DEF NoLoss
  <2>5. QED
    BY <1>2, <1>3, <2>2, <2>3, <2>4 DEF QueueInv
<1>5. CASE /\ paper # << >> /\ popped' = Append(popped, Head(paper))
           /\ paper' = Tail(paper) /\ live' = live
  <2>1. Head(paper) \in RoutedOrder
    BY <1>1, <1>5, TailFacts
  <2>2. /\ Deque(paper', popped', arrived', "PAPER") /\ Numbered(popped', arrived')
        /\ Fifo(popped') /\ Mode(Head(paper)) = "PAPER"
    BY <1>1, <1>2, <1>3, <1>5, DequePop
  <2>3. Deque(live', popped', arrived', "LIVE")
    BY <1>1, <1>2, <1>3, <1>5, <2>1, <2>2, DequeOther
  <2>4. NoLoss'
    <3>1. \A k : /\ Holds(paper, k) <=> Holds(paper', k) \/ Head(paper).seq = k
                 /\ Holds(popped', k) <=> Holds(popped, k) \/ Head(paper).seq = k
      BY <1>1, <1>5, <2>1, HoldsTail, HoldsAppend
    <3>2. QED
      BY <1>2, <1>3, <1>5, <3>1 DEF NoLoss
  <2>5. QED
    BY <1>2, <1>3, <2>2, <2>3, <2>4 DEF QueueInv
<1>6. QED
  BY <1>4, <1>5 DEF PopNext, Take

LEMMA NextQueue ==
  ASSUME RouterTypeInv, QueueInv, [RouterNext]_routerVars
  PROVE  QueueInv'
<1>1. CASE \E o \in Trackers : RouteOrder(o)
  BY <1>1, RouteOrderQueue
<1>2. CASE PopNext
  BY <1>2, PopNextQueue
<1>3. CASE UNCHANGED <<queues, popped>>
  BY <1>3 DEF queues, QueueInv, NoLoss
<1>4. RequestStop \/ CheckLoop \/ ParkOrReturn \/ WaitTimeout \/ CallSink \/ UNCHANGED routerVars
        => UNCHANGED <<queues, popped>>
  BY DEF RequestStop, CheckLoop, ParkOrReturn, WaitTimeout, CallSink, routerVars, queues
<1>5. QED
  BY <1>1, <1>2, <1>3, <1>4 DEF RouterNext, RouterThread

(***************************************************************************)
(* The stop request.                                                       *)
(***************************************************************************)
DrainInv ==
  /\ early <= seq
  /\ loop = "returned" => stop /\ \A k \in 1 .. early : Holds(popped, k)

RouterInvariant == RouterTypeInv /\ QueueInv /\ DrainInv

\* With both deques empty, NoLoss leaves one place for every number.
LEMMA EmptyMeansPopped ==
  ASSUME RouterTypeInv, QueueInv, PendingCount = 0
  PROVE  \A k \in 1 .. seq : Holds(popped, k)
<1>1. Len(live) = 0 /\ Len(paper) = 0
  BY DEF PendingCount, RouterTypeInv, RouterTypeOK
<1>2. QED
  BY <1>1 DEF QueueInv, NoLoss, Holds

LEMMA NextDrain ==
  ASSUME RouterInvariant, [RouterNext]_routerVars
  PROVE  DrainInv'
<1> USE DEF DrainInv
<1>1. RouterTypeInv /\ QueueInv /\ DrainInv /\ seq \in Nat /\ early \in Nat /\ seq = Len(arrived)
  BY DEF RouterInvariant, RouterTypeInv, RouterTypeOK, QueueInv
<1>2. CASE \E o \in Trackers : RouteOrder(o)
  BY <1>1, <1>2 DEF RouteOrder
<1>3. CASE RequestStop
  BY <1>1, <1>3 DEF RequestStop, queues
<1>4. CASE CheckLoop
  BY <1>1, <1>4, EmptyMeansPopped DEF CheckLoop, MayLeave, queues
<1>5. CASE PopNext
  BY <1>1, <1>5 DEF PopNext, Take
<1>6. CASE ParkOrReturn
  BY <1>1, <1>6, EmptyMeansPopped DEF ParkOrReturn, queues
<1>7. CASE WaitTimeout
  BY <1>1, <1>7 DEF WaitTimeout, queues
<1>8. CASE CallSink
  BY <1>1, <1>8 DEF CallSink, queues
<1>9. CASE UNCHANGED routerVars
  BY <1>1, <1>9 DEF routerVars
<1>10. QED
  BY <1>2, <1>3, <1>4, <1>5, <1>6, <1>7, <1>8, <1>9 DEF RouterNext, RouterThread

LEMMA RouterInitInv == RouterInit => RouterInvariant
<1> SUFFICES ASSUME RouterInit PROVE RouterInvariant
  OBVIOUS
<1>1. live = << >> /\ paper = << >> /\ popped = << >> /\ arrived = << >>
      /\ seq = 0 /\ early = 0 /\ loop = "check" /\ current = NoOrder
      /\ stop = FALSE /\ failed = {}
  BY DEF RouterInit
<1>2. RouterTypeInv
  <2>1. /\ live \in Seq(RoutedOrder) /\ paper \in Seq(RoutedOrder)
        /\ popped \in Seq(RoutedOrder)
    BY <1>1
  <2>2. arrived \in Seq(Trackers)
    BY <1>1
  <2>3. QED
    BY <1>1, <2>1, <2>2 DEF RouterTypeInv, RouterTypeOK, HandInv, LoopStates
<1>3. Len(live) = 0 /\ Len(paper) = 0 /\ Len(popped) = 0 /\ Len(arrived) = 0
  BY <1>1
<1>4. QueueInv
  BY <1>1, <1>3
  DEF QueueInv, Numbered, Deque, OfMode, Sorted, PoppedBefore, Fifo, NoLoss
<1>5. DrainInv
  BY <1>1 DEF DrainInv
<1>6. QED
  BY <1>2, <1>4, <1>5 DEF RouterInvariant

LEMMA RouterInv == RouterSafeSpec => []RouterInvariant
<1>1. RouterInvariant /\ [RouterNext]_routerVars => RouterInvariant'
  BY NextType, NextQueue, NextDrain DEF RouterInvariant
<1>2. QED
  BY <1>1, RouterInitInv, PTL DEF RouterSafeSpec

(***************************************************************************)
(* The theorems.                                                           *)
(***************************************************************************)
\* The deques, the history and the loop's local variable keep their types whatever the
\* interleaving of the threads that route orders with the router thread.
THEOREM RouterTypeCorrect == RouterSafeSpec => []RouterTypeOK
<1>1. RouterInvariant => RouterTypeOK
  BY DEF RouterInvariant, RouterTypeInv
<1>2. QED
  BY <1>1, RouterInv, PTL

\* Orders of one mode are handed over in the order route_order numbered them: _pop_next
\* and the two deques never reorder a mode.
THEOREM RouterFifo == RouterSafeSpec => []FifoPerMode
<1>1. RouterInvariant => FifoPerMode
  BY DEF RouterInvariant, QueueInv, Fifo, FifoPerMode
<1>2. QED
  BY <1>1, RouterInv, PTL

\* No order is lost or handed over twice between route_order and the sink.
THEOREM RouterExactlyOnce == RouterSafeSpec => []ExactlyOnePlace
<1>1. ASSUME RouterInvariant PROVE ExactlyOnePlace
  <2>1. /\ live \in Seq(RoutedOrder) /\ paper \in Seq(RoutedOrder)
        /\ popped \in Seq(RoutedOrder)
    BY <1>1 DEF RouterInvariant, RouterTypeInv, RouterTypeOK
  <2>2. /\ Numbered(popped, arrived) /\ Fifo(popped) /\ NoLoss
        /\ Deque(live, popped, arrived, "LIVE") /\ Deque(paper, popped, arrived, "PAPER")
    BY <1>1 DEF RouterInvariant, QueueInv
  <2> SUFFICES ASSUME NEW k \in 1 .. seq
               PROVE  /\ Holds(live, k) \/ Holds(paper, k) \/ Holds(popped, k)
                      /\ ~(Holds(live, k) /\ Holds(paper, k))
                      /\ Holds(popped, k) => ~Holds(live, k) /\ ~Holds(paper, k)
                      /\ \A i, j \in 1 .. Len(popped) :
                           popped[i].seq = k /\ popped[j].seq = k => i = j
    BY DEF ExactlyOnePlace
  <2> DEFINE ModeOf(n) == IF arrived[n] \in LiveOrders THEN "LIVE" ELSE "PAPER"
  <2>3. \A i \in 1 .. Len(popped) : Mode(popped[i]) = ModeOf(popped[i].seq)
    BY <2>2 DEF Numbered, Mode
  <2>4. ASSUME NEW q \in Seq(RoutedOrder), NEW m, Deque(q, popped, arrived, m), Holds(q, k)
        PROVE  ModeOf(k) = m /\ ~Holds(popped, k)
    <3>1. PICK j \in 1 .. Len(q) : q[j].seq = k
      BY <2>4 DEF Holds
    <3>2. ModeOf(k) = m
      BY <2>4, <3>1 DEF Deque, Numbered, OfMode, Mode
    <3>3. ASSUME NEW i \in 1 .. Len(popped), popped[i].seq = k PROVE FALSE
      <4>1. Mode(popped[i]) = m
        BY <2>3, <3>2, <3>3
      <4>2. popped[i].seq < q[j].seq
        BY <2>4, <4>1 DEF Deque, PoppedBefore
      <4>3. QED
        BY <3>1, <3>3, <4>2
    <3>4. QED
      BY <3>2, <3>3 DEF Holds
  <2>5. "LIVE" # "PAPER"
    OBVIOUS
  <2>6. ASSUME NEW i \in 1 .. Len(popped), NEW j \in 1 .. Len(popped),
               popped[i].seq = k, popped[j].seq = k
        PROVE  i = j
    <3>1. Mode(popped[i]) = Mode(popped[j])
      BY <2>3, <2>6
    <3>2. ~(i < j) /\ ~(j < i)
      BY <2>2, <2>6, <3>1 DEF Fifo
    <3>3. QED
      BY <3>2
  <2>7. Holds(live, k) \/ Holds(paper, k) \/ Holds(popped, k)
    BY <2>2 DEF NoLoss
  <2>8. Holds(live, k) => ModeOf(k) = "LIVE" /\ ~Holds(popped, k)
    BY <2>1, <2>2, <2>4
  <2>9. Holds(paper, k) => ModeOf(k) = "PAPER" /\ ~Holds(popped, k)
    BY <2>1, <2>2, <2>4
  <2> HIDE DEF ModeOf
  <2>10. QED
    BY <2>5, <2>6, <2>7, <2>8, <2>9
<1>2. QED
  BY <1>1, RouterInv, PTL

\* A router thread that has returned has handed over all that was routed before the stop.
THEOREM RouterDrains == RouterSafeSpec => []DrainedAtStop
<1>1. RouterInvariant => DrainedAtStop
  BY DEF RouterInvariant, RouterTypeInv, HandInv, DrainInv, DrainedAtStop
<1>2. QED
  BY <1>1, RouterInv, PTL

(***************************************************************************)
(* Refinement: every step of the router is a step of the delivery promise  *)
(* or leaves it unchanged.                                                 *)
(***************************************************************************)
\* What heads a deque waits, and nothing that waits goes ahead of a popped order.
LEMMA PopIsTake ==
  ASSUME RouterInvariant, PopNext
  PROVE  \E k \in Delivery!Waiting : Delivery!Take(k)
<1>1. /\ live \in Seq(RoutedOrder) /\ paper \in Seq(RoutedOrder)
      /\ popped \in Seq(RoutedOrder) /\ arrived \in Seq(Trackers)
  BY DEF RouterInvariant, RouterTypeInv, RouterTypeOK
<1>2. /\ seq = Len(arrived) /\ NoLoss
      /\ Deque(live, popped, arrived, "LIVE") /\ Deque(paper, popped, arrived, "PAPER")
  BY DEF RouterInvariant, QueueInv
<1>3. loop = "locked" /\ loop' = "sink" /\ arrived' = arrived /\ stop' = stop
  BY DEF PopNext, Take
<1>4. ASSUME NEW q \in Seq(RoutedOrder), q # << >>, NEW m,
             Deque(q, popped, arrived, m), popped' = Append(popped, Head(q)),
             \A k \in Delivery!Waiting : Holds(q, k) \/ (m = "LIVE" /\ arrived[k] \notin LiveOrders),
             m = "LIVE" <=> Head(q).order \in LiveOrders
      PROVE  \E k \in Delivery!Waiting : Delivery!Take(k)
  <2> DEFINE k == Head(q).seq
  <2>1. /\ Head(q) \in RoutedOrder /\ Head(q) = q[1] /\ 1 \in 1 .. Len(q)
    BY <1>4, TailFacts
  <2>2. k \in 1 .. Len(arrived) /\ Head(q).order = arrived[k] /\ Mode(q[1]) = m
    BY <1>4, <2>1 DEF Deque, Numbered, OfMode
  <2>3. Head(q) = [seq |-> k, order |-> arrived[k]]
    BY <2>1, <2>2 DEF RoutedOrder
  <2>4. k \in Delivery!Waiting
    <3> SUFFICES ASSUME NEW i \in 1 .. Len(popped), popped[i].seq = k PROVE FALSE
      BY <2>2 DEF Delivery!Waiting
    <3>1. Mode(popped[i]) = m
      BY <1>2, <2>2, <1>1, <2>1 DEF Mode, RouterInvariant, QueueInv, Numbered
    <3>2. popped[i].seq < q[1].seq
      BY <1>4, <2>1, <3>1 DEF Deque, PoppedBefore
    <3>3. QED
      BY <2>1, <2>2, <3>2
  <2>5. ASSUME NEW j \in Delivery!Waiting PROVE ~Delivery!Ahead(j, k)
    <3>1. CASE Holds(q, j)
      <4>1. PICK n \in 1 .. Len(q) : q[n].seq = j
        BY <3>1 DEF Holds
      <4>2. arrived[j] \in LiveOrders <=> arrived[k] \in LiveOrders
        <5>1. q[n].order = arrived[j] /\ Mode(q[n]) = m
          BY <1>4, <4>1 DEF Deque, Numbered, OfMode
        <5>2. QED
          BY <2>1, <2>2, <5>1 DEF Mode
      <4>3. j \in Nat /\ k \in Nat
        BY <2>2, <1>1 DEF Delivery!Waiting
      <4>4. ~(j < k)
        <5>1. n = 1 \/ 1 < n
          OBVIOUS
        <5>2. n = 1 \/ k < j
          BY <1>4, <2>1, <4>1, <5>1 DEF Deque, Sorted
        <5>3. QED
          BY <2>1, <4>1, <4>3, <5>2
      <4>5. QED
        BY <4>2, <4>4 DEF Delivery!Ahead
    <3>2. CASE m = "LIVE" /\ arrived[j] \notin LiveOrders
      BY <1>4, <2>2, <3>2 DEF Delivery!Ahead
    <3>3. QED
      BY <1>4, <3>1, <3>2
  <2>6. popped' = Append(popped, [seq |-> k, order |-> arrived[k]])
    BY <1>4, <2>3
  <2>7. Delivery!Take(k)
    BY <1>3, <2>4, <2>5, <2>6 DEF Delivery!Take
  <2>8. QED
    BY <2>4, <2>7
<1>5. \A k \in Delivery!Waiting : Holds(live, k) \/ Holds(paper, k)
  BY <1>2 DEF Delivery!Waiting, NoLoss, Holds
<1>6. CASE live # << >> /\ popped' = Append(popped, Head(live))
  <2>1. Mode(Head(live)) = "LIVE"
    BY <1>1, <1>2, <1>6, TailFacts DEF Deque, OfMode
  <2>2. Head(live).order \in LiveOrders
    BY <2>1 DEF Mode
  <2>3. ASSUME NEW k \in Delivery!Waiting, Holds(paper, k) PROVE arrived[k] \notin LiveOrders
    BY <1>2, <2>3 DEF Deque, Numbered, OfMode, Mode, Holds
  <2>4. QED
    BY <1>1, <1>2, <1>4, <1>5, <1>6, <2>2, <2>3
<1>7. CASE live = << >> /\ paper # << >> /\ popped' = Append(popped, Head(paper))
  <2>1. Mode(Head(paper)) = "PAPER"
    BY <1>1, <1>2, <1>7, TailFacts DEF Deque, OfMode
  <2>2. Head(paper).order \notin LiveOrders
    BY <2>1 DEF Mode
  <2>3. ASSUME NEW k, Holds(live, k) PROVE FALSE
    BY <1>7, <2>3 DEF Holds
  <2>4. QED
    BY <1>1, <1>2, <1>4, <1>5, <1>7, <2>2, <2>3
<1>8. QED
  BY <1>6, <1>7 DEF PopNext, Take

LEMMA StepImplements ==
  ASSUME RouterInvariant, [RouterNext]_routerVars
  PROVE  [Delivery!Next]_(Delivery!dvars)
<1> USE DEF Delivery!dvars
<1>1. CASE \E o \in Trackers : RouteOrder(o)
  <2>1. PICK o \in Trackers : RouteOrder(o)
    BY <1>1
  <2>2. (loop' = "returned") <=> (loop = "returned")
    BY <2>1 DEF RouteOrder
  <2>3. Delivery!Submit(o)
    BY <2>1, <2>2 DEF RouteOrder, Delivery!Submit
  <2>4. QED
    BY <2>3 DEF Delivery!Next
<1>2. CASE RequestStop
  BY <1>2 DEF RequestStop, queues, Delivery!AskToClose, Delivery!Next
<1>3. CASE PopNext
  BY <1>3, PopIsTake DEF Delivery!Next, Delivery!TakeNext
<1>4. ASSUME loop' = "returned", stop, PendingCount = 0,
             UNCHANGED <<arrived, popped, stop>>
      PROVE  Delivery!Close
  <2>1. Delivery!Waiting = {}
    <3>1. \A k \in 1 .. seq : Holds(popped, k)
      BY <1>4, EmptyMeansPopped DEF RouterInvariant
    <3>2. seq = Len(arrived)
      BY DEF RouterInvariant, QueueInv
    <3>3. QED
      BY <3>1, <3>2 DEF Delivery!Waiting, Holds
  <2>2. QED
    BY <1>4, <2>1 DEF Delivery!Close
<1>5. CASE CheckLoop
  BY <1>4, <1>5 DEF CheckLoop, MayLeave, queues, Delivery!Next
<1>6. CASE ParkOrReturn
  BY <1>4, <1>6 DEF ParkOrReturn, queues, Delivery!Next
<1>7. CASE WaitTimeout
  BY <1>7 DEF WaitTimeout, queues
<1>8. CASE CallSink
  BY <1>8 DEF CallSink, queues
<1>9. CASE UNCHANGED routerVars
  BY <1>9 DEF routerVars
<1>10. QED
  BY <1>1, <1>2, <1>3, <1>5, <1>6, <1>7, <1>8, <1>9 DEF RouterNext, RouterThread

\* The router keeps the safety half of the delivery promise: it takes an order only when
\* no order goes ahead of it, and closes only when nothing waits.
THEOREM RouterImplementsDelivery == RouterSafeSpec => Delivery!SafeSpec
<1>1. RouterInit => Delivery!Init
  BY DEF RouterInit, Delivery!Init
<1>2. RouterInvariant /\ [RouterNext]_routerVars => [Delivery!Next]_(Delivery!dvars)
  BY StepImplements
<1>3. QED
  BY <1>1, <1>2, RouterInv, PTL DEF RouterSafeSpec, Delivery!SafeSpec

-----------------------------------------------------------------------------
(***************************************************************************)
(* OrderLifecycle.                                                         *)
(*                                                                         *)
(* The invariant has two halves.  CountInv relates the tracker's counters  *)
(* to what the broker has reported: as long as the tracker has counted     *)
(* every share, it has counted every execution, and there are never more   *)
(* commissions than executions.  BookInv says when an order can have been  *)
(* booked.  Together they show that the last fill never finds the booking  *)
(* due, so that only a commission books, and only once.                    *)
(***************************************************************************)
Phases == {"none", "working", "filled", "cancelled", "rejected"}

TrackerType ==
  /\ stage \in [Orders -> {"pending", "routed", "tracked"}]
  /\ sink \in [Orders -> {"none", "queued", "placed", "raised"}]
  /\ phase \in [Orders -> Phases]
  /\ executed \in Counters /\ execs \in Counters /\ comms \in Counters
  /\ status \in [Orders -> Statuses]
  /\ filled \in Counters /\ remaining \in Counters
  /\ fillsCount \in Counters /\ commsCount \in Counters
  /\ booked \in Counters
  /\ refused \subseteq Orders

CountInv(o) ==
  /\ filled[o] + remaining[o] = Quantity[o]
  /\ filled[o] <= executed[o] /\ executed[o] <= Quantity[o]
  /\ fillsCount[o] <= execs[o]
  /\ filled[o] = executed[o] => fillsCount[o] = execs[o]
  /\ commsCount[o] = comms[o] /\ comms[o] <= execs[o]
  /\ status[o] = "FILLED" <=> remaining[o] = 0
  /\ phase[o] = "filled" <=> executed[o] = Quantity[o]
  /\ o \notin refused => filled[o] = executed[o]

BookInv(o) ==
  booked[o] = 0 \/ (booked[o] = 1 /\ status[o] = "FILLED" /\ fillsCount[o] <= commsCount[o])

\* The broker knows only the orders that were placed.
SinkInv(o) ==
  /\ stage[o] = "pending" => sink[o] = "none"
  /\ phase[o] # "none" => sink[o] = "placed"

Inv == TrackerType /\ \A o \in Orders : CountInv(o) /\ BookInv(o) /\ SinkInv(o)

LEMMA InitInv == Init => Inv
<1> SUFFICES ASSUME Init PROVE Inv
  OBVIOUS
<1>1. TrackerType
  BY OrdersAssumption DEF Init, TrackerType, Phases, Counters, Zero, Statuses
<1>2. ASSUME NEW o \in Orders PROVE CountInv(o) /\ BookInv(o) /\ SinkInv(o)
  BY OrdersAssumption DEF Init, CountInv, BookInv, SinkInv, Zero
<1>3. QED
  BY <1>1, <1>2 DEF Inv

\* What _on_order_status changes: the status by a transition out of a state that is not
\* final, the phase by what the report says.
LEMMA StatusStep ==
  ASSUME TrackerType, NEW o \in Orders, NEW s \in Reports, NEW ok \in BOOLEAN,
         OnOrderStatus(o, s, ok)
  PROVE  /\ UNCHANGED <<executed, execs, comms, filled, remaining, fillsCount, commsCount>>
         /\ UNCHANGED <<booked, refused, stage, sink>>
         /\ phase[o] # "none"
         /\ \/ status' = status
            \/ /\ status[o] \notin Terminal
               /\ status' = [status EXCEPT ![o] = StatusAfter(o, s)]
               /\ StatusAfter(o, s) \in {"SUBMITTED", "PARTIALLY_FILLED", "CANCELLED", "REJECTED"}
         /\ \/ phase' = phase
            \/ phase[o] # "filled" /\ phase' = [phase EXCEPT ![o] = "cancelled"]
            \/ phase[o] # "filled" /\ phase' = [phase EXCEPT ![o] = "rejected"]
<1>1. UNCHANGED <<executed, execs, comms, filled, remaining, fillsCount, commsCount>>
      /\ UNCHANGED <<booked, refused, stage, sink>>
  BY DEF OnOrderStatus, portfolio, sending
<1>2. phase[o] \in Phases /\ phase' = [phase EXCEPT ![o] = PhaseAfter(o, s)]
      /\ s \in Reportable(o)
  BY DEF OnOrderStatus, TrackerType
<1>3. phase[o] # "none"
  BY <1>2 DEF Reportable
<1>4. \/ phase' = phase
      \/ phase[o] # "filled" /\ phase' = [phase EXCEPT ![o] = "cancelled"]
      \/ phase[o] # "filled" /\ phase' = [phase EXCEPT ![o] = "rejected"]
  <2>1. CASE s = "Submitted" \/ s = "Filled"
    BY <1>2, <2>1 DEF PhaseAfter, TrackerType
  <2>2. CASE s = "Cancelled"
    BY <1>2, <2>2 DEF PhaseAfter, Reportable
  <2>3. CASE s = "Rejected"
    BY <1>2, <2>3 DEF PhaseAfter, Reportable
  <2>4. QED
    BY <2>1, <2>2, <2>3 DEF Reports
<1>5. \/ status' = status
      \/ /\ ~TransitionRaises(o, s)
         /\ status' = [status EXCEPT ![o] = StatusAfter(o, s)]
  BY DEF OnOrderStatus
<1>6. CASE s = "Filled"
  <2>1. StatusAfter(o, s) = status[o]
    BY <1>6 DEF StatusAfter
  <2>2. status' = status
    BY <1>5, <2>1 DEF TrackerType
  <2>3. QED
    BY <1>1, <1>3, <1>4, <2>2
<1>7. CASE s # "Filled" /\ ~TransitionRaises(o, s)
           /\ status' = [status EXCEPT ![o] = StatusAfter(o, s)]
  <2>1. s \in {"Submitted", "Cancelled", "Rejected"}
    BY <1>7 DEF Reports
  <2>2. status[o] \notin Terminal
    BY <1>7, <2>1 DEF TransitionRaises, Terminal
  <2>3. StatusAfter(o, s) \in {"SUBMITTED", "PARTIALLY_FILLED", "CANCELLED", "REJECTED"}
    BY <2>1 DEF StatusAfter
  <2>4. QED
    BY <1>1, <1>3, <1>4, <1>7, <2>2, <2>3
<1>8. CASE status' = status
  BY <1>1, <1>3, <1>4, <1>8
<1>9. QED
  BY <1>5, <1>6, <1>7, <1>8

LEMMA StatusInv ==
  ASSUME Inv, NEW o \in Orders, NEW s \in Reports, NEW ok \in BOOLEAN, OnOrderStatus(o, s, ok)
  PROVE  Inv'
<1>1. TrackerType /\ \A p \in Orders : CountInv(p) /\ BookInv(p) /\ SinkInv(p)
  BY DEF Inv
<1>2. TrackerType'
  BY <1>1, StatusStep DEF TrackerType, Statuses, Phases
<1>3. ASSUME NEW p \in Orders PROVE CountInv(p)' /\ BookInv(p)' /\ SinkInv(p)'
  <2>1. CountInv(p) /\ BookInv(p) /\ SinkInv(p)
    BY <1>1
  <2>2. status'[p] = "FILLED" <=> status[p] = "FILLED"
    BY <1>1, StatusStep DEF Terminal, TrackerType
  <2>3. phase'[p] = "filled" <=> phase[p] = "filled"
    BY <1>1, StatusStep DEF TrackerType
  <2>4. UNCHANGED <<executed, execs, comms, filled, remaining, fillsCount, commsCount>>
        /\ UNCHANGED <<booked, refused, stage, sink>>
    BY <1>1, StatusStep
  <2>5. phase'[p] # "none" => phase[p] # "none"
    BY <1>1, StatusStep DEF TrackerType
  <2>6. QED
    BY <2>1, <2>2, <2>3, <2>4, <2>5 DEF CountInv, BookInv, SinkInv
<1>4. QED
  BY <1>2, <1>3 DEF Inv

\* The last execution is never the moment to book: its commission is still to come.
LEMMA FillStep ==
  ASSUME Inv, NEW o \in Orders, NEW k \in Nat \ {0}, NEW ok \in BOOLEAN, OnFill(o, k, ok)
  PROVE  /\ k <= Quantity[o] - executed[o]
         /\ executed' = [executed EXCEPT ![o] = @ + k]
         /\ execs' = [execs EXCEPT ![o] = @ + 1]
         /\ phase[o] = "working"
         /\ phase' = [phase EXCEPT ![o] = IF executed[o] + k = Quantity[o] THEN "filled" ELSE @]
         /\ UNCHANGED <<comms, commsCount, booked, stage, sink>>
         /\ \/ /\ status[o] \in {"SUBMITTED", "PARTIALLY_FILLED"}
               /\ k <= remaining[o]
               /\ filled' = [filled EXCEPT ![o] = @ + k]
               /\ remaining' = [remaining EXCEPT ![o] = @ - k]
               /\ fillsCount' = [fillsCount EXCEPT ![o] = @ + 1]
               /\ status' = [status EXCEPT ![o] = IF remaining[o] = k THEN "FILLED"
                                                  ELSE "PARTIALLY_FILLED"]
               /\ refused' = refused
               /\ PersistFill(o, k, ok) /\ DbAnswers(ok)
               /\ UNCHANGED <<portfolio, dbStatus>>
            \/ /\ refused' = refused \cup {o}
               /\ UNCHANGED <<filled, remaining, fillsCount, status>>
               /\ UNCHANGED <<portfolio, database>>
<1>1. TrackerType /\ CountInv(o)
  BY DEF Inv
<1>2. /\ filled[o] \in Nat /\ remaining[o] \in Nat /\ executed[o] \in Nat
      /\ fillsCount[o] \in Nat /\ commsCount[o] \in Nat /\ comms[o] \in Nat
      /\ execs[o] \in Nat /\ Quantity[o] \in Nat
  BY <1>1, OrdersAssumption DEF TrackerType, Counters
<1>3. /\ k <= Quantity[o] - executed[o]
      /\ executed' = [executed EXCEPT ![o] = @ + k]
      /\ execs' = [execs EXCEPT ![o] = @ + 1]
      /\ phase[o] = "working"
      /\ phase' = [phase EXCEPT ![o] = IF executed[o] + k = Quantity[o] THEN "filled" ELSE @]
      /\ comms' = comms /\ stage' = stage /\ sink' = sink
  <2>1. k \in 1 .. Quantity[o] - executed[o]
    BY DEF OnFill
  <2>2. QED
    BY <1>2, <2>1 DEF OnFill, sending
<1>4. k <= remaining[o]
  BY <1>1, <1>2, <1>3 DEF CountInv
<1>5. CASE status[o] \in {"SUBMITTED", "PARTIALLY_FILLED"} /\ ApplyFill(o, k, ok)
  <2> DEFINE left == IF remaining[o] > k THEN remaining[o] - k ELSE 0
  <2>1. left = remaining[o] - k
    BY <1>2, <1>4
  <2>2. FillStatus(left) = IF remaining[o] = k THEN "FILLED" ELSE "PARTIALLY_FILLED"
    BY <1>2, <1>4, <2>1 DEF FillStatus
  <2>3. ~Booking(o, FillStatus(left), fillsCount[o] + 1, commsCount[o])
    <3>1. SUFFICES ASSUME FillStatus(left) = "FILLED", commsCount[o] = fillsCount[o] + 1
                   PROVE  FALSE
      BY DEF Booking
    <3>2. remaining[o] = k
      BY <2>2, <3>1
    <3>3. filled[o] = executed[o]
      BY <1>1, <1>2, <1>3, <3>2 DEF CountInv
    <3>4. commsCount[o] <= fillsCount[o]
      BY <1>1, <1>2, <3>3 DEF CountInv
    <3>5. QED
      BY <1>2, <3>1, <3>4
  <2>4. /\ filled' = [filled EXCEPT ![o] = @ + k]
        /\ remaining' = [remaining EXCEPT ![o] = left]
        /\ fillsCount' = [fillsCount EXCEPT ![o] = @ + 1]
        /\ status' = [status EXCEPT ![o] = FillStatus(left)]
        /\ UNCHANGED <<portfolio, commsCount, refused, dbStatus>>
        /\ PersistFill(o, k, ok) /\ DbAnswers(ok)
    BY <1>5, <2>3 DEF ApplyFill
  <2> HIDE DEF left
  <2>5. QED
    BY <1>3, <1>4, <1>5, <2>1, <2>2, <2>4 DEF portfolio
<1>6. CASE refused' = refused \cup {o} /\ UNCHANGED <<state, portfolio, database>>
  BY <1>3, <1>6 DEF state, portfolio
<1>7. QED
  BY <1>5, <1>6 DEF OnFill

LEMMA FillInv ==
  ASSUME Inv, NEW o \in Orders, NEW k \in Nat \ {0}, NEW ok \in BOOLEAN, OnFill(o, k, ok)
  PROVE  Inv'
<1>1. TrackerType /\ \A p \in Orders : CountInv(p) /\ BookInv(p) /\ SinkInv(p)
  BY DEF Inv
<1>2. /\ filled[o] \in Nat /\ remaining[o] \in Nat /\ executed[o] \in Nat
      /\ fillsCount[o] \in Nat /\ commsCount[o] \in Nat /\ comms[o] \in Nat
      /\ execs[o] \in Nat /\ Quantity[o] \in Nat
  BY <1>1, OrdersAssumption DEF TrackerType, Counters
<1>3. CountInv(o) /\ BookInv(o) /\ SinkInv(o)
  BY <1>1
<1>4. /\ executed' = [executed EXCEPT ![o] = @ + k] /\ execs' = [execs EXCEPT ![o] = @ + 1]
      /\ phase' = [phase EXCEPT ![o] = IF executed[o] + k = Quantity[o] THEN "filled" ELSE @]
      /\ UNCHANGED <<comms, commsCount, booked, stage, sink>>
      /\ k <= Quantity[o] - executed[o] /\ phase[o] = "working"
  BY FillStep
<1>5. CASE /\ refused' = refused \cup {o} /\ UNCHANGED <<filled, remaining, fillsCount, status>>
  <2>1. TrackerType'
    BY <1>1, <1>2, <1>4, <1>5 DEF TrackerType, Counters, Phases
  <2>2. CountInv(o)'
    BY <1>1, <1>2, <1>3, <1>4, <1>5 DEF CountInv, TrackerType, Counters
  <2>3. BookInv(o)' /\ SinkInv(o)'
    BY <1>1, <1>3, <1>4, <1>5 DEF BookInv, SinkInv, TrackerType
  <2>4. ASSUME NEW p \in Orders, p # o PROVE CountInv(p)' /\ BookInv(p)' /\ SinkInv(p)'
    BY <1>1, <1>4, <1>5, <2>4 DEF CountInv, BookInv, SinkInv, TrackerType, Counters
  <2>5. QED
    BY <2>1, <2>2, <2>3, <2>4 DEF Inv
<1>6. CASE /\ status[o] \in {"SUBMITTED", "PARTIALLY_FILLED"}
           /\ k <= remaining[o]
           /\ filled' = [filled EXCEPT ![o] = @ + k]
           /\ remaining' = [remaining EXCEPT ![o] = @ - k]
           /\ fillsCount' = [fillsCount EXCEPT ![o] = @ + 1]
           /\ status' = [status EXCEPT ![o] = IF remaining[o] = k THEN "FILLED"
                                              ELSE "PARTIALLY_FILLED"]
           /\ refused' = refused
  <2>1. remaining[o] - k \in Nat
    BY <1>2, <1>6
  <2>2. TrackerType'
    BY <1>1, <1>2, <1>4, <1>6, <2>1 DEF TrackerType, Counters, Phases, Statuses
  <2>3. CountInv(o)'
    <3>1. /\ filled'[o] = filled[o] + k /\ remaining'[o] = remaining[o] - k
          /\ fillsCount'[o] = fillsCount[o] + 1
          /\ status'[o] = IF remaining[o] = k THEN "FILLED" ELSE "PARTIALLY_FILLED"
      BY <1>1, <1>6 DEF TrackerType, Counters
    <3>2. /\ executed'[o] = executed[o] + k /\ execs'[o] = execs[o] + 1
          /\ phase'[o] = IF executed[o] + k = Quantity[o] THEN "filled" ELSE "working"
          /\ comms'[o] = comms[o] /\ commsCount'[o] = commsCount[o]
      BY <1>1, <1>4 DEF TrackerType, Counters
    <3>3. /\ filled'[o] + remaining'[o] = Quantity[o]
          /\ filled'[o] <= executed'[o] /\ executed'[o] <= Quantity[o]
          /\ fillsCount'[o] <= execs'[o]
          /\ filled'[o] = executed'[o] => fillsCount'[o] = execs'[o]
      BY <1>2, <1>3, <1>4, <1>6, <3>1, <3>2 DEF CountInv
    <3>4. /\ commsCount'[o] = comms'[o] /\ comms'[o] <= execs'[o]
          /\ o \notin refused' => filled'[o] = executed'[o]
      BY <1>2, <1>3, <1>6, <3>1, <3>2 DEF CountInv
    <3>5. /\ status'[o] = "FILLED" <=> remaining'[o] = 0
          /\ phase'[o] = "filled" <=> executed'[o] = Quantity[o]
      BY <1>2, <3>1, <3>2
    <3>6. QED
      BY <3>3, <3>4, <3>5 DEF CountInv
  <2>4. BookInv(o)' /\ SinkInv(o)'
    BY <1>1, <1>3, <1>4, <1>6 DEF BookInv, SinkInv, TrackerType
  <2>5. ASSUME NEW p \in Orders, p # o PROVE CountInv(p)' /\ BookInv(p)' /\ SinkInv(p)'
    BY <1>1, <1>4, <1>6, <2>5 DEF CountInv, BookInv, SinkInv, TrackerType, Counters
  <2>6. QED
    BY <2>2, <2>3, <2>4, <2>5 DEF Inv
<1>7. QED
  BY <1>5, <1>6, FillStep

LEMMA CommissionStep ==
  ASSUME Inv, NEW o \in Orders, NEW ok \in BOOLEAN, OnCommission(o, ok)
  PROVE  /\ comms[o] < execs[o]
         /\ comms' = [comms EXCEPT ![o] = @ + 1]
         /\ commsCount' = [commsCount EXCEPT ![o] = @ + 1]
         /\ UNCHANGED <<phase, executed, execs, status, filled, remaining, fillsCount, refused>>
         /\ UNCHANGED <<stage, sink>>
         /\ \/ booked' = booked
            \/ /\ status[o] = "FILLED" /\ fillsCount[o] = commsCount[o] + 1
               /\ booked[o] = 0
               /\ booked' = [booked EXCEPT ![o] = 1]
<1>1. TrackerType /\ CountInv(o) /\ BookInv(o)
  BY DEF Inv
<1>2. fillsCount[o] \in Nat /\ commsCount[o] \in Nat
  BY <1>1 DEF TrackerType, Counters
<1>3. /\ comms[o] < execs[o]
      /\ comms' = [comms EXCEPT ![o] = @ + 1]
      /\ commsCount' = [commsCount EXCEPT ![o] = @ + 1]
      /\ UNCHANGED <<phase, executed, execs, status, filled, remaining, fillsCount, refused>>
      /\ UNCHANGED <<stage, sink>>
  BY DEF OnCommission, sending
<1>4. CASE UNCHANGED portfolio
  BY <1>3, <1>4 DEF portfolio
<1>5. CASE Booking(o, status[o], fillsCount[o], commsCount[o] + 1) /\ Book(o, filled[o])
  <2>1. status[o] = "FILLED" /\ fillsCount[o] = commsCount[o] + 1
    BY <1>5 DEF Booking
  <2>2. booked[o] = 0
    BY <1>1, <1>2, <2>1 DEF BookInv
  <2>3. booked' = [booked EXCEPT ![o] = 1]
    BY <1>1, <1>5, <2>2 DEF Book, TrackerType, Counters
  <2>4. QED
    BY <1>3, <2>1, <2>2, <2>3
<1>6. QED
  BY <1>4, <1>5 DEF OnCommission

LEMMA CommissionInv ==
  ASSUME Inv, NEW o \in Orders, NEW ok \in BOOLEAN, OnCommission(o, ok)
  PROVE  Inv'
<1>1. TrackerType /\ \A p \in Orders : CountInv(p) /\ BookInv(p) /\ SinkInv(p)
  BY DEF Inv
<1>2. /\ fillsCount[o] \in Nat /\ commsCount[o] \in Nat /\ comms[o] \in Nat
      /\ execs[o] \in Nat /\ booked[o] \in Nat
  BY <1>1 DEF TrackerType, Counters
<1>3. /\ comms[o] < execs[o]
      /\ comms' = [comms EXCEPT ![o] = @ + 1]
      /\ commsCount' = [commsCount EXCEPT ![o] = @ + 1]
      /\ UNCHANGED <<phase, executed, execs, status, filled, remaining, fillsCount, refused>>
      /\ UNCHANGED <<stage, sink>>
  BY CommissionStep
<1>4. \/ booked' = booked
      \/ /\ status[o] = "FILLED" /\ fillsCount[o] = commsCount[o] + 1
         /\ booked' = [booked EXCEPT ![o] = 1]
  BY CommissionStep
<1>5. TrackerType'
  BY <1>1, <1>2, <1>3, <1>4 DEF TrackerType, Counters
<1>6. ASSUME NEW p \in Orders PROVE CountInv(p)'
  BY <1>1, <1>2, <1>3 DEF CountInv, TrackerType, Counters
<1>9. ASSUME NEW p \in Orders PROVE SinkInv(p)'
  BY <1>1, <1>3 DEF SinkInv
<1>7. ASSUME NEW p \in Orders PROVE BookInv(p)'
  <2>1. CountInv(p) /\ BookInv(p) /\ fillsCount[p] \in Nat /\ commsCount[p] \in Nat
    BY <1>1 DEF TrackerType, Counters
  <2>2. /\ status'[p] = status[p] /\ fillsCount'[p] = fillsCount[p]
        /\ commsCount'[p] = IF p = o THEN commsCount[p] + 1 ELSE commsCount[p]
    BY <1>1, <1>3 DEF TrackerType, Counters
  <2>3. \/ booked'[p] = booked[p]
        \/ /\ p = o /\ booked'[p] = 1 /\ status[p] = "FILLED"
           /\ fillsCount[p] = commsCount[p] + 1
    BY <1>1, <1>4 DEF TrackerType, Counters
  <2>4. QED
    BY <2>1, <2>2, <2>3 DEF BookInv
<1>8. QED
  BY <1>5, <1>6, <1>7, <1>9 DEF Inv

\* Authorisation, the dispatch and the sink leave the trackers alone; a sink that places
\* an order starts the broker's work on it.
LEMMA SendingInv ==
  ASSUME Inv, NEW o \in Orders, Authorize(o) \/ Track(o) \/ OrderSink(o)
  PROVE  Inv'
<1>1. TrackerType /\ \A p \in Orders : CountInv(p) /\ BookInv(p) /\ SinkInv(p)
  BY DEF Inv
<1>2. UNCHANGED <<executed, execs, comms, status, filled, remaining, fillsCount,
                  commsCount, booked, refused>>
  BY DEF Authorize, Track, OrderSink, broker, state, portfolio
<1>3. \/ phase' = phase
      \/ phase[o] = "none" /\ phase' = [phase EXCEPT ![o] = "working"]
  BY <1>1 DEF Authorize, Track, OrderSink, broker, SinkInv, TrackerType
<1>4. TrackerType' /\ \A p \in Orders : SinkInv(p)'
  <2>1. CASE Authorize(o)
    BY <1>1, <1>2, <2>1 DEF Authorize, TrackerType, SinkInv, broker
  <2>2. CASE Track(o)
    BY <1>1, <1>2, <2>2 DEF Track, TrackerType, SinkInv, broker
  <2>3. CASE OrderSink(o)
    BY <1>1, <1>2, <2>3 DEF OrderSink, TrackerType, SinkInv, Phases
  <2>4. QED
    BY <2>1, <2>2, <2>3
<1>5. ASSUME NEW p \in Orders PROVE CountInv(p)' /\ BookInv(p)'
  <2>1. phase'[p] = "filled" <=> phase[p] = "filled"
    BY <1>1, <1>3 DEF TrackerType
  <2>2. QED
    BY <1>1, <1>2, <2>1 DEF CountInv, BookInv
<1>6. QED
  BY <1>4, <1>5 DEF Inv

LEMMA NextInv ==
  ASSUME Inv, [Next]_vars
  PROVE  Inv'
<1>1. CASE UNCHANGED vars
  BY <1>1 DEF vars, broker, state, portfolio, sending, Inv, TrackerType, CountInv, BookInv, SinkInv
<1>2. CASE Next
  <2>1. PICK o \in Orders :
          \/ Authorize(o) \/ Track(o) \/ OrderSink(o)
          \/ \E ok \in BOOLEAN :
               \/ \E s \in Reports : OnOrderStatus(o, s, ok)
               \/ \E k \in 1 .. Quantity[o] : OnFill(o, k, ok)
               \/ OnCommission(o, ok)
    BY <1>2 DEF Next
  <2>2. \A k \in 1 .. Quantity[o] : k \in Nat \ {0}
    BY OrdersAssumption
  <2>3. QED
    BY <2>1, <2>2, SendingInv, StatusInv, FillInv, CommissionInv
<1>3. QED
  BY <1>1, <1>2

LEMMA LifecycleInv == SafeSpec => []Inv
<1>1. Inv /\ [Next]_vars => Inv'
  BY NextInv
<1>2. QED
  BY <1>1, InitInv, PTL DEF SafeSpec

(***************************************************************************)
(* The theorems.                                                           *)
(***************************************************************************)
\* An order is booked in the portfolio at most once and only when FILLED, whatever the
\* order of fills, commissions and late statuses, and whichever statements the database
\* refuses.
THEOREM OrderBookedAtMostOnce == SafeSpec => []BookedAtMostOnce
<1>1. Inv => BookedAtMostOnce
  BY DEF Inv, BookInv, BookedAtMostOnce
<1>2. QED
  BY <1>1, LifecycleInv, PTL

\* A tracker that refused no execution counts exactly what the broker executed, and is
\* FILLED exactly when the broker has filled the order.
THEOREM OrderFollowsBroker == SafeSpec => []TrackerFollowsBroker
<1>1. ASSUME Inv PROVE TrackerFollowsBroker
  <2>1. ASSUME NEW o \in Orders, o \notin refused
        PROVE  /\ filled[o] = executed[o] /\ remaining[o] = Quantity[o] - executed[o]
               /\ fillsCount[o] = execs[o]
               /\ status[o] = "FILLED" <=> phase[o] = "filled"
    <3>1. CountInv(o) /\ filled[o] \in Nat /\ remaining[o] \in Nat /\ Quantity[o] \in Nat
      BY <1>1, OrdersAssumption DEF Inv, TrackerType, Counters
    <3>2. QED
      BY <2>1, <3>1 DEF CountInv
  <2>2. QED
    BY <2>1 DEF TrackerFollowsBroker
<1>2. QED
  BY <1>1, LifecycleInv, PTL

LEMMA TerminalStep ==
  ASSUME Inv, Next, NEW p \in Orders, status[p] \in Terminal
  PROVE  status'[p] = status[p]
<1>1. PICK o \in Orders :
        \/ Authorize(o) \/ Track(o) \/ OrderSink(o)
        \/ \E ok \in BOOLEAN :
             \/ \E s \in Reports : OnOrderStatus(o, s, ok)
             \/ \E k \in 1 .. Quantity[o] : OnFill(o, k, ok)
             \/ OnCommission(o, ok)
  BY DEF Next
<1>2. TrackerType
  BY DEF Inv
<1>3. CASE Authorize(o) \/ Track(o) \/ OrderSink(o)
  BY <1>3 DEF Authorize, Track, OrderSink, state
<1>4. CASE \E ok \in BOOLEAN : \E s \in Reports : OnOrderStatus(o, s, ok)
  BY <1>2, <1>4, StatusStep DEF TrackerType
<1>5. CASE \E ok \in BOOLEAN : \E k \in 1 .. Quantity[o] : OnFill(o, k, ok)
  <2>1. \A k \in 1 .. Quantity[o] : k \in Nat \ {0}
    BY OrdersAssumption
  <2>2. \/ status' = status
        \/ status[o] \notin Terminal /\ \E st : status' = [status EXCEPT ![o] = st]
    BY <1>5, <2>1, FillStep DEF Terminal
  <2>3. QED
    BY <1>2, <2>2 DEF TrackerType
<1>6. CASE \E ok \in BOOLEAN : OnCommission(o, ok)
  BY <1>6 DEF OnCommission
<1>7. QED
  BY <1>1, <1>3, <1>4, <1>5, <1>6

\* FILLED, CANCELLED and REJECTED are final.
THEOREM OrderTerminalIsFinal == SafeSpec => TerminalIsFinal
<1>1. ASSUME Inv, [Next]_vars
      PROVE  [\A o \in Orders : status[o] \in Terminal => status'[o] = status[o]]_vars
  BY <1>1, TerminalStep
<1>2. QED
  BY <1>1, LifecycleInv, PTL DEF SafeSpec, TerminalIsFinal

(***************************************************************************)
(* Refinement.                                                             *)
(***************************************************************************)
Booked == {o \in Orders : booked[o] > 0}

LEMMA StatusImplements ==
  ASSUME Inv, NEW o \in Orders, NEW s \in Reports, NEW ok \in BOOLEAN, OnOrderStatus(o, s, ok)
  PROVE  [Promise!Next]_(Promise!pvars)
<1>1. TrackerType
  BY DEF Inv
<1>2. remaining' = remaining /\ Booked' = Booked
  BY <1>1, StatusStep DEF Booked
<1>3. \/ status' = status
      \/ ~TransitionRaises(o, s) /\ status' = [status EXCEPT ![o] = StatusAfter(o, s)]
  BY DEF OnOrderStatus
<1>4. CASE status' = status
  BY <1>2, <1>4 DEF Promise!pvars, Booked
<1>5. CASE ~TransitionRaises(o, s) /\ status' = [status EXCEPT ![o] = StatusAfter(o, s)]
  <2>1. status[o] \in Statuses
    BY <1>1 DEF TrackerType
  <2>2. CASE s = "Submitted"
    <3>1. status[o] \in {"CREATED", "SUBMITTED", "PARTIALLY_FILLED"}
      BY <1>5, <2>1, <2>2 DEF TransitionRaises, Terminal, Statuses
    <3>2. \/ status[o] = "CREATED" /\ status' = [status EXCEPT ![o] = "SUBMITTED"]
          \/ status' = status
      BY <1>1, <1>5, <2>2, <3>1 DEF StatusAfter, TrackerType
    <3>3. Promise!Acknowledge(o) \/ status' = status
      BY <1>2, <3>2 DEF Promise!Acknowledge, Booked
    <3>4. QED
      BY <1>4, <3>3 DEF Promise!Next
  <2>3. CASE s = "Cancelled"
    <3>1. /\ status[o] \in {"CREATED", "SUBMITTED", "PARTIALLY_FILLED"}
          /\ status' = [status EXCEPT ![o] = "CANCELLED"]
      BY <1>5, <2>1, <2>3 DEF TransitionRaises, Terminal, Statuses, StatusAfter
    <3>2. Promise!End(o)
      BY <1>2, <3>1 DEF Promise!End, Booked
    <3>3. QED
      BY <3>2 DEF Promise!Next
  <2>4. CASE s = "Rejected"
    <3>1. status[o] = "SUBMITTED" /\ status' = [status EXCEPT ![o] = "REJECTED"]
      BY <1>5, <2>4 DEF TransitionRaises, StatusAfter
    <3>2. Promise!End(o)
      BY <1>2, <3>1 DEF Promise!End, Booked
    <3>3. QED
      BY <3>2 DEF Promise!Next
  <2>5. CASE s = "Filled"
    <3>1. status' = status
      BY <1>1, <1>5, <2>5 DEF StatusAfter, TrackerType
    <3>2. QED
      BY <1>4, <3>1
  <2>6. QED
    BY <2>2, <2>3, <2>4, <2>5 DEF Reports
<1>6. QED
  BY <1>3, <1>4, <1>5

LEMMA FillImplements ==
  ASSUME Inv, NEW o \in Orders, NEW k \in Nat \ {0}, NEW ok \in BOOLEAN, OnFill(o, k, ok)
  PROVE  [Promise!Next]_(Promise!pvars)
<1>1. remaining[o] \in Nat
  BY DEF Inv, TrackerType, Counters
<1>2. Booked' = Booked
  BY FillStep DEF Booked
<1>3. CASE UNCHANGED <<remaining, status>>
  BY <1>2, <1>3 DEF Promise!pvars, Booked
<1>4. CASE /\ status[o] \in {"SUBMITTED", "PARTIALLY_FILLED"}
           /\ k <= remaining[o]
           /\ remaining' = [remaining EXCEPT ![o] = @ - k]
           /\ status' = [status EXCEPT ![o] = IF remaining[o] = k THEN "FILLED"
                                              ELSE "PARTIALLY_FILLED"]
  <2>1. Promise!Execute(o, k)
    BY <1>2, <1>4 DEF Promise!Execute, Booked
  <2>2. k \in 1 .. remaining[o]
    BY <1>1, <1>4
  <2>3. QED
    BY <2>1, <2>2 DEF Promise!Next
<1>5. QED
  BY <1>3, <1>4, FillStep

LEMMA CommissionImplements ==
  ASSUME Inv, NEW o \in Orders, NEW ok \in BOOLEAN, OnCommission(o, ok)
  PROVE  [Promise!Next]_(Promise!pvars)
<1>1. booked \in Counters
  BY DEF Inv, TrackerType
<1>2. UNCHANGED <<status, remaining>>
  BY CommissionStep
<1>3. CASE booked' = booked
  BY <1>2, <1>3 DEF Promise!pvars
<1>4. CASE status[o] = "FILLED" /\ booked[o] = 0 /\ booked' = [booked EXCEPT ![o] = 1]
  <2>1. o \notin Booked /\ Booked' = Booked \cup {o}
    BY <1>1, <1>4 DEF Booked, Counters
  <2>2. Promise!Book(o)
    BY <1>2, <1>4, <2>1 DEF Promise!Book, Booked
  <2>3. QED
    BY <2>2 DEF Promise!Next
<1>5. QED
  BY <1>3, <1>4, CommissionStep

\* Every tracker keeps the promise: its life has one direction, what remains only
\* shrinks, and a filled order is booked at most once, in a step of its own.
THEOREM OrderImplementsPromise == SafeSpec => ImplementsPromise
<1>1. Init => Promise!Init
  BY DEF Init, Zero, Promise!Init
<1>2. ASSUME Inv, [Next]_vars PROVE [Promise!Next]_(Promise!pvars)
  <2>1. CASE UNCHANGED vars
    BY <2>1 DEF vars, state, portfolio, Promise!pvars
  <2>2. CASE Next
    <3>1. PICK o \in Orders :
            \/ Authorize(o) \/ Track(o) \/ OrderSink(o)
            \/ \E ok \in BOOLEAN :
                 \/ \E s \in Reports : OnOrderStatus(o, s, ok)
                 \/ \E k \in 1 .. Quantity[o] : OnFill(o, k, ok)
                 \/ OnCommission(o, ok)
      BY <2>2 DEF Next
    <3>2. CASE Authorize(o) \/ Track(o) \/ OrderSink(o)
      <4>1. UNCHANGED <<status, remaining, booked>>
        BY <3>2 DEF Authorize, Track, OrderSink, state, portfolio
      <4>2. QED
        BY <4>1 DEF Promise!pvars
    <3>3. \A k \in 1 .. Quantity[o] : k \in Nat \ {0}
      BY OrdersAssumption
    <3>4. QED
      BY <1>2, <3>1, <3>2, <3>3, StatusImplements, FillImplements, CommissionImplements
  <2>3. QED
    BY <1>2, <2>1, <2>2
<1>3. QED
  BY <1>1, <1>2, LifecycleInv, PTL DEF SafeSpec, ImplementsPromise, Promise!Spec

(***************************************************************************)
(* The books: what the database and the portfolio hold.                    *)
(*                                                                         *)
(* DatabaseFollowsTracker needs only the row of the order to be there when *)
(* its first execution comes, which Acknowledged says, and that a SELL     *)
(* finds its lots: the tracker's account of the shares held is never below *)
(* the broker's as long as it has refused no BUY.  PositionInv splits the  *)
(* position into the orders that have been booked.                         *)
(***************************************************************************)
BooksType ==
  /\ reports \in Counters
  /\ position \in Int
  /\ liveOrders \subseteq Orders
  /\ dbStatus \in [Orders -> Reports \cup {"none", "PendingSubmit"}]
  /\ dbExecs \in [Orders -> SUBSET Nat]
  /\ dbFilled \in Counters
  /\ dbFailures \in Nat
  /\ short \in BOOLEAN
  /\ skipped \in BOOLEAN

\* While the database refuses nothing, an order the broker has reported on has its row.
Acknowledged ==
  dbFailures = 0 => \A o \in Orders : status[o] # "CREATED" => dbStatus[o] # "none"

Settled == [o \in Orders |-> IF booked[o] > 0 THEN filled[o] ELSE 0]

PositionInv == ~skipped => position = Net(Settled)

BooksInv == BooksType /\ Acknowledged /\ DatabaseFollowsTracker /\ PositionInv

\* Sums of signed shares: their type, what changing one order does, and how they compare.
LEMMA NetFacts ==
  ASSUME NEW f, \A p \in Orders : f[p] \in Int
  PROVE  Net(f) \in Int
<1> DEFINE F == [p \in Orders |-> Sign(p) * f[p]]
<1>1. DOMAIN F = Orders /\ \A p \in Orders : F[p] \in Int
  BY DEF Sign
<1> HIDE DEF F
<1>2. SumFunction(F) \in Int
  BY <1>1, SumType, OrdersAssumption DEF SumFunction
<1>3. QED
  BY <1>2, OrdersAssumption DEF Net, F

LEMMA NetStep ==
  ASSUME NEW f, \A p \in Orders : f[p] \in Int, NEW o \in Orders, NEW k \in Int,
         NEW g, g[o] = f[o] + k, \A p \in Orders \ {o} : g[p] = f[p]
  PROVE  Net(g) = Net(f) + Sign(o) * k
<1> DEFINE F == [p \in Orders |-> Sign(p) * f[p]]
           G == [p \in Orders |-> Sign(p) * g[p]]
           R == Orders \ {o}
<1>1. /\ DOMAIN F = Orders /\ DOMAIN G = Orders
      /\ \A p \in Orders : F[p] \in Int
      /\ \A p \in R : G[p] = F[p]
      /\ G[o] = F[o] + Sign(o) * k /\ Sign(o) * k \in Int
  BY DEF Sign
<1>2. Net(f) = InitialPosition + SumFunction(F) /\ Net(g) = InitialPosition + SumFunction(G)
  BY DEF Net
<1> HIDE DEF F, G
<1>3. \A p \in Orders : G[p] \in Int
  BY <1>1
<1>4. IsFiniteSet(R)
  BY OrdersAssumption, FS_RemoveElement
<1>5. /\ SumFunction(F) = F[o] + SumFunctionOnSet(F, R)
      /\ SumFunction(G) = G[o] + SumFunctionOnSet(G, R)
  BY <1>1, <1>3, SumRemove, OrdersAssumption DEF SumFunction
<1>6. SumFunctionOnSet(F, R) = SumFunctionOnSet(G, R) /\ SumFunctionOnSet(F, R) \in Int
  BY <1>1, <1>4, SumCongruent, SumType
<1>7. F[o] \in Int /\ InitialPosition \in Int
  BY <1>1, OrdersAssumption
<1>8. QED
  BY <1>1, <1>2, <1>5, <1>6, <1>7

LEMMA NetMonotone ==
  ASSUME NEW f, NEW g, \A p \in Orders : f[p] \in Int /\ g[p] \in Int,
         \A p \in Orders : IF p \in Buys THEN f[p] <= g[p] ELSE g[p] <= f[p]
  PROVE  Net(f) <= Net(g)
<1> DEFINE F == [p \in Orders |-> Sign(p) * f[p]]
           G == [p \in Orders |-> Sign(p) * g[p]]
<1>1. /\ DOMAIN F = Orders /\ DOMAIN G = Orders
      /\ \A p \in Orders : F[p] \in Int /\ G[p] \in Int /\ F[p] <= G[p]
  BY DEF Sign
<1>2. Net(f) = InitialPosition + SumFunction(F) /\ Net(g) = InitialPosition + SumFunction(G)
  BY DEF Net
<1> HIDE DEF F, G
<1>3. SumFunction(F) <= SumFunction(G) /\ SumFunction(F) \in Int /\ SumFunction(G) \in Int
  BY <1>1, SumMonotone, SumType, OrdersAssumption DEF SumFunction
<1>4. QED
  BY <1>2, <1>3, OrdersAssumption

\* Net depends on the shares of the orders only.
LEMMA NetCongruent ==
  ASSUME NEW f, NEW g, \A p \in Orders : f[p] = g[p]
  PROVE  Net(f) = Net(g)
<1>1. [p \in Orders |-> Sign(p) * f[p]] = [p \in Orders |-> Sign(p) * g[p]]
  OBVIOUS
<1>2. QED
  BY <1>1 DEF Net

LEMMA BooksInit ==
  ASSUME Init
  PROVE  BooksInv
<1>1. BooksType
  <2>1. reports \in Counters /\ dbFilled \in Counters /\ dbFailures \in Nat
    BY DEF Init, Counters, Zero
  <2>2. position \in Int
    <3>1. InitialPosition \in Nat
      BY OrdersAssumption
    <3>2. QED
      BY <3>1 DEF Init
  <2>3. dbStatus \in [Orders -> Reports \cup {"none", "PendingSubmit"}]
    BY DEF Init
  <2>4. dbExecs \in [Orders -> SUBSET Nat]
    BY DEF Init
  <2>5. liveOrders \subseteq Orders /\ short \in BOOLEAN /\ skipped \in BOOLEAN
    BY DEF Init
  <2>6. QED
    BY <2>1, <2>2, <2>3, <2>4, <2>5 DEF BooksType
<1>2. Acknowledged /\ DatabaseFollowsTracker
  BY DEF Init, Acknowledged, DatabaseFollowsTracker
<1>3. PositionInv
  <2> DEFINE F == [p \in Orders |-> Sign(p) * Settled[p]]
  <2>1. \A p \in Orders : Settled[p] = 0
    BY DEF Init, Settled, Zero
  <2>2. DOMAIN F = Orders /\ \A p \in Orders : F[p] = 0
    BY <2>1 DEF Sign
  <2>3. Net(Settled) = InitialPosition + SumFunction(F)
    BY DEF Net
  <2> HIDE DEF F
  <2>4. SumFunction(F) = 0
    BY <2>2, SumZero, OrdersAssumption DEF SumFunction
  <2>5. QED
    BY <2>3, <2>4, OrdersAssumption DEF Init, PositionInv
<1>4. QED
  BY <1>1, <1>2, <1>3 DEF BooksInv

\* Steps that leave the books alone.
LEMMA BooksUntouched ==
  ASSUME BooksInv, UNCHANGED <<status, filled, booked, position, skipped, database, refused, short>>,
         reports' \in Counters, liveOrders' \subseteq Orders
  PROVE  BooksInv'
<1>1. BooksType' /\ Acknowledged' /\ DatabaseFollowsTracker'
  BY DEF BooksInv, BooksType, Acknowledged, DatabaseFollowsTracker, database
<1>2. Settled' = Settled
  BY DEF Settled
<1>3. PositionInv'
  BY <1>2 DEF BooksInv, PositionInv, Net
<1>4. QED
  BY <1>1, <1>3 DEF BooksInv

LEMMA StatusBooks ==
  ASSUME Inv, BooksInv, NEW o \in Orders, NEW s \in Reports, NEW ok \in BOOLEAN,
         OnOrderStatus(o, s, ok)
  PROVE  BooksInv'
<1>1. /\ UNCHANGED <<filled, booked, refused, position, liveOrders, skipped, short>>
      /\ UNCHANGED <<dbExecs, dbFilled>>
      /\ reports' = [reports EXCEPT ![o] = @ + 1]
  BY DEF OnOrderStatus, portfolio
<1>2. /\ dbFailures' = dbFailures \/ dbFailures' = dbFailures + 1
      /\ \/ dbStatus' = dbStatus
         \/ dbStatus' = [dbStatus EXCEPT ![o] = s]
         \/ dbStatus' = [dbStatus EXCEPT ![o] = "PendingSubmit"]
  BY DEF OnOrderStatus, DbAnswers, PersistStatus
<1>3. BooksType'
  BY <1>1, <1>2 DEF BooksInv, BooksType, Counters
<1>4. dbFailures' = 0 => dbFailures = 0
  BY <1>2 DEF BooksInv, BooksType
<1>5. Acknowledged'
  <2> SUFFICES ASSUME dbFailures' = 0, NEW p \in Orders, status'[p] # "CREATED"
               PROVE  dbStatus'[p] # "none"
    BY DEF Acknowledged
  <2>1. status[p] # "CREATED" => dbStatus[p] # "none"
    BY <1>4 DEF BooksInv, Acknowledged
  <2>2. s # "none"
    BY DEF Reports
  <2>3. CASE UNCHANGED <<status, dbStatus>>
    BY <2>1, <2>3
  <2>4. CASE status' = [status EXCEPT ![o] = StatusAfter(o, s)] /\ dbStatus' = [dbStatus EXCEPT ![o] = s]
    BY <2>1, <2>2, <2>4 DEF Inv, TrackerType, BooksInv, BooksType
  <2>5. CASE ~ok /\ DbAnswers(ok)
    BY <2>5 DEF DbAnswers, BooksInv, BooksType
  <2>6. QED
    BY <2>3, <2>4, <2>5 DEF OnOrderStatus, PersistStatus
<1>6. DatabaseFollowsTracker'
  BY <1>1, <1>4 DEF BooksInv, DatabaseFollowsTracker
<1>7. PositionInv'
  <2>1. Settled' = Settled
    BY <1>1 DEF Settled
  <2>2. QED
    BY <1>1, <2>1 DEF BooksInv, PositionInv, Net
<1>8. QED
  BY <1>3, <1>5, <1>6, <1>7 DEF BooksInv

\* An execution of a SELL that the broker could make finds its shares in the lots.
LEMMA LotsSuffice ==
  ASSUME Inv, NEW o \in Orders \ Buys, NEW k \in Nat \ {0},
         executed' = [executed EXCEPT ![o] = @ + k], Net(executed') >= 0, refused \cap Buys = {}
  PROVE  k <= Net(filled)
<1>1. \A p \in Orders : executed[p] \in Int /\ filled[p] \in Int
  BY DEF Inv, TrackerType, Counters
<1>2. \A p \in Orders : IF p \in Buys THEN executed[p] <= filled[p] ELSE filled[p] <= executed[p]
  BY <1>1 DEF Inv, CountInv
<1>3. Net(executed) <= Net(filled)
  BY <1>1, <1>2, NetMonotone
<1>4. executed'[o] = executed[o] + k /\ \A p \in Orders \ {o} : executed'[p] = executed[p]
  BY DEF Inv, TrackerType, Counters
<1>5. Net(executed') = Net(executed) + Sign(o) * k
  <2>1. o \in Orders /\ k \in Int
    OBVIOUS
  <2> DEFINE g == executed'
  <2>2. g[o] = executed[o] + k /\ \A p \in Orders \ {o} : g[p] = executed[p]
    BY <1>4
  <2> HIDE DEF g
  <2>3. Net(g) = Net(executed) + Sign(o) * k
    BY <1>1, <2>1, <2>2, NetStep
  <2>4. QED
    BY <2>3 DEF g
<1>6. Net(executed) \in Int /\ Net(filled) \in Int /\ Sign(o) = -1
  BY <1>1, NetFacts DEF Sign
<1>7. QED
  BY <1>3, <1>5, <1>6

LEMMA FillBooks ==
  ASSUME Inv, BooksInv, NEW o \in Orders, NEW k \in Nat \ {0}, NEW ok \in BOOLEAN,
         OnFill(o, k, ok)
  PROVE  BooksInv'
<1>1. /\ executed' = [executed EXCEPT ![o] = @ + k]
      /\ short' = (short \/ Net(executed') < 0)
      /\ UNCHANGED <<reports, booked>>
  BY FillStep DEF OnFill
<1>2. CASE refused' = refused \cup {o} /\ UNCHANGED <<filled, status, portfolio, database>>
  <2>1. BooksType' /\ Acknowledged' /\ DatabaseFollowsTracker'
    BY <1>1, <1>2 DEF BooksInv, BooksType, Acknowledged, DatabaseFollowsTracker, portfolio, database
  <2>2. Settled' = Settled
    BY <1>1, <1>2 DEF Settled
  <2>3. PositionInv'
    BY <1>2, <2>2 DEF BooksInv, PositionInv, Net, portfolio
  <2>4. QED
    BY <2>1, <2>3 DEF BooksInv
<1>3. CASE /\ status[o] \in {"SUBMITTED", "PARTIALLY_FILLED"}
           /\ filled' = [filled EXCEPT ![o] = @ + k]
           /\ status' = [status EXCEPT ![o] = IF remaining[o] = k THEN "FILLED"
                                              ELSE "PARTIALLY_FILLED"]
           /\ refused' = refused
           /\ PersistFill(o, k, ok) /\ DbAnswers(ok)
           /\ UNCHANGED <<portfolio, dbStatus>>
  <2>1. /\ dbFailures' \in Nat
        /\ dbFailures' = 0 => dbFailures = 0 /\ ok
    BY <1>3 DEF DbAnswers, BooksInv, BooksType
  <2>2. dbExecs' \in [Orders -> SUBSET Nat] /\ dbFilled' \in Counters
    <3>1. execs[o] + 1 \in Nat
      BY DEF Inv, TrackerType, Counters
    <3>2. QED
      BY <1>3, <3>1 DEF PersistFill, BooksInv, BooksType, Counters
  <2>3. BooksType'
    BY <1>1, <1>3, <2>1, <2>2 DEF BooksInv, BooksType, portfolio
  <2>4. Acknowledged'
    BY <1>3, <2>1 DEF BooksInv, Acknowledged, Inv, TrackerType
  <2>5. DatabaseFollowsTracker'
    <3> SUFFICES ASSUME dbFailures' = 0, ~short', refused \cap Buys = {}
                 PROVE  dbFilled' = filled'
      BY <1>3 DEF DatabaseFollowsTracker
    <3>1. dbFilled = filled /\ ok
      BY <1>1, <2>1 DEF BooksInv, DatabaseFollowsTracker
    <3>2. dbStatus[o] # "none"
      BY <1>3, <2>1 DEF BooksInv, Acknowledged
    <3>3. Net(executed') \in Int
      <4>1. \A p \in Orders : executed'[p] \in Int
        BY <1>1 DEF Inv, TrackerType, Counters
      <4>2. QED
        BY <4>1, NetFacts
    <3>4. o \in Buys \/ k <= DbPosition
      <4>0. ~ (Net(executed') < 0)
        BY <1>1, Zenon
      <4>1. Net(executed') >= 0
        BY <3>3, <4>0
      <4>2. o \notin Buys => k <= Net(filled)
        BY <1>1, <4>1, LotsSuffice
      <4>3. QED
        BY <3>1, <4>2 DEF DbPosition
    <3>5. QED
      BY <1>3, <3>1, <3>2, <3>4 DEF PersistFill, FillAccepted
  <2>6. PositionInv'
    <3>1. booked[o] = 0
      BY <1>3 DEF Inv, BookInv
    <3>2. Settled' = Settled
      BY <1>1, <1>3, <3>1 DEF Settled, Inv, TrackerType, Counters
    <3>3. QED
      BY <1>3, <3>2 DEF BooksInv, PositionInv, Net, portfolio
  <2>7. QED
    BY <2>3, <2>4, <2>5, <2>6 DEF BooksInv
<1>4. QED
  BY <1>2, <1>3, FillStep

\* A booking that is not skipped moves the position by the shares of its order.
LEMMA BookMoves ==
  ASSUME NEW o \in Orders, NEW q \in Nat, position \in Int, Book(o, q), ~skipped'
  PROVE  ~skipped /\ position' = position + Sign(o) * q
<1>1. ~skipped /\ position' # position
  BY DEF Book
<1>2. position' = BookedPosition(o, q)
  BY <1>1 DEF Book
<1>3. ~(o \notin Buys /\ position = 0)
  BY <1>1, <1>2 DEF BookedPosition
<1>4. QED
  BY <1>1, <1>2, <1>3 DEF BookedPosition

LEMMA CommissionBooks ==
  ASSUME Inv, BooksInv, NEW o \in Orders, NEW ok \in BOOLEAN, OnCommission(o, ok)
  PROVE  BooksInv'
<1>1. /\ UNCHANGED <<reports, status, filled, dbStatus, dbExecs, dbFilled, refused, short>>
      /\ DbAnswers(ok)
  BY DEF OnCommission
<1>2. dbFailures' \in Nat /\ (dbFailures' = 0 => dbFailures = 0)
  BY <1>1 DEF DbAnswers, BooksInv, BooksType
<1>3. Acknowledged' /\ DatabaseFollowsTracker'
  BY <1>1, <1>2 DEF BooksInv, Acknowledged, DatabaseFollowsTracker
<1>4. CASE UNCHANGED portfolio
  <2>1. BooksType'
    BY <1>1, <1>2, <1>4 DEF BooksInv, BooksType, portfolio
  <2>2. Settled' = Settled
    BY <1>1, <1>4 DEF Settled, portfolio
  <2>3. QED
    BY <1>3, <1>4, <2>1, <2>2 DEF BooksInv, PositionInv, Net, portfolio
<1>5. CASE Booking(o, status[o], fillsCount[o], commsCount[o] + 1) /\ Book(o, filled[o])
  <2>1. TrackerType /\ BookInv(o) /\ filled[o] \in Nat /\ position \in Int
    BY DEF Inv, TrackerType, Counters, BooksInv, BooksType
  <2>2. booked[o] = 0
    <3>1. fillsCount[o] \in Nat /\ commsCount[o] \in Nat
      BY <2>1 DEF TrackerType, Counters
    <3>2. QED
      BY <1>5, <2>1, <3>1 DEF BookInv, Booking
  <2>3. booked' = [booked EXCEPT ![o] = 1]
    BY <1>5, <2>1, <2>2 DEF Book, TrackerType, Counters
  <2>4. position' \in Int /\ liveOrders' \subseteq Orders /\ skipped' \in BOOLEAN
    <3>1. Sign(o) \in Int
      BY DEF Sign
    <3>2. position' = position \/ position' = 0 \/ position' = position + Sign(o) * filled[o]
      BY <1>5 DEF Book, BookedPosition
    <3>3. position' \in Int
      BY <2>1, <3>2 DEF Sign
    <3>4. QED
      BY <1>5, <3>3 DEF Book, BooksInv, BooksType
  <2>5. BooksType'
    BY <1>1, <1>2, <2>4 DEF BooksInv, BooksType
  <2>6. PositionInv'
    <3> SUFFICES ASSUME ~skipped' PROVE position' = Net(Settled')
      BY DEF PositionInv, Net
    <3>1. position' = position + Sign(o) * filled[o] /\ position = Net(Settled)
      BY <1>5, <2>1, BookMoves DEF BooksInv, PositionInv
    <3>2. \A p \in Orders : Settled[p] \in Int
      BY <2>1 DEF Settled, TrackerType, Counters
    <3>3. Settled'[o] = Settled[o] + filled[o] /\ \A p \in Orders \ {o} : Settled'[p] = Settled[p]
      BY <1>1, <2>1, <2>2, <2>3 DEF Settled, TrackerType, Counters
    <3>4. Net(Settled') = Net(Settled) + Sign(o) * filled[o]
      BY <2>1, <3>2, <3>3, NetStep
    <3>5. QED
      BY <3>1, <3>4
  <2>7. QED
    BY <1>3, <2>5, <2>6 DEF BooksInv
<1>6. QED
  BY <1>4, <1>5 DEF OnCommission

LEMMA BooksNext ==
  ASSUME Inv, BooksInv, [Next]_vars
  PROVE  BooksInv'
<1>1. CASE UNCHANGED vars
  BY <1>1, BooksUntouched DEF vars, broker, state, portfolio, database, BooksInv, BooksType
<1>2. CASE Next
  <2>1. PICK o \in Orders :
          \/ Authorize(o) \/ Track(o) \/ OrderSink(o)
          \/ \E ok \in BOOLEAN :
               \/ \E s \in Reports : OnOrderStatus(o, s, ok)
               \/ \E k \in 1 .. Quantity[o] : OnFill(o, k, ok)
               \/ OnCommission(o, ok)
    BY <1>2 DEF Next
  <2>2. CASE Authorize(o) \/ Track(o) \/ OrderSink(o)
    <3>1. /\ UNCHANGED <<status, filled, booked, position, skipped, database, refused, short>>
          /\ reports' = reports /\ liveOrders' \subseteq Orders
      BY <2>2 DEF Authorize, Track, OrderSink, broker, state, portfolio, BooksInv, BooksType
    <3>2. QED
      BY <3>1, BooksUntouched DEF BooksInv, BooksType
  <2>3. \A k \in 1 .. Quantity[o] : k \in Nat \ {0}
    BY OrdersAssumption
  <2>4. QED
    BY <2>1, <2>2, <2>3, StatusBooks, FillBooks, CommissionBooks
<1>3. QED
  BY <1>1, <1>2

LEMMA BooksInvariant == SafeSpec => [](Inv /\ BooksInv)
<1>1. Init => Inv /\ BooksInv
  BY InitInv, BooksInit
<1>2. Inv /\ BooksInv /\ [Next]_vars => (Inv /\ BooksInv)'
  BY NextInv, BooksNext
<1>3. QED
  BY <1>1, <1>2, PTL DEF SafeSpec

\* Tracker, portfolio and database keep their types.
THEOREM OrderTypesAreKept == SafeSpec => []TypeOK
<1>1. Inv /\ BooksInv => TypeOK
  BY DEF Inv, TrackerType, BooksInv, BooksType, TypeOK, Phases
<1>2. QED
  BY <1>1, BooksInvariant, PTL

\* A database that refuses nothing holds, order by order, the shares the trackers count, as
\* long as the broker sold nothing that was not held and the trackers refused no execution of
\* a BUY (apply_fill, update_fill_in_db).  Only executions are compared, not
\* the row of the order and its status.
THEOREM DatabaseHasTheFills == SafeSpec => []DatabaseFollowsTracker
<1>1. BooksInv => DatabaseFollowsTracker
  BY DEF BooksInv
<1>2. QED
  BY <1>1, BooksInvariant, PTL

\* The position booked order by order is the one the database adds up execution by execution,
\* once every order with executions has been booked (_update_portfolio_after_fully_filled).
THEOREM PositionMeetsDatabase == SafeSpec => []PortfolioFollowsDatabase
<1>1. ASSUME Inv, BooksInv PROVE PortfolioFollowsDatabase
  <2> SUFFICES ASSUME dbFailures = 0, ~short, refused \cap Buys = {}, ~skipped,
                      \A o \in Orders : dbFilled[o] > 0 => booked[o] > 0
               PROVE  position = DbPosition
    BY DEF PortfolioFollowsDatabase
  <2>1. dbFilled = filled
    BY <1>1 DEF BooksInv, DatabaseFollowsTracker
  <2>2. \A o \in Orders : Settled[o] = dbFilled[o]
    BY <1>1, <2>1 DEF Settled, Inv, TrackerType, Counters
  <2>3. Net(Settled) = Net(dbFilled)
    BY <2>2, NetCongruent
  <2>4. QED
    BY <1>1, <2>3 DEF BooksInv, PositionInv, DbPosition
<1>2. QED
  BY <1>1, BooksInvariant, PTL
=============================================================================
