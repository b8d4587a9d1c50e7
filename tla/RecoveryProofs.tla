--------------------------- MODULE RecoveryProofs ---------------------------
(***************************************************************************)
(* Proofs about Recovery for any orders, batches, quantities, days and     *)
(* number of deaths: an order is sent a second time on the day of its      *)
(* first sending only if the broker ended it with shares left or if it was *)
(* staged in one of the two ways that restaged keeps; and a replay leaves  *)
(* no execution of a live or filled trade out of the database, except of a *)
(* trade it met pending, and books none twice.                             *)
(*                                                                         *)
(* The heart of the first is ReplayInv: in a recovery, an order whose only *)
(* trade is of today and not cancelled is either still to be replayed with *)
(* a fresh tracker, so that nothing in the replay can raise, or has a row  *)
(* of today.  What is then staged once more had its row at a status that   *)
(* get_sent_order_refs_today does not count.  ExecInv, below, adds what    *)
(* the tracker, the database and the lots have of the trade's executions.  *)
(***************************************************************************)
EXTENDS Recovery, SumLemmas, TLAPS

Rows == OrderRow \cup {NoRow}
Reported == Status

\* A tracker that can take an execution has shares left.
TrackerShape ==
  {tr \in Tracker : tr.status \in {"CREATED", "SUBMITTED", "PARTIALLY_FILLED"} => tr.left > 0}

TypeInv ==
  /\ day \in Days
  /\ session \in {"none", "started", "completed"}
  /\ pc \in {"down", "ready", "loaded", "replay", "staging", "running"}
  /\ recovery \in BOOLEAN
  /\ file \subseteq Orders /\ pending \subseteq Orders /\ queued \subseteq Orders
  /\ registry \in [Orders -> TrackerShape \cup {NoTracker}]
  /\ trades \in [Orders -> Seq(Trade)]
  /\ row \in [Orders -> Rows]

HeldToday(o) ==
  Len(trades[o]) = 1 /\ trades[o][1].state # "cancelled" /\ trades[o][1].day = day

\* Trades are of today or earlier, and a row was created after the first of them.
TradeInv ==
  \A o \in Orders :
    /\ \A n \in DOMAIN trades[o] : trades[o][n].day <= day
    /\ row[o] # NoRow => /\ row[o].perm \in DOMAIN trades[o]
                         /\ trades[o][1].day <= row[o].day /\ row[o].day <= day

\* Orders are staged or on their way only in a process that has loaded or restored, and both
\* only if they were staged twice.
MemoryInv ==
  /\ pc \in {"down", "ready", "replay"} => pending = {} /\ queued = {}
  /\ pending \cap queued \subseteq restaged
  /\ session = "none" => pc = "down"
  /\ \A o \in Orders : pc = "replay" /\ registry[o] # NoTracker => o \in file

\* A process that loads its orders is the first of its day: nothing was sent today.
FreshInv ==
  session = "none" \/ (pc = "ready" /\ ~recovery) =>
    \A o \in Orders : \A n \in DOMAIN trades[o] : trades[o][n].day < day

\* The order has a row of today, counted by get_sent_order_refs_today or at a status that
\* StageRemaining takes note of.
Noted(o) == row[o] # NoRow /\ row[o].day = day /\ row[o].status # "Cancelled"

ReplayInv ==
  pc = "replay" =>
    /\ \A t \in todo : t = <<t[1], t[2]>> /\ t[1] \in file
                         /\ t[2] \in TradesToday(t[1])
    /\ \A o \in file :
         /\ registry[o] # NoTracker
         /\ HeldToday(o) =>
              IF <<o, 1>> \in todo THEN registry[o].status = "CREATED" ELSE Noted(o)

HeldInv ==
  \A o \in Orders : HeldToday(o) /\ o \notin restaged => o \notin pending /\ o \notin queued

Inv == TypeInv /\ TradeInv /\ MemoryInv /\ FreshInv /\ ReplayInv /\ HeldInv

LEMMA TrackerNotMissing == NoTracker \notin TrackerShape
BY NoValuesAssumption DEF TrackerShape

(***************************************************************************)
(* What the handlers make of an order.                                     *)
(***************************************************************************)
M(tr, r, e, l) == [tracker |-> tr, row |-> r, execs |-> e, lots |-> l]

LEMMA RowAfterIsRow ==
  ASSUME NEW tr, NEW r \in Rows, NEW e, NEW l,
         NEW o \in Orders, NEW n \in Nat \ {0}, NEW s \in Reported, day \in Days
  PROVE  /\ RowAfter(M(tr, r, e, l), o, n, s) \in Rows
         /\ RowAfter(M(tr, r, e, l), o, n, s) # NoRow
<1>1. M(tr, r, e, l).row = r
  BY DEF M
<1>2. RowAfter(M(tr, r, e, l), o, n, s) \in OrderRow
  BY <1>1 DEF Rows, OrderRow, RowAfter, Reported
<1>3. QED
  BY <1>2, NoValuesAssumption DEF Rows

LEMMA StatusResult ==
  ASSUME NEW tr \in TrackerShape, NEW r \in Rows, NEW e, NEW l,
         NEW o \in Orders, NEW n \in Nat \ {0}, NEW s \in Reported, day \in Days
  PROVE  \E tr2 \in TrackerShape, r2 \in Rows :
           /\ OnOrderStatus(M(tr, r, e, l), o, n, s) = M(tr2, r2, e, l)
           /\ tr2 = tr \/ tr2 = [tr EXCEPT !.status = StatusAfter(tr, s)]
           /\ ~StatusRaises(tr, s) => tr2 = [tr EXCEPT !.status = StatusAfter(tr, s)]
           /\ r2 = r \/ r2 = RowAfter(M(tr, r, e, l), o, n, s)
           /\ ~StatusRaises(tr, s) /\ ~RowRaises(M(tr, r, e, l), o, n)
                => r2 = RowAfter(M(tr, r, e, l), o, n, s)
<1> DEFINE m == M(tr, r, e, l)
           tr2 == [tr EXCEPT !.status = StatusAfter(tr, s)]
           r2 == RowAfter(m, o, n, s)
<1>1. tr2 \in TrackerShape
  BY DEF TrackerShape, Tracker, StatusAfter
<1>2. r2 \in Rows
  BY RowAfterIsRow
<1>3. /\ [m EXCEPT !.tracker = tr2] = M(tr2, r, e, l)
      /\ [m EXCEPT !.tracker = tr2, !.row = r2] = M(tr2, r2, e, l)
  <2> HIDE DEF tr2, r2
  <2>1. [m EXCEPT !.tracker = tr2] = M(tr2, r, e, l)
    BY DEF M
  <2>2. [M(tr2, r, e, l) EXCEPT !.row = r2] = M(tr2, r2, e, l)
    BY DEF M
  <2>3. QED
    BY <2>1, <2>2
<1>4. OnOrderStatus(m, o, n, s) =
        IF StatusRaises(tr, s) THEN M(tr, r, e, l)
        ELSE IF RowRaises(m, o, n) THEN M(tr2, r, e, l)
        ELSE M(tr2, r2, e, l)
  <2>1. m.tracker = tr
    BY DEF M
  <2> HIDE DEF m, r2
  <2>2. QED
    BY <2>1, <1>3 DEF OnOrderStatus, r2, m
<1>5. tr2 = [tr EXCEPT !.status = StatusAfter(tr, s)]
  OBVIOUS
<1> HIDE DEF m, tr2, r2
<1>6. QED
  BY <1>1, <1>2, <1>4, <1>5 DEF m, r2

LEMMA StoredResult ==
  ASSUME NEW tr, NEW r, NEW e, NEW l, NEW es
  PROVE  Stored(M(tr, r, e, l), es) = M(tr, r, e \cup es, l + Cardinality(es \ e))
<1> DEFINE m == M(tr, r, e, l)
           x == m.execs \cup es
           y == m.lots + Cardinality(es \ m.execs)
<1>1. m.execs = e /\ m.lots = l
  BY DEF M
<1>2. Stored(m, es) = [m EXCEPT !.execs = x, !.lots = y]
  BY Zenon DEF Stored
<1>3. [m EXCEPT !.execs = x, !.lots = y] = M(tr, r, x, y)
  <2> HIDE DEF x, y
  <2>1. [m EXCEPT !.execs = x] = M(tr, r, x, l)
    BY DEF M
  <2>2. [M(tr, r, x, l) EXCEPT !.lots = y] = M(tr, r, x, y)
    BY DEF M
  <2>3. QED
    BY <2>1, <2>2
<1>4. x = e \cup es /\ y = l + Cardinality(es \ e)
  BY <1>1
<1> HIDE DEF m, x, y
<1>5. QED
  BY <1>2, <1>3, <1>4 DEF m

\* What a handler adds to the executions, and the lots of its order with them.
Adds(es, e, l, e2, l2) == e2 = e \cup es /\ (l \in Nat => l2 = l + Cardinality(es \ e))

\* The executions of a trade.
Fills(o, n, t) == {<<o, n, k>> : k \in 1 .. t.executed}

LEMMA AddsNothing == ASSUME NEW e, NEW l PROVE Adds({}, e, l, e, l)
<1>1. {} \ e = {} /\ e \cup {} = e /\ Cardinality({}) = 0
  BY FS_EmptySet
<1>2. QED
  BY <1>1 DEF Adds

LEMMA FillResult ==
  ASSUME NEW tr \in TrackerShape, NEW r \in Rows, NEW e, NEW l,
         NEW o \in Orders, NEW n \in Nat \ {0}, NEW k \in Nat \ {0}
  PROVE  \E tr2 \in TrackerShape : \E e2, l2 :
           /\ OnFill(M(tr, r, e, l), o, n, k) = M(tr2, r, e2, l2)
           /\ \E es \in SUBSET {<<o, n, k>>} : Adds(es, e, l, e2, l2)
           /\ Fillable(tr) /\ r # NoRow /\ r.perm = n
                => tr2 = TrackerFilled(tr, 1) /\ <<o, n, k>> \in e2
<1> DEFINE m == M(tr, r, e, l)
           tr2 == TrackerFilled(tr, 1)
<1>1. Fillable(tr) => tr2 \in TrackerShape
  BY DEF TrackerShape, Tracker, TrackerFilled, Fillable
<1>2. m.tracker = tr /\ [m EXCEPT !.tracker = tr2] = M(tr2, r, e, l)
  BY DEF M
<1> DEFINE es == {<<o, n, k>>}
           l2 == l + Cardinality(es \ e)
<1>3. Stored(M(tr2, r, e, l), es) = M(tr2, r, e \cup es, l2)
  <2> HIDE DEF tr2
  <2>1. QED
    BY StoredResult
<1> HIDE DEF m, tr2, es, l2
<1>4. CASE ~Fillable(tr)
  <2>1. OnFill(m, o, n, k) = m
    BY <1>2, <1>4 DEF OnFill
  <2>2. {} \in SUBSET {<<o, n, k>>} /\ Adds({}, e, l, e, l)
    BY AddsNothing
  <2>3. QED
    BY <1>4, <2>1, <2>2 DEF m
<1>5. CASE Fillable(tr)
  <2>1. m.row = r
    BY DEF m, M
  <2>2. CASE r = NoRow \/ r.perm # n
    <3>1. OnFill(m, o, n, k) = M(tr2, r, e, l)
      BY <1>2, <1>5, <2>1, <2>2 DEF OnFill, tr2
    <3>2. {} \in SUBSET {<<o, n, k>>} /\ Adds({}, e, l, e, l)
      BY AddsNothing
    <3>3. QED
      BY <1>1, <1>5, <2>2, <3>1, <3>2 DEF m
  <2>3. CASE ~(r = NoRow \/ r.perm # n)
    <3>1. OnFill(m, o, n, k) = M(tr2, r, e \cup es, l2)
      BY <1>2, <1>3, <1>5, <2>1, <2>3 DEF OnFill, tr2, es
    <3>2. /\ es \in SUBSET {<<o, n, k>>} /\ Adds(es, e, l, e \cup es, l2)
          /\ <<o, n, k>> \in e \cup es
      BY DEF es, l2, Adds
    <3>3. tr2 = TrackerFilled(tr, 1)
      BY DEF tr2
    <3>4. QED
      BY <1>1, <1>5, <3>1, <3>2, <3>3 DEF m
  <2>4. QED
    BY <2>2, <2>3
<1>6. QED
  BY <1>4, <1>5

LEMMA ReplayResult ==
  ASSUME NEW tr \in TrackerShape, NEW r \in Rows, NEW e, NEW l,
         NEW o \in Orders, NEW n \in Nat \ {0}, NEW t \in Trade, NEW s \in Reported, day \in Days
  PROVE  \E tr2 \in TrackerShape, r2 \in Rows : \E e2, l2 :
           /\ ReplayTrade(M(tr, r, e, l), o, n, t, s) = M(tr2, r2, e2, l2)
           /\ r2 = r \/ r2 = RowAfter(M(tr, r, e, l), o, n, s)
           /\ tr.status = "CREATED" /\ ~RowRaises(M(tr, r, e, l), o, n)
                => r2 = RowAfter(M(tr, r, e, l), o, n, s)
           /\ \E es \in SUBSET Fills(o, n, t) : Adds(es, e, l, e2, l2)
           /\ /\ tr.status = "CREATED" /\ ~RowRaises(M(tr, r, e, l), o, n)
              /\ s \notin {"Pending", "Cancelled"} /\ t.executed <= tr.left
              => /\ tr2.left = tr.left - t.executed
                 /\ tr2.status \in {"SUBMITTED", "PARTIALLY_FILLED", "FILLED"}
                 /\ tr2.status = "FILLED" <=> tr2.left = 0
                 /\ Fills(o, n, t) \subseteq e2
<1> DEFINE m == M(tr, r, e, l)
           tr1 == SubmitFirst(tr, s)
           j(x) == IF Fillable(x) THEN Smaller(t.executed, x.left) ELSE 0
<1>1. s \in Reported
  OBVIOUS
<1>2. tr1 \in TrackerShape
  BY DEF TrackerShape, Tracker, SubmitFirst
<1>3. m.tracker = tr /\ [m EXCEPT !.tracker = tr1] = M(tr1, r, e, l)
  BY DEF M
<1>4. PICK tr2 \in TrackerShape, r2 \in Rows :
        /\ OnOrderStatus(M(tr1, r, e, l), o, n, s) = M(tr2, r2, e, l)
        /\ tr2 = tr1 \/ tr2 = [tr1 EXCEPT !.status = StatusAfter(tr1, s)]
        /\ ~StatusRaises(tr1, s) => tr2 = [tr1 EXCEPT !.status = StatusAfter(tr1, s)]
        /\ r2 = r \/ r2 = RowAfter(M(tr1, r, e, l), o, n, s)
        /\ ~StatusRaises(tr1, s) /\ ~RowRaises(M(tr1, r, e, l), o, n)
             => r2 = RowAfter(M(tr1, r, e, l), o, n, s)
  BY <1>1, <1>2, StatusResult
<1>5. /\ RowAfter(M(tr1, r, e, l), o, n, s) = RowAfter(m, o, n, s)
      /\ RowRaises(M(tr1, r, e, l), o, n) <=> RowRaises(m, o, n)
  BY DEF M, RowAfter, RowRaises, PermFixed
<1>6. \E tr3 \in TrackerShape : \E e3, l3 :
        /\ ReplayFills(M(tr2, r2, e, l), o, n, t) = M(tr3, r2, e3, l3)
        /\ \E es \in SUBSET Fills(o, n, t) : Adds(es, e, l, e3, l3)
        /\ tr2.status = "SUBMITTED" /\ t.executed <= tr2.left
             => /\ tr3.left = tr2.left - t.executed
                /\ tr3.status \in {"SUBMITTED", "PARTIALLY_FILLED", "FILLED"}
                /\ tr3.status = "FILLED" <=> tr3.left = 0
                /\ Fills(o, n, t) \subseteq e3
  <2> DEFINE m2 == M(tr2, r2, e, l)
             i == j(tr2)
             es == {<<o, n, k>> : k \in 1 .. i}
             tr3 == TrackerFilled(tr2, i)
  <2>1. i \in Nat /\ (i > 0 => Fillable(tr2) /\ i <= tr2.left)
    BY DEF TrackerShape, Tracker, Trade, Smaller
  <2>2. i > 0 => tr3 \in TrackerShape
    BY <2>1 DEF TrackerShape, Tracker, TrackerFilled
  <2>3. m2.tracker = tr2 /\ [m2 EXCEPT !.tracker = tr3] = M(tr3, r2, e, l)
    BY DEF M
  <2> DEFINE l3 == l + Cardinality(es \ e)
  <2>4. Stored(M(tr3, r2, e, l), es) = M(tr3, r2, e \cup es, l3)
    <3> HIDE DEF tr3, es
    <3>1. QED
      BY StoredResult
  <2>5. ReplayFills(m2, o, n, t) =
          IF i = 0 THEN m2 ELSE Stored([m2 EXCEPT !.tracker = tr3], es)
    BY <2>3 DEF ReplayFills
  <2>6. t.executed \in Nat /\ tr2.left \in Nat /\ i <= t.executed
    BY DEF TrackerShape, Tracker, Trade, Smaller
  <2>7. tr2.status = "SUBMITTED" /\ t.executed <= tr2.left => i = t.executed
    BY <2>6 DEF Smaller, Fillable
  <2>8. /\ tr3.left = tr2.left - i
        /\ tr3.status = IF tr2.left = i THEN "FILLED" ELSE "PARTIALLY_FILLED"
    BY DEF TrackerFilled
  <2>9. tr2.status = "SUBMITTED" => tr2.left > 0
    BY DEF TrackerShape
  <2>10. es \in SUBSET Fills(o, n, t)
    BY <2>1, <2>6 DEF Fills
  <2>11. i = t.executed => es = Fills(o, n, t)
    BY DEF Fills
  <2>12. Adds(es, e, l, e \cup es, l3)
    BY DEF Adds
  <2> HIDE DEF m2, tr3, i, es, l3
  <2>13. CASE i = 0
    <3>1. {} \in SUBSET Fills(o, n, t) /\ Adds({}, e, l, e, l)
      BY AddsNothing
    <3>2. ReplayFills(m2, o, n, t) = M(tr2, r2, e, l)
      BY <2>5, <2>13 DEF m2
    <3>3. tr2.status = "SUBMITTED" /\ t.executed <= tr2.left
            => /\ tr2.left = tr2.left - t.executed
               /\ tr2.left # 0
               /\ Fills(o, n, t) \subseteq e
      BY <2>6, <2>7, <2>9, <2>13 DEF Fills
    <3>4. QED
      BY <3>1, <3>2, <3>3 DEF m2
  <2>14. CASE i # 0
    <3>1. ReplayFills(m2, o, n, t) = M(tr3, r2, e \cup es, l3)
      BY <2>3, <2>4, <2>5, <2>14
    <3>2. tr3 \in TrackerShape
      BY <2>1, <2>2, <2>14
    <3>3. tr2.status = "SUBMITTED" /\ t.executed <= tr2.left
            => /\ tr3.left = tr2.left - t.executed
               /\ tr3.status \in {"SUBMITTED", "PARTIALLY_FILLED", "FILLED"}
               /\ tr3.status = "FILLED" <=> tr3.left = 0
               /\ Fills(o, n, t) \subseteq e \cup es
      <4> SUFFICES ASSUME tr2.status = "SUBMITTED", t.executed <= tr2.left
                   PROVE  /\ tr3.left = tr2.left - t.executed
                          /\ tr3.status \in {"SUBMITTED", "PARTIALLY_FILLED", "FILLED"}
                          /\ tr3.status = "FILLED" <=> tr3.left = 0
                          /\ Fills(o, n, t) \subseteq e \cup es
        OBVIOUS
      <4>1. i = t.executed
        BY <2>7
      <4>2. /\ tr3.left = tr2.left - t.executed
            /\ tr3.status = IF tr2.left = t.executed THEN "FILLED" ELSE "PARTIALLY_FILLED"
        BY <2>8, <4>1
      <4>3. tr3.status = "FILLED" <=> tr3.left = 0
        BY <2>6, <4>2
      <4>4. Fills(o, n, t) \subseteq e \cup es
        BY <2>11, <4>1
      <4>5. QED
        BY <4>2, <4>3, <4>4
    <3>4. QED
      BY <2>10, <2>12, <3>1, <3>2, <3>3 DEF m2
  <2>15. QED
    BY <2>13, <2>14
<1>7. tr.status = "CREATED" => ~SubmitRaises(tr, s) /\ ~StatusRaises(tr1, s)
  BY <1>1 DEF SubmitRaises, SubmitFirst, StatusRaises, Final, Reported, Submits, TrackerShape, Tracker
<1>12. tr.status = "CREATED" /\ s \notin {"Pending", "Cancelled"}
         => tr2.status = "SUBMITTED" /\ tr2.left = tr.left
  <2> SUFFICES ASSUME tr.status = "CREATED", s \notin {"Pending", "Cancelled"}
               PROVE  tr2.status = "SUBMITTED" /\ tr2.left = tr.left
    OBVIOUS
  <2>1. s \in {"Submitted", "Filled", "ValidationError"}
    BY DEF Reported, Status, Uncounted
  <2>2. tr1 = [tr EXCEPT !.status = "SUBMITTED"] \/ (tr1 = tr /\ s = "ValidationError")
    BY <2>1 DEF SubmitFirst, Submits
  <2>3. /\ tr1.left = tr.left
        /\ tr1.status = "SUBMITTED" \/ (tr1.status = "CREATED" /\ s = "ValidationError")
    BY <2>2 DEF TrackerShape, Tracker
  <2>4. StatusAfter(tr1, s) = "SUBMITTED"
    BY <2>1, <2>3 DEF StatusAfter
  <2>5. ~StatusRaises(tr1, s)
    BY <1>7
  <2> HIDE DEF tr1
  <2>6. tr2 = [tr1 EXCEPT !.status = "SUBMITTED"]
    BY <1>4, <2>4, <2>5
  <2>7. QED
    BY <1>2, <2>3, <2>6 DEF TrackerShape, Tracker
<1> HIDE DEF m, tr1
<1>8. ReplayTrade(m, o, n, t, s) =
        IF SubmitRaises(tr, s) THEN m
        ELSE IF StatusFails(M(tr1, r, e, l), o, n, s) THEN M(tr2, r2, e, l)
        ELSE ReplayFills(M(tr2, r2, e, l), o, n, t)
  BY <1>3, <1>4 DEF ReplayTrade, tr1
<1>13. {} \in SUBSET Fills(o, n, t) /\ Adds({}, e, l, e, l)
  BY AddsNothing
<1>9. CASE SubmitRaises(tr, s)
  BY <1>7, <1>8, <1>9, <1>13 DEF m
<1>10. CASE ~SubmitRaises(tr, s)
  <2>1. CASE StatusFails(M(tr1, r, e, l), o, n, s)
    <3>1. StatusRaises(tr1, s) \/ RowRaises(m, o, n)
      <4>1. M(tr1, r, e, l).tracker = tr1
        BY DEF M
      <4>2. QED
        BY <1>5, <2>1, <4>1 DEF StatusFails
    <3>2. ~(tr.status = "CREATED" /\ ~RowRaises(m, o, n))
      BY <1>7, <3>1
    <3>3. ReplayTrade(m, o, n, t, s) = M(tr2, r2, e, l)
      BY <1>8, <1>10, <2>1
    <3>4. QED
      BY <1>4, <1>5, <1>13, <3>2, <3>3 DEF m
  <2>2. CASE ~StatusFails(M(tr1, r, e, l), o, n, s)
    <3>1. PICK tr3 \in TrackerShape : \E e3, l3 :
            /\ ReplayFills(M(tr2, r2, e, l), o, n, t) = M(tr3, r2, e3, l3)
            /\ \E es \in SUBSET Fills(o, n, t) : Adds(es, e, l, e3, l3)
            /\ tr2.status = "SUBMITTED" /\ t.executed <= tr2.left
                 => /\ tr3.left = tr2.left - t.executed
                    /\ tr3.status \in {"SUBMITTED", "PARTIALLY_FILLED", "FILLED"}
                    /\ tr3.status = "FILLED" <=> tr3.left = 0
                    /\ Fills(o, n, t) \subseteq e3
      BY <1>6
    <3>2. PICK e3, l3 :
            /\ ReplayFills(M(tr2, r2, e, l), o, n, t) = M(tr3, r2, e3, l3)
            /\ \E es \in SUBSET Fills(o, n, t) : Adds(es, e, l, e3, l3)
            /\ tr2.status = "SUBMITTED" /\ t.executed <= tr2.left
                 => /\ tr3.left = tr2.left - t.executed
                    /\ tr3.status \in {"SUBMITTED", "PARTIALLY_FILLED", "FILLED"}
                    /\ tr3.status = "FILLED" <=> tr3.left = 0
                    /\ Fills(o, n, t) \subseteq e3
      BY <3>1
    <3>3. ReplayTrade(m, o, n, t, s) = M(tr3, r2, e3, l3)
      BY <1>8, <1>10, <2>2, <3>2
    <3>4. /\ tr.status = "CREATED" /\ s \notin {"Pending", "Cancelled"} /\ t.executed <= tr.left
          => /\ tr3.left = tr.left - t.executed
             /\ tr3.status \in {"SUBMITTED", "PARTIALLY_FILLED", "FILLED"}
             /\ tr3.status = "FILLED" <=> tr3.left = 0
             /\ Fills(o, n, t) \subseteq e3
      BY <1>12, <3>2
    <3>5. tr.status = "CREATED" /\ ~RowRaises(m, o, n) => r2 = RowAfter(m, o, n, s)
      BY <1>4, <1>5, <1>7
    <3>6. r2 = r \/ r2 = RowAfter(m, o, n, s)
      BY <1>4, <1>5
    <3>7. QED
      BY <3>2, <3>3, <3>4, <3>5, <3>6 DEF m
  <2>3. QED
    BY <2>1, <2>2
<1>11. QED
  BY <1>9, <1>10

(***************************************************************************)
(* The initial states.                                                     *)
(***************************************************************************)
LEMMA InitInv == Init => Inv
<1> SUFFICES ASSUME Init PROVE Inv
  OBVIOUS
<1>1. TypeInv
  <2>1. day \in Days
    BY RecoveryAssumption DEF Init, Days
  <2>2. << >> \in Seq(Trade)
    OBVIOUS
  <2>3. trades \in [Orders -> Seq(Trade)]
    BY <2>2 DEF Init
  <2>4. row \in [Orders -> Rows] /\ registry \in [Orders -> TrackerShape \cup {NoTracker}]
    BY DEF Init, Rows
  <2>5. QED
    BY <2>1, <2>3, <2>4 DEF Init, TypeInv
<1>2. \A o \in Orders : DOMAIN trades[o] = {} /\ Len(trades[o]) = 0 /\ row[o] = NoRow
  BY DEF Init
<1>3. TradeInv /\ FreshInv /\ HeldInv
  BY <1>2 DEF TradeInv, FreshInv, HeldInv, HeldToday
<1>4. MemoryInv /\ ReplayInv
  BY DEF Init, MemoryInv, ReplayInv
<1>5. QED
  BY <1>1, <1>3, <1>4 DEF Inv

(***************************************************************************)
(* The process.                                                            *)
(***************************************************************************)
LEMMA StartInv ==
  ASSUME Inv, Start
  PROVE  Inv'
<1> USE DEF Inv, Start, memory, database, history
<1>1. TypeInv'
  BY DEF TypeInv
<1>2. TradeInv'
  BY DEF TradeInv
<1>3. MemoryInv'
  BY DEF MemoryInv
<1>4. FreshInv'
  BY DEF FreshInv, TypeInv
<1>5. ReplayInv'
  BY DEF ReplayInv
<1>6. HeldInv'
  BY DEF HeldInv, HeldToday
<1>7. QED
  BY <1>1, <1>2, <1>3, <1>4, <1>5, <1>6

LEMMA ForgetInv ==
  ASSUME Inv, ForgetMemory, pc' = "down", session' \in {"started", "completed"} \/ session' = session,
         UNCHANGED <<day, recovery, file, trades, row>>
  PROVE  Inv'
<1> USE DEF Inv, ForgetMemory
<1>1. TypeInv'
  BY DEF TypeInv
<1>2. TradeInv'
  BY DEF TradeInv
<1>3. MemoryInv'
  BY DEF MemoryInv
<1>4. FreshInv'
  BY DEF FreshInv
<1>5. ReplayInv'
  BY DEF ReplayInv
<1>6. HeldInv'
  BY DEF HeldInv, HeldToday
<1>7. QED
  BY <1>1, <1>2, <1>3, <1>4, <1>5, <1>6

LEMMA ExpiredTrades ==
  ASSUME NEW s \in Seq(Trade)
  PROVE  [n \in DOMAIN s |-> Expired(s[n])] \in Seq(Trade)
<1> DEFINE f == [n \in 1 .. Len(s) |-> Expired(s[n])]
<1>1. \A n \in 1 .. Len(s) : s[n] \in Trade
  OBVIOUS
<1>2. \A n \in 1 .. Len(s) : Expired(s[n]) \in Trade
  BY <1>1 DEF Expired, Trade
<1>3. Len(s) \in Nat /\ DOMAIN s = 1 .. Len(s)
  OBVIOUS
<1>4. f \in Seq(Trade)
  <2> HIDE DEF f
  <2>1. f \in [1 .. Len(s) -> Trade]
    BY <1>2 DEF f
  <2>2. QED
    BY <1>3, <2>1
<1>5. QED
  BY <1>3, <1>4

LEMMA NewDayInv ==
  ASSUME Inv, NewDay
  PROVE  Inv'
<1> USE DEF Inv, memory, database, history
<1>1. /\ day \in Nat /\ day' = day + 1 /\ day' \in Days
      /\ \A o \in Orders : trades[o] \in Seq(Trade)
  BY RecoveryAssumption DEF NewDay, TypeInv, Days
<1>2. \A o \in Orders : trades'[o] = [n \in DOMAIN trades[o] |-> Expired(trades[o][n])]
  BY DEF NewDay
<1>3. trades' \in [Orders -> Seq(Trade)]
  BY <1>1, ExpiredTrades DEF NewDay
<1>4. TypeInv'
  BY <1>1, <1>3 DEF NewDay, TypeInv
<1>5. \A o \in Orders : DOMAIN trades'[o] = DOMAIN trades[o]
  BY <1>2
<1>6. \A o \in Orders : \A n \in DOMAIN trades[o] : trades[o][n] \in Trade
  BY <1>1
<1>7. \A o \in Orders : \A n \in DOMAIN trades[o] : trades'[o][n].day = trades[o][n].day
  <2>1. \A t \in Trade : Expired(t).day = t.day
    BY DEF Expired, Trade
  <2>2. QED
    BY <1>2, <1>6, <2>1
<1>8. \A o \in Orders : \A n \in DOMAIN trades[o] : trades'[o][n].day < day'
  <2> TAKE o \in Orders
  <2> TAKE n \in DOMAIN trades[o]
  <2>1. trades[o][n].day <= day /\ trades[o][n].day \in Int
    BY <1>6 DEF TradeInv, Trade, Days
  <2>2. QED
    BY <1>1, <1>7, <2>1
<1>9. TradeInv'
  <2> SUFFICES ASSUME NEW o \in Orders
               PROVE  /\ \A n \in DOMAIN trades'[o] : trades'[o][n].day <= day'
                      /\ row'[o] # NoRow =>
                           /\ row'[o].perm \in DOMAIN trades'[o]
                           /\ trades'[o][1].day <= row'[o].day /\ row'[o].day <= day'
    BY DEF TradeInv
  <2>1. row'[o] = row[o] /\ row[o] \in Rows
    BY DEF NewDay, TypeInv
  <2>2. \A n \in DOMAIN trades'[o] : trades'[o][n].day <= day'
    <3> TAKE n \in DOMAIN trades'[o]
    <3>1. trades'[o][n].day < day' /\ trades'[o][n].day \in Int
      BY <1>5, <1>6, <1>7, <1>8 DEF Trade, Days
    <3>2. QED
      BY <1>1, <3>1
  <2>3. ASSUME row[o] # NoRow
        PROVE  /\ row[o].perm \in DOMAIN trades'[o]
               /\ trades'[o][1].day <= row[o].day /\ row[o].day <= day'
    <3>1. /\ row[o].perm \in DOMAIN trades[o] /\ row[o].day \in Int
          /\ trades[o][1].day <= row[o].day /\ row[o].day <= day
      BY <2>1, <2>3 DEF TradeInv, Rows, OrderRow, Days
    <3>2. 1 \in DOMAIN trades[o]
      BY <1>1, <3>1
    <3>3. QED
      BY <1>1, <1>5, <1>7, <3>1, <3>2
  <2>4. QED
    BY <2>1, <2>2, <2>3
<1>10. pending' = {} /\ queued' = {} /\ pc' = "down"
  BY DEF NewDay, MemoryInv
<1>11. MemoryInv'
  BY <1>10 DEF NewDay, MemoryInv
<1>12. FreshInv'
  BY <1>5, <1>8 DEF FreshInv
<1>13. ReplayInv' /\ HeldInv'
  BY <1>10 DEF ReplayInv, HeldInv
<1>14. QED
  BY <1>4, <1>9, <1>11, <1>12, <1>13

LEMMA LoadInv ==
  ASSUME Inv, LoadPortfolioOrders
  PROVE  Inv'
<1> USE DEF Inv, LoadPortfolioOrders, database, history
<1>1. TypeInv'
  BY RecoveryAssumption DEF TypeInv
<1>2. TradeInv'
  BY DEF TradeInv
<1>3. MemoryInv'
  BY DEF MemoryInv
<1>4. FreshInv'
  BY DEF FreshInv, MemoryInv
<1>5. ReplayInv'
  BY DEF ReplayInv
<1>6. HeldInv'
  <2> SUFFICES ASSUME NEW o \in Orders PROVE ~HeldToday(o)'
    BY DEF HeldInv
  <2>1. \A n \in DOMAIN trades[o] : trades[o][n].day < day
    BY DEF FreshInv
  <2>2. Len(trades[o]) = 1 => 1 \in DOMAIN trades[o]
    BY DEF TypeInv
  <2>3. day \in Int
    BY DEF TypeInv, Days
  <2>4. QED
    BY <2>1, <2>2, <2>3 DEF HeldToday
<1>7. QED
  BY <1>1, <1>2, <1>3, <1>4, <1>5, <1>6

LEMMA SaveInv ==
  ASSUME Inv, SaveStagedOrders
  PROVE  Inv'
<1> USE DEF Inv, SaveStagedOrders, memory, database, history
<1>1. TypeInv'
  BY DEF TypeInv
<1>2. TradeInv'
  BY DEF TradeInv
<1>3. MemoryInv'
  BY DEF MemoryInv
<1>4. FreshInv'
  BY DEF FreshInv, MemoryInv
<1>5. ReplayInv'
  BY DEF ReplayInv
<1>6. HeldInv'
  BY DEF HeldInv, HeldToday
<1>7. QED
  BY <1>1, <1>2, <1>3, <1>4, <1>5, <1>6

(***************************************************************************)
(* Sending.                                                                *)
(***************************************************************************)
LEMMA AuthorizeInv ==
  ASSUME Inv, NEW o \in Orders, Authorize(o)
  PROVE  Inv'
<1> USE DEF Inv, Authorize, database, history
<1>1. TypeInv'
  BY DEF TypeInv
<1>2. TradeInv'
  BY DEF TradeInv
<1>3. MemoryInv'
  BY DEF MemoryInv
<1>4. FreshInv'
  BY DEF FreshInv
<1>5. ReplayInv'
  BY DEF ReplayInv, MemoryInv
<1>6. HeldInv'
  BY DEF HeldInv, HeldToday
<1>7. QED
  BY <1>1, <1>2, <1>3, <1>4, <1>5, <1>6

LEMMA OrderSinkInv ==
  ASSUME Inv, NEW o \in Orders, OrderSink(o)
  PROVE  Inv'
<1> USE DEF Inv, database, history
<1>1. /\ o \in queued /\ (o \in pending => o \in restaged)
      /\ pc \notin {"down", "ready", "replay"}
      /\ queued' = queued \ {o}
      /\ UNCHANGED <<day, session, pc, recovery, file, pending, row, restaged>>
      /\ day \in Days /\ day \in Int
  BY DEF OrderSink, MemoryInv, TypeInv, Days
<1>2. NewTracker(o) \in TrackerShape
  BY RecoveryAssumption DEF NewTracker, TrackerShape, Tracker
<1>3. NewTrade \in Trade /\ NewTrade.day = day
  BY <1>1 DEF NewTrade, Trade
<1>4. /\ trades' \in [Orders -> Seq(Trade)]
      /\ \A p \in Orders \ {o} : trades'[p] = trades[p]
      /\ trades'[o] = trades[o] \/ trades'[o] = Append(trades[o], NewTrade)
  <2>1. trades' = trades \/ trades' = [trades EXCEPT ![o] = Append(trades[o], NewTrade)]
    BY DEF OrderSink
  <2>2. trades \in [Orders -> Seq(Trade)]
    BY DEF TypeInv
  <2>3. Append(trades[o], NewTrade) \in Seq(Trade)
    BY <1>3, <2>2
  <2>4. QED
    BY <2>1, <2>2, <2>3
<1>5. TypeInv'
  BY <1>1, <1>2, <1>4 DEF OrderSink, TypeInv
<1>6. trades[o] \in Seq(Trade) /\ trades'[o] \in Seq(Trade)
  BY <1>4 DEF TypeInv
<1>7. /\ \A n \in DOMAIN trades'[o] : n \in DOMAIN trades[o] \/ trades'[o][n] = NewTrade
      /\ \A n \in DOMAIN trades[o] : n \in DOMAIN trades'[o] /\ trades'[o][n] = trades[o][n]
  <2>1. CASE trades'[o] = trades[o]
    BY <2>1
  <2>2. CASE trades'[o] = Append(trades[o], NewTrade)
    <3> DEFINE s == trades[o]
    <3>1. /\ Len(s) \in Nat /\ DOMAIN s = 1 .. Len(s)
          /\ DOMAIN Append(s, NewTrade) = 1 .. Len(s) + 1
          /\ Append(s, NewTrade)[Len(s) + 1] = NewTrade
          /\ \A n \in 1 .. Len(s) : Append(s, NewTrade)[n] = s[n]
      BY <1>3, <1>6
    <3> HIDE DEF s
    <3>2. QED
      BY <2>2, <3>1 DEF s
  <2>3. QED
    BY <1>4, <2>1, <2>2
<1>8. TradeInv'
  <2> SUFFICES ASSUME NEW p \in Orders
               PROVE  /\ \A n \in DOMAIN trades'[p] : trades'[p][n].day <= day
                      /\ row[p] # NoRow =>
                           /\ row[p].perm \in DOMAIN trades'[p]
                           /\ trades'[p][1].day <= row[p].day /\ row[p].day <= day
    BY <1>1 DEF TradeInv
  <2>1. CASE p # o
    BY <1>4, <2>1 DEF TradeInv
  <2>2. CASE p = o
    <3>1. \A n \in DOMAIN trades'[o] : trades'[o][n].day <= day
      BY <1>1, <1>3, <1>7 DEF TradeInv
    <3>2. row[o] # NoRow => row[o].perm \in DOMAIN trades[o]
      BY DEF TradeInv
    <3>3. row[o] # NoRow => 1 \in DOMAIN trades[o]
      BY <1>6, <3>2
    <3>4. QED
      BY <1>7, <2>2, <3>1, <3>2, <3>3 DEF TradeInv
  <2>3. QED
    BY <2>1, <2>2
<1>9. MemoryInv'
  BY <1>1 DEF MemoryInv
<1>10. FreshInv' /\ ReplayInv'
  BY <1>1 DEF FreshInv, ReplayInv, MemoryInv
<1>11. HeldInv'
  BY <1>1, <1>4 DEF HeldInv, HeldToday
<1>12. QED
  BY <1>5, <1>8, <1>9, <1>10, <1>11

(***************************************************************************)
(* Recovering.                                                             *)
(***************************************************************************)
LEMMA RebuildInv ==
  ASSUME Inv, RebuildTrackers
  PROVE  Inv'
<1> USE DEF Inv, database, history
<1>1. /\ pc = "ready" /\ pc' = "replay" /\ pending = {} /\ queued = {} /\ session # "none"
      /\ UNCHANGED <<day, session, recovery, file, pending, queued, trades, row>>
  BY DEF RebuildTrackers, MemoryInv
<1>2. \A o \in Orders : NewTracker(o) \in TrackerShape /\ NewTracker(o).status = "CREATED"
  BY RecoveryAssumption DEF NewTracker, TrackerShape, Tracker
<1>3. registry' = [o \in Orders |-> IF o \in file THEN NewTracker(o) ELSE NoTracker]
  BY DEF RebuildTrackers
<1>4. TypeInv'
  BY <1>1, <1>2, <1>3 DEF TypeInv
<1>5. TradeInv'
  BY <1>1 DEF TradeInv
<1>6. MemoryInv'
  BY <1>1, <1>3 DEF MemoryInv
<1>7. FreshInv' /\ HeldInv'
  BY <1>1 DEF FreshInv, HeldInv
<1>8. ReplayInv'
  <2>1. todo' = UNION {{o} \X TradesToday(o) : o \in file}
    BY DEF RebuildTrackers
  <2>2. \A t \in todo' : t = <<t[1], t[2]>> /\ t[1] \in file /\ t[2] \in TradesToday(t[1])
    BY <2>1
  <2>3. \A o \in Orders : TradesToday(o)' = TradesToday(o)
    BY <1>1 DEF TradesToday
  <2>4. ASSUME NEW o \in file
        PROVE  /\ registry'[o] # NoTracker /\ registry'[o].status = "CREATED"
               /\ HeldToday(o) => <<o, 1>> \in todo'
    <3>1. o \in Orders
      BY DEF TypeInv
    <3>2. registry'[o] # NoTracker /\ registry'[o].status = "CREATED"
      BY <1>2, <1>3, <3>1, TrackerNotMissing
    <3>3. HeldToday(o) => 1 \in TradesToday(o)
      BY <3>1 DEF HeldToday, TradesToday, TypeInv
    <3>4. QED
      BY <2>1, <3>2, <3>3
  <2>5. \A o \in Orders : HeldToday(o)' <=> HeldToday(o)
    BY <1>1 DEF HeldToday
  <2>6. file \subseteq Orders
    BY DEF TypeInv
  <2>7. QED
    BY <1>1, <2>2, <2>3, <2>4, <2>5, <2>6 DEF ReplayInv
<1>9. QED
  BY <1>4, <1>5, <1>6, <1>7, <1>8

\* A trade that is replayed leaves a row of today, unless the broker has cancelled it.
LEMMA ReplayDailyFillsInv ==
  ASSUME Inv, ReplayDailyFills
  PROVE  Inv'
<1> USE DEF Inv
<1>0. PICK t \in todo : \E s \in BrokerStatuses(trades[t[1]][t[2]]) :
        /\ todo' = todo \ {t}
        /\ Becomes(t[1], ReplayTrade(Memo(t[1]), t[1], t[2], trades[t[1]][t[2]], s))
  BY DEF ReplayDailyFills
<1>1. PICK s \in BrokerStatuses(trades[t[1]][t[2]]) :
        /\ todo' = todo \ {t}
        /\ Becomes(t[1], ReplayTrade(Memo(t[1]), t[1], t[2], trades[t[1]][t[2]], s))
  BY <1>0
<1> DEFINE o == t[1]
           n == t[2]
           u == trades[o][n]
<1>2. /\ pc = "replay" /\ pc' = "replay" /\ pending = {} /\ queued = {} /\ session # "none"
      /\ UNCHANGED <<day, session, pc, recovery, file, pending, queued, trades, restaged>>
  BY DEF ReplayDailyFills, MemoryInv
<1>3. t = <<o, n>> /\ o \in file /\ o \in Orders /\ n \in TradesToday(o) /\ registry[o] # NoTracker
  BY <1>2 DEF ReplayInv, TypeInv
<1>4. /\ registry[o] \in TrackerShape /\ row[o] \in Rows /\ trades[o] \in Seq(Trade)
      /\ day \in Days
  BY <1>3 DEF TypeInv
<1>5. /\ n \in DOMAIN trades[o] /\ n \in Nat \ {0} /\ u \in Trade /\ u.day = day
      /\ 1 \in DOMAIN trades[o]
  BY <1>3, <1>4 DEF TradesToday
<1>18. s \in Reported /\ (u.state # "cancelled" => s # "Cancelled")
  BY <1>1, <1>5 DEF BrokerStatuses, Trade, Reported, Status, Uncounted
<1> HIDE DEF o, n, u
<1>6. Memo(o) = M(registry[o], row[o], dbExecs, lots[o])
  BY DEF Memo, M
<1>7. PICK tr2 \in TrackerShape, r2 \in Rows : \E e2, l2 :
        /\ ReplayTrade(Memo(o), o, n, u, s) = M(tr2, r2, e2, l2)
        /\ r2 = row[o] \/ r2 = RowAfter(Memo(o), o, n, s)
        /\ registry[o].status = "CREATED" /\ ~RowRaises(Memo(o), o, n)
             => r2 = RowAfter(Memo(o), o, n, s)
  <2> DEFINE tr == registry[o]
             r == row[o]
             e == dbExecs
             l == lots[o]
  <2>1. tr \in TrackerShape /\ r \in Rows /\ Memo(o) = M(tr, r, e, l)
    BY <1>4, <1>6
  <2> HIDE DEF tr, r, e, l
  <2>2. \E tr2 \in TrackerShape, r2 \in Rows : \E e2, l2 :
          /\ ReplayTrade(M(tr, r, e, l), o, n, u, s) = M(tr2, r2, e2, l2)
          /\ r2 = r \/ r2 = RowAfter(M(tr, r, e, l), o, n, s)
          /\ tr.status = "CREATED" /\ ~RowRaises(M(tr, r, e, l), o, n)
               => r2 = RowAfter(M(tr, r, e, l), o, n, s)
    BY <1>3, <1>4, <1>5, <1>18, <2>1, ReplayResult
  <2>3. QED
    BY <2>1, <2>2 DEF tr, r
<1>8. /\ registry' = [registry EXCEPT ![o] = tr2]
      /\ row' = [row EXCEPT ![o] = r2]
  <2>1. PICK e2, l2 : ReplayTrade(Memo(o), o, n, u, s) = M(tr2, r2, e2, l2)
    BY <1>7
  <2>2. Becomes(o, M(tr2, r2, e2, l2))
    BY <1>1, <2>1 DEF o, n, u
  <2>3. M(tr2, r2, e2, l2).tracker = tr2 /\ M(tr2, r2, e2, l2).row = r2
    BY DEF M
  <2>4. QED
    BY <2>2, <2>3 DEF Becomes
<1>9. TypeInv'
  BY <1>2, <1>8 DEF TypeInv
<1>10. /\ row'[o] = r2 /\ registry'[o] = tr2 /\ registry'[o] # NoTracker
       /\ \A p \in Orders \ {o} : row'[p] = row[p] /\ registry'[p] = registry[p]
  BY <1>3, <1>8, TrackerNotMissing DEF TypeInv
<1>11. /\ row[o] = NoRow => RowAfter(Memo(o), o, n, s)
                              = [perm |-> n, status |-> s, day |-> day]
       /\ row[o] # NoRow =>
            /\ RowAfter(Memo(o), o, n, s).perm = n
            /\ RowAfter(Memo(o), o, n, s).status = s
            /\ RowAfter(Memo(o), o, n, s).day = row[o].day
  BY <1>4, <1>6 DEF RowAfter, M, Rows, OrderRow
<1>12. TradeInv'
  <2> SUFFICES ASSUME NEW p \in Orders
               PROVE  row'[p] # NoRow =>
                        /\ row'[p].perm \in DOMAIN trades[p]
                        /\ trades[p][1].day <= row'[p].day /\ row'[p].day <= day
    BY <1>2 DEF TradeInv
  <2>1. CASE p # o \/ r2 = row[o]
    BY <1>10, <2>1 DEF TradeInv
  <2>2. CASE p = o /\ r2 = RowAfter(Memo(o), o, n, s)
    <3>1. CASE row[o] = NoRow
      <4>1. trades[o][1].day <= day /\ day <= day
        BY <1>3, <1>4, <1>5 DEF TradeInv, Days
      <4>2. QED
        BY <1>5, <1>10, <1>11, <2>2, <3>1, <4>1
    <3>2. CASE row[o] # NoRow
      BY <1>3, <1>5, <1>10, <1>11, <2>2, <3>2 DEF TradeInv
    <3>3. QED
      BY <3>1, <3>2
  <2>3. QED
    BY <1>7, <2>1, <2>2
<1>13. MemoryInv'
  BY <1>2, <1>3, <1>10 DEF MemoryInv
<1>14. FreshInv' /\ HeldInv'
  BY <1>2 DEF FreshInv, HeldInv
<1>15. HeldToday(o) => Noted(o)'
  <2> SUFFICES ASSUME HeldToday(o) PROVE Noted(o)'
    OBVIOUS
  <2>1. n = 1
    BY <1>4, <1>5 DEF HeldToday
  <2>2. registry[o].status = "CREATED"
    BY <1>1, <1>2, <1>3, <2>1 DEF ReplayInv
  <2>3. row[o] # NoRow => row[o].perm = 1
    BY <1>3, <1>4 DEF HeldToday, TradeInv
  <2>4. ~RowRaises(Memo(o), o, n)
    BY <1>6, <2>1, <2>3 DEF RowRaises, M
  <2>5. r2 = RowAfter(Memo(o), o, n, s)
    BY <1>7, <2>2, <2>4
  <2>6. s # "Cancelled"
    BY <1>18, <2>1 DEF HeldToday, u
  <2>7. row[o] # NoRow => row[o].day = day
    <3> SUFFICES ASSUME row[o] # NoRow PROVE row[o].day = day
      OBVIOUS
    <3>1. row[o].day \in Int /\ day \in Int
      BY <1>4 DEF Rows, OrderRow, Days
    <3>2. day <= row[o].day /\ row[o].day <= day
      BY <1>3 DEF HeldToday, TradeInv
    <3>3. QED
      BY <3>1, <3>2
  <2>8. r2.status # "Cancelled" /\ r2.day = day
    BY <1>11, <2>5, <2>6, <2>7
  <2>9. r2 # NoRow
    BY <1>3, <1>4, <1>5, <1>6, <1>18, <2>5, RowAfterIsRow
  <2>10. QED
    BY <1>2, <1>10, <2>8, <2>9 DEF Noted
<1>16. ReplayInv'
  <2>1. \A x \in todo' : x = <<x[1], x[2]>> /\ x[1] \in file /\ x[2] \in TradesToday(x[1])
    BY <1>1, <1>2 DEF ReplayInv
  <2>2. \A p \in Orders : TradesToday(p)' = TradesToday(p) /\ (HeldToday(p)' <=> HeldToday(p))
    BY <1>2 DEF TradesToday, HeldToday
  <2>3. file \subseteq Orders
    BY DEF TypeInv
  <2>4. ASSUME NEW p \in file, HeldToday(p)
        PROVE  IF <<p, 1>> \in todo' THEN registry'[p].status = "CREATED" ELSE Noted(p)'
    <3>1. CASE p = o
      <4>1. n = 1
        BY <1>4, <1>5, <2>4, <3>1 DEF HeldToday
      <4>2. <<p, 1>> \notin todo'
        BY <1>1, <1>3, <3>1, <4>1
      <4>3. QED
        BY <1>15, <2>4, <3>1, <4>2
    <3>2. CASE p # o
      <4>1. p \in Orders \ {o} /\ (<<p, 1>> \in todo' <=> <<p, 1>> \in todo)
        BY <1>1, <1>3, <2>3, <3>2
      <4>2. row'[p] = row[p] /\ registry'[p] = registry[p] /\ day' = day
        BY <1>2, <1>10, <4>1
      <4>3. QED
        BY <1>2, <2>4, <4>1, <4>2 DEF ReplayInv, Noted
    <3>3. QED
      BY <3>1, <3>2
  <2>5. \A p \in file : registry'[p] # NoTracker
    BY <1>2, <1>10, <2>3 DEF ReplayInv
  <2>6. QED
    BY <1>2, <2>1, <2>2, <2>3, <2>4, <2>5 DEF ReplayInv
<1>17. QED
  BY <1>9, <1>12, <1>13, <1>14, <1>16

\* What is staged and held today has a row that does not count.
LEMMA StageInv ==
  ASSUME Inv, StageRemaining
  PROVE  Inv'
<1> USE DEF Inv, StageRemaining, database, history
<1>1. TypeInv'
  BY DEF TypeInv, Remaining
<1>2. TradeInv'
  BY DEF TradeInv
<1>3. MemoryInv'
  BY DEF MemoryInv
<1>4. FreshInv'
  BY DEF FreshInv, MemoryInv
<1>5. ReplayInv'
  BY DEF ReplayInv
<1>6. HeldInv'
  <2> SUFFICES ASSUME NEW o \in Orders, HeldToday(o), o \notin restaged'
               PROVE  o \notin pending' /\ o \notin queued'
    BY DEF HeldInv, HeldToday
  <2>1. o \in file => Noted(o)
    BY DEF ReplayInv
  <2>2. Noted(o) => SentToday(o) \/ row[o].status \in Uncounted
    BY DEF Noted, SentToday, TypeInv, Rows, OrderRow, Status
  <2>3. o \notin Remaining
    BY <2>1, <2>2 DEF Remaining, Noted
  <2>4. QED
    BY <2>3 DEF MemoryInv
<1>7. QED
  BY <1>1, <1>2, <1>3, <1>4, <1>5, <1>6

LEMMA DispatchInv ==
  ASSUME Inv, DispatchRemaining
  PROVE  Inv'
<1> USE DEF Inv, DispatchRemaining, database, history
<1>1. TypeInv'
  BY DEF TypeInv, Remaining
<1>2. TradeInv'
  BY DEF TradeInv
<1>3. MemoryInv'
  BY DEF MemoryInv
<1>4. FreshInv'
  BY DEF FreshInv, MemoryInv
<1>5. ReplayInv'
  BY DEF ReplayInv
<1>6. HeldInv'
  BY DEF HeldInv, HeldToday
<1>7. QED
  BY <1>1, <1>2, <1>3, <1>4, <1>5, <1>6

(***************************************************************************)
(* The broker: what its three actions have in common.                      *)
(***************************************************************************)
LEMMA BrokerStepInv ==
  ASSUME Inv, MayHandle, BrokerUnchanged,
         NEW o \in Orders, NEW n \in TradesToday(o), NEW s \in Reported, NEW r2 \in Rows,
         NEW tr2 \in TrackerShape \cup {NoTracker},
         registry[o] # NoTracker => tr2 # NoTracker,
         registry[o] = NoTracker => tr2 = NoTracker,
         registry' = [registry EXCEPT ![o] = tr2],
         row' = [row EXCEPT ![o] = r2],
         r2 = row[o] \/ r2 = RowAfter(Memo(o), o, n, s),
         NEW u \in Trade, u.day = trades[o][n].day,
         trades' = [trades EXCEPT ![o][n] = u],
         trades[o][n].state = "cancelled" => u.state = "cancelled",
         u.state # "cancelled" => s # "Cancelled"
  PROVE  Inv'
<1> USE DEF Inv
<1>1. /\ UNCHANGED <<day, session, pc, recovery, file, todo, pending, queued, restaged>>
      /\ pc = "replay" => todo = {}
      /\ day \in Days /\ day \in Int
  BY DEF MayHandle, BrokerUnchanged, TypeInv, Days, history
<1>2. /\ trades[o] \in Seq(Trade) /\ n \in DOMAIN trades[o] /\ trades[o][n].day = day
      /\ 1 \in DOMAIN trades[o]
  BY DEF TypeInv, TradesToday
<1>3. /\ trades'[o] = [trades[o] EXCEPT ![n] = u]
      /\ \A p \in Orders \ {o} : trades'[p] = trades[p]
  BY DEF TypeInv
<1>4. /\ trades'[o] \in Seq(Trade) /\ Len(trades'[o]) = Len(trades[o])
      /\ DOMAIN trades'[o] = DOMAIN trades[o]
      /\ \A i \in DOMAIN trades[o] : trades'[o][i] = IF i = n THEN u ELSE trades[o][i]
  BY <1>2, <1>3
<1>5. /\ \A p \in Orders : Len(trades'[p]) = Len(trades[p]) /\ DOMAIN trades'[p] = DOMAIN trades[p]
      /\ \A p \in Orders : \A i \in DOMAIN trades[p] :
           /\ trades'[p][i].day = trades[p][i].day
           /\ trades[p][i].state = "cancelled" => trades'[p][i].state = "cancelled"
  BY <1>3, <1>4
<1>6. trades' \in [Orders -> Seq(Trade)]
  BY <1>4 DEF TypeInv
<1>7. TypeInv'
  BY <1>1, <1>6 DEF TypeInv
<1>8. /\ row'[o] = r2 /\ \A p \in Orders \ {o} : row'[p] = row[p]
      /\ \A p \in Orders : registry'[p] = NoTracker <=> registry[p] = NoTracker
  BY DEF TypeInv
<1>9. /\ row[o] = NoRow => RowAfter(Memo(o), o, n, s) = [perm |-> n, status |-> s, day |-> day]
      /\ row[o] # NoRow => /\ RowAfter(Memo(o), o, n, s).perm = n
                           /\ RowAfter(Memo(o), o, n, s).status = s
                           /\ RowAfter(Memo(o), o, n, s).day = row[o].day
  BY DEF RowAfter, Memo, TypeInv, Rows, OrderRow
<1>10. \A p \in Orders : \A i \in DOMAIN trades[p] : trades[p][i].day <= day
  BY DEF TradeInv
<1>11. TradeInv'
  <2>1. ASSUME NEW p \in Orders, row'[p] # NoRow
        PROVE  /\ row'[p].perm \in DOMAIN trades[p]
               /\ trades[p][1].day <= row'[p].day /\ row'[p].day <= day
    <3>1. CASE p # o \/ r2 = row[o]
      BY <1>8, <2>1, <3>1 DEF TradeInv
    <3>2. CASE p = o /\ r2 = RowAfter(Memo(o), o, n, s)
      <4>1. CASE row[o] = NoRow
        <5>1. trades[o][1].day <= day /\ day <= day
          BY <1>1, <1>2, <1>10
        <5>2. QED
          BY <1>2, <1>8, <1>9, <3>2, <4>1, <5>1
      <4>2. CASE row[o] # NoRow
        BY <1>2, <1>8, <1>9, <3>2, <4>2 DEF TradeInv
      <4>3. QED
        BY <4>1, <4>2
    <3>3. QED
      BY <3>1, <3>2
  <2>2. \A p \in Orders : row'[p] # NoRow => 1 \in DOMAIN trades[p]
    <3> SUFFICES ASSUME NEW p \in Orders, row'[p] # NoRow PROVE 1 \in DOMAIN trades[p]
      OBVIOUS
    <3>1. row'[p].perm \in DOMAIN trades[p] /\ trades[p] \in Seq(Trade)
      BY <2>1 DEF TypeInv
    <3>2. QED
      BY <3>1
  <2>3. QED
    BY <1>1, <1>5, <1>10, <2>1, <2>2 DEF TradeInv
<1>12. MemoryInv'
  BY <1>1, <1>8 DEF MemoryInv
<1>13. FreshInv'
  BY <1>1, <1>5 DEF FreshInv
<1>14. \A p \in Orders : HeldToday(p)' => HeldToday(p)
  <2> SUFFICES ASSUME NEW p \in Orders, HeldToday(p)' PROVE HeldToday(p)
    OBVIOUS
  <2>1. Len(trades[p]) = 1 /\ trades[p] \in Seq(Trade)
    BY <1>5 DEF HeldToday, TypeInv
  <2>2. 1 \in DOMAIN trades[p]
    BY <2>1
  <2>3. QED
    BY <1>1, <1>5, <2>1, <2>2 DEF HeldToday
<1>15. HeldInv'
  BY <1>1, <1>14 DEF HeldInv
<1>16. ReplayInv'
  <2> SUFFICES ASSUME pc = "replay", NEW p \in file
               PROVE  registry'[p] # NoTracker /\ (HeldToday(p)' => Noted(p)')
    BY <1>1 DEF ReplayInv
  <2>1. p \in Orders /\ registry'[p] # NoTracker
    BY <1>8 DEF ReplayInv, TypeInv
  <2>2. ASSUME HeldToday(p)'
        PROVE  Noted(p)'
    <3>1. Noted(p)
      BY <1>1, <1>14, <2>1, <2>2 DEF ReplayInv
    <3>2. CASE p # o \/ r2 = row[o]
      <4>1. row'[p] = row[p]
        BY <1>8, <2>1, <3>2
      <4>2. QED
        BY <1>1, <3>1, <4>1 DEF Noted
    <3>3. CASE p = o /\ r2 = RowAfter(Memo(o), o, n, s)
      <4>1. n = 1 /\ u.state # "cancelled"
        BY <1>2, <1>4, <2>2, <3>3 DEF HeldToday
      <4>2. s # "Cancelled"
        BY <4>1
      <4>3. row[o] # NoRow /\ row[o].day = day
        BY <3>1, <3>3 DEF Noted
      <4>4. r2.status = s /\ r2.day = day
        BY <1>9, <3>3, <4>3
      <4>5. r2 # NoRow
        <5>1. Memo(o) = M(registry[o], row[o], dbExecs, lots[o])
          BY DEF Memo, M
        <5>2. row[o] \in Rows /\ n \in Nat \ {0}
          BY <1>2 DEF TypeInv
        <5>3. QED
          BY <1>1, <3>3, <5>1, <5>2, RowAfterIsRow
      <4>6. QED
        BY <1>1, <1>8, <3>3, <4>2, <4>4, <4>5 DEF Noted
    <3>4. QED
      BY <3>2, <3>3
  <2>3. QED
    BY <2>1, <2>2
<1>17. QED
  BY <1>7, <1>11, <1>12, <1>13, <1>15, <1>16

\* What a trade of today is.
LEMMA TradeOfToday ==
  ASSUME TypeInv, NEW o \in Orders, NEW n \in TradesToday(o)
  PROVE  /\ n \in Nat \ {0} /\ n \in DOMAIN trades[o]
         /\ trades[o] \in Seq(Trade) /\ trades[o][n] \in Trade
         /\ day \in Days /\ row[o] \in Rows
         /\ registry[o] \in TrackerShape \cup {NoTracker}
<1>1. trades[o] \in Seq(Trade) /\ n \in DOMAIN trades[o]
  BY DEF TypeInv, TradesToday
<1>2. n \in Nat \ {0} /\ trades[o][n] \in Trade
  BY <1>1
<1>3. QED
  BY <1>1, <1>2 DEF TypeInv

\* What a status handler leaves, for an order the process knows.
LEMMA OnStatus ==
  ASSUME TypeInv, NEW o \in Orders, NEW n \in TradesToday(o), NEW s \in Reported,
         registry[o] # NoTracker, Becomes(o, OnOrderStatus(Memo(o), o, n, s))
  PROVE  \E tr2 \in TrackerShape, r2 \in Rows :
           /\ registry' = [registry EXCEPT ![o] = tr2]
           /\ row' = [row EXCEPT ![o] = r2]
           /\ r2 = row[o] \/ r2 = RowAfter(Memo(o), o, n, s)
           /\ tr2 = registry[o] \/ tr2 = [registry[o] EXCEPT !.status = StatusAfter(registry[o], s)]
           /\ dbExecs' = dbExecs /\ lots' = [lots EXCEPT ![o] = lots[o]]
<1> DEFINE tr == registry[o]
           r == row[o]
           e == dbExecs
           l == lots[o]
<1>1. /\ tr \in TrackerShape /\ r \in Rows /\ n \in Nat \ {0} /\ day \in Days
      /\ Memo(o) = M(tr, r, e, l)
  BY TradeOfToday DEF Memo, M
<1> HIDE DEF tr, r, e, l
<1>2. PICK tr2 \in TrackerShape, r2 \in Rows :
        /\ OnOrderStatus(M(tr, r, e, l), o, n, s) = M(tr2, r2, e, l)
        /\ r2 = r \/ r2 = RowAfter(M(tr, r, e, l), o, n, s)
        /\ tr2 = tr \/ tr2 = [tr EXCEPT !.status = StatusAfter(tr, s)]
  BY <1>1, StatusResult
<1>3. /\ registry' = [registry EXCEPT ![o] = tr2] /\ row' = [row EXCEPT ![o] = r2]
      /\ dbExecs' = e /\ lots' = [lots EXCEPT ![o] = l]
  <2>1. Becomes(o, M(tr2, r2, e, l))
    BY <1>1, <1>2
  <2>2. /\ M(tr2, r2, e, l).tracker = tr2 /\ M(tr2, r2, e, l).row = r2
        /\ M(tr2, r2, e, l).execs = e /\ M(tr2, r2, e, l).lots = l
    BY DEF M
  <2>3. QED
    BY <2>1, <2>2 DEF Becomes
<1>4. QED
  BY <1>1, <1>2, <1>3 DEF r, tr, e, l

LEMMA ReportInv ==
  ASSUME Inv, NEW o \in Orders, NEW n \in DOMAIN trades[o], Report(o, n)
  PROVE  Inv'
<1> DEFINE u == trades[o][n]
<1>1. n \in TradesToday(o) /\ registry[o] # NoTracker /\ MayHandle /\ BrokerUnchanged /\ TypeInv
  BY DEF Report, Inv
<1>2. u \in Trade /\ trades[o] \in Seq(Trade) /\ trades \in [Orders -> Seq(Trade)]
  BY <1>1, TradeOfToday DEF TypeInv
<1>5. PICK s \in BrokerStatuses(u) : Becomes(o, OnOrderStatus(Memo(o), o, n, s))
  BY DEF Report
<1>3. s \in Reported /\ (u.state # "cancelled" => s # "Cancelled")
  BY <1>2 DEF Trade, BrokerStatuses, Reported, Status, Uncounted
<1>4. trades' = [trades EXCEPT ![o][n] = u]
  BY <1>1, <1>2 DEF Report
<1> HIDE DEF u
<1>6. PICK tr2 \in TrackerShape, r2 \in Rows :
        /\ registry' = [registry EXCEPT ![o] = tr2]
        /\ row' = [row EXCEPT ![o] = r2]
        /\ r2 = row[o] \/ r2 = RowAfter(Memo(o), o, n, s)
  BY <1>1, <1>3, <1>5, OnStatus
<1>7. tr2 # NoTracker /\ u.day = trades[o][n].day
      /\ (trades[o][n].state = "cancelled" => u.state = "cancelled")
  BY TrackerNotMissing DEF u
<1>8. QED
  BY <1>1, <1>2, <1>3, <1>4, <1>6, <1>7, BrokerStepInv

LEMMA CancelInv ==
  ASSUME Inv, NEW o \in Orders, NEW n \in DOMAIN trades[o], Cancel(o, n)
  PROVE  Inv'
<1> DEFINE u == [trades[o][n] EXCEPT !.state = "cancelled"]
<1>1. n \in TradesToday(o) /\ MayHandle /\ BrokerUnchanged /\ TypeInv
  BY DEF Cancel, Inv
<1>2. trades[o][n] \in Trade /\ registry[o] \in TrackerShape \cup {NoTracker} /\ row[o] \in Rows
  BY <1>1, TradeOfToday
<1>3. u \in Trade /\ u.day = trades[o][n].day /\ u.state = "cancelled"
  BY <1>2 DEF Trade
<1>4. trades' = [trades EXCEPT ![o][n] = u]
  BY DEF Cancel
<1>5. "Cancelled" \in Reported
  BY DEF Reported, Status, Uncounted
<1> HIDE DEF u
<1>6. CASE registry[o] # NoTracker
  <2>1. Becomes(o, OnOrderStatus(Memo(o), o, n, "Cancelled"))
    BY <1>6 DEF Cancel, Delivered
  <2>2. PICK tr2 \in TrackerShape, r2 \in Rows :
          /\ registry' = [registry EXCEPT ![o] = tr2]
          /\ row' = [row EXCEPT ![o] = r2]
          /\ r2 = row[o] \/ r2 = RowAfter(Memo(o), o, n, "Cancelled")
    BY <1>1, <1>5, <1>6, <2>1, OnStatus
  <2>3. tr2 # NoTracker
    BY TrackerNotMissing
  <2>4. QED
    BY <1>1, <1>3, <1>4, <1>5, <1>6, <2>2, <2>3, BrokerStepInv
<1>7. CASE registry[o] = NoTracker
  <2>1. registry' = [registry EXCEPT ![o] = registry[o]] /\ row' = [row EXCEPT ![o] = row[o]]
    BY <1>1, <1>7 DEF Cancel, Delivered, database, history, TypeInv
  <2>2. QED
    BY <1>1, <1>2, <1>3, <1>4, <1>5, <1>7, <2>1, BrokerStepInv
<1>8. QED
  BY <1>6, <1>7

LEMMA ExecuteInv ==
  ASSUME Inv, NEW o \in Orders, NEW n \in DOMAIN trades[o], Execute(o, n)
  PROVE  Inv'
<1> DEFINE k == trades[o][n].executed + 1
           st == IF k = Quantity[o] THEN "filled" ELSE "working"
           u == [trades[o][n] EXCEPT !.executed = k, !.state = st]
<1>1. n \in TradesToday(o) /\ MayHandle /\ BrokerUnchanged /\ TypeInv
  BY DEF Execute, Inv
<1>2. /\ trades[o][n] \in Trade /\ trades[o][n].state = "working"
      /\ registry[o] \in TrackerShape \cup {NoTracker} /\ row[o] \in Rows /\ n \in Nat \ {0}
  BY <1>1, TradeOfToday DEF Execute
<1>3. k \in Nat \ {0}
  BY <1>2 DEF Trade
<1>4. u \in Trade /\ u.day = trades[o][n].day
  <2> DEFINE w == [trades[o][n] EXCEPT !.executed = k]
  <2>1. st \in {"working", "filled", "cancelled"}
    BY <1>2 DEF Trade
  <2> HIDE DEF k, st
  <2>2. w \in Trade /\ w.day = trades[o][n].day
    BY <1>2, <1>3 DEF Trade
  <2>3. [w EXCEPT !.state = st] \in Trade /\ [w EXCEPT !.state = st].day = w.day
    BY <2>1, <2>2 DEF Trade
  <2>4. QED
    BY <2>2, <2>3
<1>5. /\ trades' = [trades EXCEPT ![o][n] = u]
      /\ Delivered(o, OnFill(Memo(o), o, n, k))
  BY DEF Execute
<1>6. "Submitted" \in Reported /\ "Submitted" # "Cancelled"
  BY DEF Reported, Status, Uncounted
<1> HIDE DEF u, k, st
<1>7. \E tr2 \in TrackerShape \cup {NoTracker} :
        /\ registry' = [registry EXCEPT ![o] = tr2]
        /\ row' = [row EXCEPT ![o] = row[o]]
        /\ tr2 = NoTracker <=> registry[o] = NoTracker
  <2>1. CASE registry[o] # NoTracker
    <3> DEFINE tr == registry[o]
               r == row[o]
               e == dbExecs
               l == lots[o]
    <3>1. tr \in TrackerShape /\ r \in Rows /\ Memo(o) = M(tr, r, e, l)
      BY <1>2, <2>1 DEF Memo, M
    <3> HIDE DEF tr, r, e, l
    <3>2. PICK tr2 \in TrackerShape : \E e2, l2 :
            /\ OnFill(M(tr, r, e, l), o, n, k) = M(tr2, r, e2, l2)
            /\ \E es \in SUBSET {<<o, n, k>>} : Adds(es, e, l, e2, l2)
            /\ Fillable(tr) /\ r # NoRow /\ r.perm = n
                 => tr2 = TrackerFilled(tr, 1) /\ <<o, n, k>> \in e2
      BY <1>2, <1>3, <3>1, FillResult
    <3>3. registry' = [registry EXCEPT ![o] = tr2] /\ row' = [row EXCEPT ![o] = r]
      <4>1. PICK e2, l2 : OnFill(M(tr, r, e, l), o, n, k) = M(tr2, r, e2, l2)
        BY <3>2
      <4>2. Becomes(o, M(tr2, r, e2, l2))
        BY <1>5, <2>1, <3>1, <4>1 DEF Delivered
      <4>3. M(tr2, r, e2, l2).tracker = tr2 /\ M(tr2, r, e2, l2).row = r
        BY DEF M
      <4>4. QED
        BY <4>2, <4>3 DEF Becomes
    <3>4. tr2 # NoTracker
      BY TrackerNotMissing
    <3>5. QED
      BY <2>1, <3>3, <3>4 DEF r
  <2>2. CASE registry[o] = NoTracker
    BY <1>1, <1>2, <1>5, <2>2 DEF Delivered, database, history, TypeInv
  <2>3. QED
    BY <2>1, <2>2
<1>8. PICK tr2 \in TrackerShape \cup {NoTracker} :
        /\ registry' = [registry EXCEPT ![o] = tr2]
        /\ row' = [row EXCEPT ![o] = row[o]]
        /\ tr2 = NoTracker <=> registry[o] = NoTracker
  BY <1>7
<1>9. trades[o][n].state # "cancelled"
  BY <1>2
<1>10. QED
  BY <1>1, <1>2, <1>4, <1>5, <1>6, <1>8, <1>9, BrokerStepInv

(***************************************************************************)
(* The invariant, and the theorem.                                         *)
(***************************************************************************)
LEMMA NextInv == Inv /\ [Next]_vars => Inv'
<1> SUFFICES ASSUME Inv, [Next]_vars PROVE Inv'
  OBVIOUS
<1>1. CASE Process
  BY <1>1, StartInv, LoadInv, SaveInv, RebuildInv, ReplayDailyFillsInv, StageInv, DispatchInv
     DEF Process
<1>2. CASE Dies
  BY <1>2, ForgetInv DEF Dies, database, history
<1>3. CASE Completes
  BY <1>3, ForgetInv DEF Completes, database, history
<1>4. CASE NewDay
  BY <1>4, NewDayInv
<1>5. ASSUME NEW o \in Orders, Authorize(o) \/ OrderSink(o)
      PROVE  Inv'
  BY <1>5, AuthorizeInv, OrderSinkInv
<1>6. ASSUME NEW o \in Orders, Broker(o)
      PROVE  Inv'
  BY <1>6, ReportInv, ExecuteInv, CancelInv DEF Broker
<1>7. CASE UNCHANGED vars
  <2>1. UNCHANGED <<day, session, pc, recovery, todo, file, pending, queued, registry, trades, row,
                 restaged>>
    BY <1>7 DEF vars, memory, database, history
  <2>2. QED
    BY <2>1 DEF Inv, TypeInv, TradeInv, MemoryInv, FreshInv, ReplayInv, HeldInv, HeldToday,
                Noted, TradesToday
<1>8. QED
  BY <1>1, <1>2, <1>3, <1>4, <1>5, <1>6, <1>7 DEF Next

\* An order is added to a trade of today that the broker has not cancelled by no action:
\* only the sink sends, and HeldInv keeps such an order out of the queue unless it is in
\* restaged.
LEMMA SecondSending ==
  ASSUME Inv, [Next]_vars, NEW o \in Orders, Len(trades[o]) = 1, Len(trades'[o]) = 2
  PROVE  trades[o][1].state = "cancelled" \/ trades[o][1].day < day \/ o \in restaged
<1>1. trades \in [Orders -> Seq(Trade)] /\ day \in Int
  BY DEF Inv, TypeInv, Days
<1>2. 1 \in DOMAIN trades[o] /\ trades[o][1] \in Trade
  BY <1>1
<1>3. trades[o][1].day <= day /\ trades[o][1].day \in Int
  BY <1>2 DEF Inv, TradeInv, Trade, Days
<1>4. ASSUME NEW p \in Orders, Broker(p)
      PROVE  FALSE
  <2>1. PICK n \in DOMAIN trades[p] : Report(p, n) \/ Execute(p, n) \/ Cancel(p, n)
    BY <1>4 DEF Broker
  <2>2. PICK u : trades' = trades \/ trades' = [trades EXCEPT ![p][n] = u]
    BY <2>1 DEF Report, Execute, Cancel
  <2>3. Len([trades[p] EXCEPT ![n] = u]) = Len(trades[p])
    BY <1>1
  <2>4. Len(trades'[o]) = Len(trades[o])
    BY <1>1, <2>2, <2>3
  <2>5. QED
    BY <2>4
<1>5. CASE NewDay
  <2>1. trades'[o] = [n \in DOMAIN trades[o] |-> Expired(trades[o][n])]
    BY <1>5 DEF NewDay
  <2>2. DOMAIN trades'[o] = 1 .. 1
    BY <1>1, <2>1
  <2>3. trades'[o] \in Seq(Trade)
    BY <1>1, <2>1, ExpiredTrades
  <2>4. DOMAIN trades'[o] = 1 .. 2
    BY <2>3
  <2>5. 2 \in 1 .. 2 /\ 2 \notin 1 .. 1
    OBVIOUS
  <2>6. QED
    BY <2>2, <2>4, <2>5
<1>6. ASSUME NEW p \in Orders, OrderSink(p)
      PROVE  trades[o][1].state = "cancelled" \/ trades[o][1].day < day \/ o \in restaged
  <2>1. p = o
    <3>1. trades' = trades \/ trades' = [trades EXCEPT ![p] = Append(trades[p], NewTrade)]
      BY <1>6 DEF OrderSink
    <3>2. p # o => trades'[o] = trades[o]
      BY <1>1, <3>1
    <3>3. QED
      BY <3>2
  <2>2. ~HeldToday(o) \/ o \in restaged
    BY <1>6, <2>1 DEF OrderSink, Inv, HeldInv
  <2>3. QED
    BY <1>1, <1>3, <2>2 DEF HeldToday
<1>7. trades' # trades
  OBVIOUS
<1>8. QED
  BY <1>4, <1>5, <1>6, <1>7
     DEF Next, Process, Start, LoadPortfolioOrders, SaveStagedOrders, RebuildTrackers,
         ReplayDailyFills, StageRemaining, DispatchRemaining, Dies, Completes, Authorize, vars

\* In every behaviour, with any number of crashes and days, the second sending of an order
\* follows a first one that the broker ended with shares left, or one of an earlier day, or
\* a staging of the order with a row that is not counted or between two stagings.
THEOREM ResendsHaveReasons == SafeSpec => ResentWithReason
<1> DEFINE Good == \A o \in Orders :
                     Len(trades[o]) = 1 /\ Len(trades'[o]) = 2
                       => \/ trades[o][1].state = "cancelled" \/ trades[o][1].day < day
                          \/ o \in restaged
<1>1. Init => Inv
  BY InitInv
<1>2. Inv /\ [Next]_vars => Inv'
  BY NextInv
<1>3. Inv /\ [Next]_vars => Good
  BY SecondSending
<1>4. Inv /\ Inv' /\ [Next]_vars => [Good]_vars
  BY <1>3
<1> HIDE DEF Good
<1>5. SafeSpec => [][Good]_vars
  BY <1>1, <1>2, <1>4, PTL DEF SafeSpec
<1>6. QED
  BY <1>5 DEF ResentWithReason, Good

(***************************************************************************)
(* The executions.                                                         *)
(*                                                                         *)
(* LotsInv is what keeps a share from entering the lots twice: the lots of *)
(* an order count its rows in trading.executions, and every row is an      *)
(* execution of one of the order's trades.  ReplayedInv follows the replay *)
(* trade by trade: an order the broker works or has filled has a fresh     *)
(* tracker before its trade is visited, and afterwards one that agrees     *)
(* with the trade and goes on agreeing while live reports come in.         *)
(***************************************************************************)
TradeSize ==
  \A o \in Orders : \A n \in DOMAIN trades[o] :
    /\ trades[o][n].executed <= Quantity[o]
    /\ trades[o][n].state = "working" => trades[o][n].executed < Quantity[o]

ExecsOf(o) == UNION {Fills(o, n, trades[o][n]) : n \in DOMAIN trades[o]}

StoredOf(o) == {e \in dbExecs : e[1] = o}

LotsInv ==
  /\ lots \in [Orders -> Nat]
  /\ dbExecs \subseteq UNION {ExecsOf(o) : o \in Orders}
  /\ \A o \in Orders : lots[o] = Cardinality(StoredOf(o))

\* Trade 1 of the order has been replayed: tracker and database have all of it.
Caught(o) ==
  /\ registry[o].left = Quantity[o] - trades[o][1].executed
  /\ registry[o].status \in {"SUBMITTED", "PARTIALLY_FILLED", "FILLED"}
  /\ registry[o].status = "FILLED" <=> registry[o].left = 0
  /\ \A k \in 1 .. trades[o][1].executed : <<o, 1, k>> \in dbExecs

ReplayedInv ==
  pc = "replay" => \A o \in file \ skipped : HeldToday(o) =>
    IF <<o, 1>> \in todo THEN registry[o] = NewTracker(o) ELSE Caught(o)

ExecInv == TradeSize /\ LotsInv /\ ReplayedInv

LEMMA ExecsFacts ==
  ASSUME TypeInv, NEW o \in Orders
  PROVE  /\ IsFiniteSet(ExecsOf(o)) /\ Executed(o) \in Nat
         /\ Cardinality(ExecsOf(o)) <= Executed(o)
         /\ \A e \in ExecsOf(o) : /\ e[1] = o /\ e[2] \in DOMAIN trades[o]
                                  /\ e \in Orders \X (Nat \ {0}) \X (Nat \ {0})
<1> DEFINE S == DOMAIN trades[o]
           f == [n \in S |-> trades[o][n].executed]
           P == [n \in S |-> {<<o, n, k>> : k \in 1 .. f[n]}]
<1>1. trades[o] \in Seq(Trade) /\ S = 1 .. Len(trades[o]) /\ Len(trades[o]) \in Nat
  BY DEF TypeInv
<1>2. \A n \in S : f[n] \in Nat
  <2> TAKE n \in S
  <2>1. trades[o][n] \in Trade
    BY <1>1
  <2>2. trades[o][n].executed \in Nat
    BY <2>1 DEF Trade
  <2>3. QED
    BY <2>2
<1>3. IsFiniteSet(S)
  <2>1. IsFiniteSet(1 .. Len(trades[o]))
    BY <1>1, 1 \in Int, Len(trades[o]) \in Int, FS_Interval
  <2>2. QED
    BY <1>1, <2>1
<1>4. ASSUME NEW n \in S
      PROVE  IsFiniteSet(P[n]) /\ Cardinality(P[n]) <= f[n]
  <2> DEFINE c == f[n]
             T == {<<o, n, k>> : k \in 1 .. c}
             g == [k \in 1 .. c |-> <<o, n, k>>]
  <2>1. c \in Nat
    BY <1>2
  <2>3. g \in Surjection(1 .. c, T)
    BY DEF Surjection
  <2> HIDE DEF c, T, g
  <2>2. IsFiniteSet(1 .. c) /\ Cardinality(1 .. c) = c
    <3>1. 1 \in Int /\ c \in Int
      BY <2>1
    <3>2. /\ IsFiniteSet(1 .. c)
          /\ Cardinality(1 .. c) = IF 1 > c THEN 0 ELSE c - 1 + 1
      BY <3>1, FS_Interval
    <3>3. (IF 1 > c THEN 0 ELSE c - 1 + 1) = c
      BY <2>1
    <3>4. QED
      BY <3>2, <3>3
  <2>4. IsFiniteSet(T) /\ Cardinality(T) <= c
    BY <2>2, <2>3, FS_Surjection
  <2>5. QED
    BY <2>4 DEF T, c
<1>5. ExecsOf(o) = UNION {P[n] : n \in S}
  <2>1. \A n \in S : P[n] = Fills(o, n, trades[o][n])
    BY DEF Fills
  <2> HIDE DEF P
  <2>2. QED
    BY <2>1 DEF ExecsOf
<1>6. Executed(o) = SumFunctionOnSet(f, S)
  BY DEF Executed, SumFunction
<1>7. \A e \in ExecsOf(o) : e[1] = o /\ e[2] \in S /\ e \in Orders \X (Nat \ {0}) \X (Nat \ {0})
  <2> SUFFICES ASSUME NEW n \in S, NEW k \in 1 .. trades[o][n].executed
               PROVE  LET e == <<o, n, k>>
                      IN  e[1] = o /\ e[2] \in S /\ e \in Orders \X (Nat \ {0}) \X (Nat \ {0})
    BY DEF ExecsOf, Fills
  <2>1. n \in Nat \ {0} /\ k \in Nat \ {0}
    BY <1>1, <1>2
  <2>2. QED
    BY <2>1
<1> HIDE DEF S, f, P
<1>8. /\ IsFiniteSet(UNION {P[n] : n \in S})
      /\ Cardinality(UNION {P[n] : n \in S}) <= SumFunctionOnSet(f, S)
  BY <1>2, <1>3, <1>4, UnionBounded
<1>9. SumFunctionOnSet(f, S) \in Nat
  BY <1>2, <1>3, SumNat
<1>10. QED
  BY <1>5, <1>6, <1>7, <1>8, <1>9 DEF S

\* Trades are added, and execute more; nothing is taken back.
Grows ==
  \A o \in Orders : /\ DOMAIN trades[o] \subseteq DOMAIN trades'[o]
                    /\ \A n \in DOMAIN trades[o] :
                         trades[o][n].executed <= trades'[o][n].executed

LEMMA GrowsKeeps ==
  ASSUME TypeInv, TypeInv', Grows, NEW o \in Orders
  PROVE  ExecsOf(o) \subseteq ExecsOf(o)'
<1> SUFFICES ASSUME NEW n \in DOMAIN trades[o], NEW k \in 1 .. trades[o][n].executed
             PROVE  n \in DOMAIN trades'[o] /\ k \in 1 .. trades'[o][n].executed
  BY DEF ExecsOf, Fills
<1>1. trades[o] \in Seq(Trade) /\ trades'[o] \in Seq(Trade)
  BY DEF TypeInv
<1>2. n \in DOMAIN trades'[o] /\ trades[o][n].executed <= trades'[o][n].executed
  BY DEF Grows
<1>3. trades[o][n] \in Trade /\ trades'[o][n] \in Trade
  BY <1>1, <1>2
<1>4. trades[o][n].executed \in Nat /\ trades'[o][n].executed \in Nat
  BY <1>3 DEF Trade
<1>5. QED
  BY <1>2, <1>4

LEMMA LotsKept ==
  ASSUME TypeInv, TypeInv', LotsInv, Grows, UNCHANGED <<dbExecs, lots>>
  PROVE  LotsInv'
<1>1. \A o \in Orders : ExecsOf(o) \subseteq ExecsOf(o)'
  BY GrowsKeeps
<1>2. \A o \in Orders : StoredOf(o)' = StoredOf(o)
  BY DEF StoredOf
<1>3. QED
  BY <1>1, <1>2 DEF LotsInv

LEMMA LotsStored ==
  ASSUME TypeInv, TypeInv', LotsInv, Grows,
         NEW o \in Orders, NEW es \in SUBSET (ExecsOf(o)'),
         dbExecs' = dbExecs \cup es,
         lots' = [lots EXCEPT ![o] = lots[o] + Cardinality(es \ dbExecs)]
  PROVE  LotsInv'
<1>1. \A p \in Orders : ExecsOf(p) \subseteq ExecsOf(p)'
  BY GrowsKeeps
<1>2. dbExecs' \subseteq UNION {ExecsOf(p)' : p \in Orders}
  BY <1>1 DEF LotsInv
<1> DEFINE new == es \ dbExecs
<1>3. \A e \in es : e[1] = o
  <2>1. \A e \in ExecsOf(o)' : e[1] = o
    BY DEF ExecsOf, Fills
  <2>2. QED
    BY <2>1
<1>4. StoredOf(o)' = StoredOf(o) \cup new /\ StoredOf(o) \cap new = {}
  BY <1>3 DEF StoredOf
<1>5. \A p \in Orders \ {o} : StoredOf(p)' = StoredOf(p)
  BY <1>3 DEF StoredOf
<1>6. IsFiniteSet(StoredOf(o)) /\ IsFiniteSet(new)
  <2>1. IsFiniteSet(ExecsOf(o)) /\ IsFiniteSet(ExecsOf(o)')
    <3>1. TypeInv => IsFiniteSet(ExecsOf(o))
      BY ExecsFacts
    <3>2. (TypeInv => IsFiniteSet(ExecsOf(o)))'
      BY ExecsFacts, PTL
    <3>3. QED
      BY <3>1, <3>2
  <2>2. StoredOf(o) \subseteq ExecsOf(o)
    BY ExecsFacts DEF StoredOf, LotsInv
  <2>3. new \subseteq ExecsOf(o)'
    OBVIOUS
  <2>4. QED
    BY <2>1, <2>2, <2>3, FS_Subset
<1> HIDE DEF new
<1>7. Cardinality(StoredOf(o)') = Cardinality(StoredOf(o)) + Cardinality(new)
  <2>1. Cardinality(StoredOf(o) \cup new)
          = Cardinality(StoredOf(o)) + Cardinality(new) - Cardinality(StoredOf(o) \cap new)
    BY <1>6, FS_Union
  <2>2. Cardinality(StoredOf(o) \cap new) = 0
    BY <1>4, FS_EmptySet
  <2>3. Cardinality(StoredOf(o)) \in Nat /\ Cardinality(new) \in Nat
    BY <1>6, FS_CardinalityType
  <2>4. QED
    BY <1>4, <2>1, <2>2, <2>3
<1>8. lots \in [Orders -> Nat] /\ Cardinality(new) \in Nat
  BY <1>6, FS_CardinalityType DEF LotsInv
<1>9. lots' \in [Orders -> Nat] /\ lots'[o] = lots[o] + Cardinality(new)
      /\ \A p \in Orders \ {o} : lots'[p] = lots[p]
  BY <1>8 DEF new
<1>10. \A p \in Orders : lots'[p] = Cardinality(StoredOf(p)')
  BY <1>5, <1>7, <1>9 DEF LotsInv
<1>11. QED
  BY <1>2, <1>9, <1>10 DEF LotsInv

\* What a fill handler adds, whether or not the process knows the order.
LEMMA FillEffect ==
  ASSUME TypeInv, lots \in [Orders -> Nat], NEW o \in Orders, NEW n \in TradesToday(o),
         NEW k \in Nat \ {0}, Delivered(o, OnFill(Memo(o), o, n, k))
  PROVE  /\ \E es \in SUBSET {<<o, n, k>>} :
              /\ dbExecs' = dbExecs \cup es
              /\ lots' = [lots EXCEPT ![o] = lots[o] + Cardinality(es \ dbExecs)]
         /\ \A p \in Orders \ {o} : registry'[p] = registry[p]
         /\ registry[o] # NoTracker /\ Fillable(registry[o])
            /\ row[o] # NoRow /\ row[o].perm = n
              => registry'[o] = TrackerFilled(registry[o], 1) /\ <<o, n, k>> \in dbExecs'
<1>1. /\ row[o] \in Rows /\ n \in Nat \ {0} /\ lots[o] \in Nat
      /\ registry \in [Orders -> TrackerShape \cup {NoTracker}]
      /\ registry[o] \in TrackerShape \cup {NoTracker}
  BY TradeOfToday DEF TypeInv
<1>2. CASE registry[o] = NoTracker
  <2>1. dbExecs' = dbExecs /\ lots' = lots /\ registry' = registry
    BY <1>2 DEF Delivered, database, history
  <2>2. lots' = [lots EXCEPT ![o] = lots[o] + 0]
    BY <1>1, <2>1
  <2>3. {} \in SUBSET {<<o, n, k>>} /\ dbExecs' = dbExecs \cup {} /\ {} \ dbExecs = {}
    BY <2>1
  <2>4. Cardinality({}) = 0
    BY FS_EmptySet
  <2>5. QED
    BY <1>2, <2>1, <2>2, <2>3, <2>4
<1>3. CASE registry[o] # NoTracker
  <2> DEFINE tr == registry[o]
             r == row[o]
             e == dbExecs
             l == lots[o]
  <2>1. tr \in TrackerShape /\ r \in Rows /\ l \in Nat /\ Memo(o) = M(tr, r, e, l)
    BY <1>1, <1>3 DEF Memo, M
  <2> HIDE DEF tr, r, e, l
  <2>2. PICK tr2 \in TrackerShape : \E e2, l2 :
          /\ OnFill(M(tr, r, e, l), o, n, k) = M(tr2, r, e2, l2)
          /\ \E es \in SUBSET {<<o, n, k>>} : Adds(es, e, l, e2, l2)
          /\ Fillable(tr) /\ r # NoRow /\ r.perm = n
               => tr2 = TrackerFilled(tr, 1) /\ <<o, n, k>> \in e2
    BY <1>1, <2>1, FillResult
  <2>3. PICK e2, l2 :
          /\ OnFill(M(tr, r, e, l), o, n, k) = M(tr2, r, e2, l2)
          /\ \E es \in SUBSET {<<o, n, k>>} : Adds(es, e, l, e2, l2)
          /\ Fillable(tr) /\ r # NoRow /\ r.perm = n
               => tr2 = TrackerFilled(tr, 1) /\ <<o, n, k>> \in e2
    BY <2>2
  <2>4. PICK es \in SUBSET {<<o, n, k>>} : Adds(es, e, l, e2, l2)
    BY <2>3
  <2>5. e2 = e \cup es /\ l2 = l + Cardinality(es \ e)
    BY <2>1, <2>4 DEF Adds
  <2>6. Becomes(o, M(tr2, r, e2, l2))
    BY <1>3, <2>1, <2>3 DEF Delivered
  <2>7. /\ M(tr2, r, e2, l2).tracker = tr2 /\ M(tr2, r, e2, l2).execs = e2
        /\ M(tr2, r, e2, l2).lots = l2
    BY DEF M
  <2>8. /\ registry' = [registry EXCEPT ![o] = tr2]
        /\ dbExecs' = e2 /\ lots' = [lots EXCEPT ![o] = l2]
    BY <2>6, <2>7 DEF Becomes
  <2>9. registry'[o] = tr2 /\ \A p \in Orders \ {o} : registry'[p] = registry[p]
    BY <1>1, <2>8
  <2>10. /\ dbExecs' = dbExecs \cup es
         /\ lots' = [lots EXCEPT ![o] = lots[o] + Cardinality(es \ dbExecs)]
    BY <2>5, <2>8 DEF e, l
  <2>11. Fillable(registry[o]) /\ row[o] # NoRow /\ row[o].perm = n
           => registry'[o] = TrackerFilled(registry[o], 1) /\ <<o, n, k>> \in dbExecs'
    BY <2>3, <2>8, <2>9 DEF tr, r
  <2>12. QED
    BY <2>9, <2>10, <2>11
<1>4. QED
  BY <1>2, <1>3

\* What the replay of a trade adds.
LEMMA ReplayEffect ==
  ASSUME TypeInv, lots \in [Orders -> Nat], NEW o \in Orders, NEW n \in TradesToday(o),
         registry[o] # NoTracker, NEW s \in Reported,
         Becomes(o, ReplayTrade(Memo(o), o, n, trades[o][n], s))
  PROVE  /\ \E es \in SUBSET Fills(o, n, trades[o][n]) :
              /\ dbExecs' = dbExecs \cup es
              /\ lots' = [lots EXCEPT ![o] = lots[o] + Cardinality(es \ dbExecs)]
         /\ \A p \in Orders \ {o} : registry'[p] = registry[p]
         /\ registry[o].status = "CREATED" /\ ~RowRaises(Memo(o), o, n)
            /\ s \notin {"Pending", "Cancelled"} /\ trades[o][n].executed <= registry[o].left
              => /\ registry'[o].left = registry[o].left - trades[o][n].executed
                 /\ registry'[o].status \in {"SUBMITTED", "PARTIALLY_FILLED", "FILLED"}
                 /\ registry'[o].status = "FILLED" <=> registry'[o].left = 0
                 /\ Fills(o, n, trades[o][n]) \subseteq dbExecs'
<1> DEFINE tr == registry[o]
           r == row[o]
           e == dbExecs
           l == lots[o]
           t == trades[o][n]
           all == Fills(o, n, t)
<1>1. /\ tr \in TrackerShape /\ r \in Rows /\ l \in Nat /\ t \in Trade /\ day \in Days
      /\ n \in Nat \ {0} /\ Memo(o) = M(tr, r, e, l)
      /\ registry \in [Orders -> TrackerShape \cup {NoTracker}]
  BY TradeOfToday DEF Memo, M, TypeInv
<1> HIDE DEF tr, r, e, l, t, all
<1>2. PICK tr2 \in TrackerShape, r2 \in Rows : \E e2, l2 :
        /\ ReplayTrade(M(tr, r, e, l), o, n, t, s) = M(tr2, r2, e2, l2)
        /\ \E es \in SUBSET all : Adds(es, e, l, e2, l2)
        /\ /\ tr.status = "CREATED" /\ ~RowRaises(M(tr, r, e, l), o, n)
           /\ s \notin {"Pending", "Cancelled"} /\ t.executed <= tr.left
           => /\ tr2.left = tr.left - t.executed
              /\ tr2.status \in {"SUBMITTED", "PARTIALLY_FILLED", "FILLED"}
              /\ tr2.status = "FILLED" <=> tr2.left = 0
              /\ all \subseteq e2
  <2>1. \E tr2 \in TrackerShape, r2 \in Rows : \E e2, l2 :
          /\ ReplayTrade(M(tr, r, e, l), o, n, t, s) = M(tr2, r2, e2, l2)
          /\ r2 = r \/ r2 = RowAfter(M(tr, r, e, l), o, n, s)
          /\ tr.status = "CREATED" /\ ~RowRaises(M(tr, r, e, l), o, n)
               => r2 = RowAfter(M(tr, r, e, l), o, n, s)
          /\ \E es \in SUBSET Fills(o, n, t) : Adds(es, e, l, e2, l2)
          /\ /\ tr.status = "CREATED" /\ ~RowRaises(M(tr, r, e, l), o, n)
             /\ s \notin {"Pending", "Cancelled"} /\ t.executed <= tr.left
             => /\ tr2.left = tr.left - t.executed
                /\ tr2.status \in {"SUBMITTED", "PARTIALLY_FILLED", "FILLED"}
                /\ tr2.status = "FILLED" <=> tr2.left = 0
                /\ Fills(o, n, t) \subseteq e2
    BY <1>1, ReplayResult
  <2>2. QED
    BY <2>1 DEF all
<1>3. PICK e2, l2 :
        /\ ReplayTrade(M(tr, r, e, l), o, n, t, s) = M(tr2, r2, e2, l2)
        /\ \E es \in SUBSET all : Adds(es, e, l, e2, l2)
        /\ /\ tr.status = "CREATED" /\ ~RowRaises(M(tr, r, e, l), o, n)
           /\ s \notin {"Pending", "Cancelled"} /\ t.executed <= tr.left
           => /\ tr2.left = tr.left - t.executed
              /\ tr2.status \in {"SUBMITTED", "PARTIALLY_FILLED", "FILLED"}
              /\ tr2.status = "FILLED" <=> tr2.left = 0
              /\ all \subseteq e2
  BY <1>2
<1>4. PICK es \in SUBSET all : Adds(es, e, l, e2, l2)
  BY <1>3
<1>5. e2 = e \cup es /\ l2 = l + Cardinality(es \ e)
  BY <1>1, <1>4 DEF Adds
<1>6. Becomes(o, M(tr2, r2, e2, l2))
  BY <1>1, <1>3 DEF t
<1>7. /\ M(tr2, r2, e2, l2).tracker = tr2 /\ M(tr2, r2, e2, l2).execs = e2
      /\ M(tr2, r2, e2, l2).lots = l2
  BY DEF M
<1>8. /\ registry' = [registry EXCEPT ![o] = tr2]
      /\ dbExecs' = e2 /\ lots' = [lots EXCEPT ![o] = l2]
  BY <1>6, <1>7 DEF Becomes
<1>9. registry'[o] = tr2 /\ \A p \in Orders \ {o} : registry'[p] = registry[p]
  BY <1>1, <1>8
<1>10. /\ dbExecs' = dbExecs \cup es
       /\ lots' = [lots EXCEPT ![o] = lots[o] + Cardinality(es \ dbExecs)]
  BY <1>5, <1>8 DEF e, l
<1>11. \E x \in SUBSET Fills(o, n, trades[o][n]) :
         /\ dbExecs' = dbExecs \cup x
         /\ lots' = [lots EXCEPT ![o] = lots[o] + Cardinality(x \ dbExecs)]
  BY <1>10 DEF all, t
<1>12. ASSUME registry[o].status = "CREATED", ~RowRaises(Memo(o), o, n),
              s \notin {"Pending", "Cancelled"}, trades[o][n].executed <= registry[o].left
       PROVE  /\ registry'[o].left = registry[o].left - trades[o][n].executed
              /\ registry'[o].status \in {"SUBMITTED", "PARTIALLY_FILLED", "FILLED"}
              /\ registry'[o].status = "FILLED" <=> registry'[o].left = 0
              /\ Fills(o, n, trades[o][n]) \subseteq dbExecs'
  <2>1. /\ tr.status = "CREATED" /\ ~RowRaises(M(tr, r, e, l), o, n)
        /\ s \notin {"Pending", "Cancelled"} /\ t.executed <= tr.left
    BY <1>1, <1>12 DEF tr, t
  <2>2. /\ tr2.left = tr.left - t.executed
        /\ tr2.status \in {"SUBMITTED", "PARTIALLY_FILLED", "FILLED"}
        /\ tr2.status = "FILLED" <=> tr2.left = 0
        /\ all \subseteq e2
    BY <1>3, <2>1
  <2>3. QED
    BY <1>8, <1>9, <2>2 DEF all, tr, t
<1>13. QED
  BY <1>9, <1>11, <1>12

(***************************************************************************)
(* The steps: the sizes of the trades, and the lots.                       *)
(***************************************************************************)
LEMMA ExecutedNat ==
  ASSUME TypeInv, NEW o \in Orders, NEW n \in DOMAIN trades[o]
  PROVE  /\ trades[o][n].executed \in Nat
         /\ trades[o][n].executed <= trades[o][n].executed
<1>1. trades[o] \in Seq(Trade)
  BY DEF TypeInv
<1>2. trades[o][n] \in Trade
  BY <1>1
<1>3. trades[o][n].executed \in Nat
  BY <1>2 DEF Trade
<1>4. QED
  BY <1>3

LEMMA SameTrades ==
  ASSUME TypeInv, TradeSize, trades' = trades
  PROVE  TradeSize' /\ Grows
<1>1. TradeSize'
  BY DEF TradeSize
<1>2. QED
  BY <1>1, ExecutedNat DEF Grows

LEMMA NewDayExecs ==
  ASSUME TypeInv, TradeSize, NewDay
  PROVE  TradeSize' /\ Grows
<1>1. \A o \in Orders : trades'[o] = [n \in DOMAIN trades[o] |-> Expired(trades[o][n])]
  BY DEF NewDay
<1>2. ASSUME NEW o \in Orders, NEW n \in DOMAIN trades[o]
      PROVE  /\ trades'[o][n].executed = trades[o][n].executed
             /\ trades'[o][n].state # "working"
             /\ trades[o][n].executed \in Nat
  <2>1. trades[o] \in Seq(Trade)
    BY DEF TypeInv
  <2>2. trades[o][n] \in Trade
    BY <2>1
  <2>3. trades'[o][n] = Expired(trades[o][n])
    BY <1>1
  <2>4. QED
    BY <2>2, <2>3 DEF Expired, Trade
<1>3. \A o \in Orders : DOMAIN trades'[o] = DOMAIN trades[o]
  BY <1>1
<1>4. Grows
  BY <1>2, <1>3 DEF Grows
<1>5. TradeSize'
  BY <1>2, <1>3 DEF TradeSize
<1>6. QED
  BY <1>4, <1>5

LEMMA OrderSinkExecs ==
  ASSUME TypeInv, TradeSize, NEW o \in Orders, OrderSink(o)
  PROVE  TradeSize' /\ Grows
<1>1. trades' = trades \/ trades' = [trades EXCEPT ![o] = Append(trades[o], NewTrade)]
  BY DEF OrderSink
<1>2. CASE trades' = trades
  BY <1>2, SameTrades
<1>3. CASE trades' = [trades EXCEPT ![o] = Append(trades[o], NewTrade)]
  <2>1. /\ trades \in [Orders -> Seq(Trade)] /\ trades[o] \in Seq(Trade)
        /\ NewTrade \in Trade
    BY DEF TypeInv, NewTrade, Trade
  <2>2. /\ trades'[o] = Append(trades[o], NewTrade)
        /\ \A p \in Orders \ {o} : trades'[p] = trades[p]
    BY <1>3, <2>1
  <2> DEFINE s == trades[o]
  <2>3. /\ Len(s) \in Nat /\ DOMAIN s = 1 .. Len(s)
        /\ DOMAIN Append(s, NewTrade) = 1 .. Len(s) + 1
        /\ Append(s, NewTrade)[Len(s) + 1] = NewTrade
        /\ \A n \in 1 .. Len(s) : Append(s, NewTrade)[n] = s[n]
    BY <2>1
  <2> HIDE DEF s
  <2>4. /\ DOMAIN s \subseteq DOMAIN trades'[o]
        /\ \A n \in DOMAIN s : trades'[o][n] = s[n]
        /\ \A n \in DOMAIN trades'[o] : n \in DOMAIN s \/ trades'[o][n] = NewTrade
    <3>1. trades'[o] = Append(s, NewTrade)
      BY <2>2 DEF s
    <3>2. QED
      BY <2>3, <3>1
  <2>5. NewTrade.executed = 0 /\ Quantity[o] \in Nat \ {0}
    BY RecoveryAssumption DEF NewTrade
  <2>6. TradeSize'
    <3> SUFFICES ASSUME NEW p \in Orders, NEW n \in DOMAIN trades'[p]
                 PROVE  /\ trades'[p][n].executed <= Quantity[p]
                        /\ trades'[p][n].state = "working"
                             => trades'[p][n].executed < Quantity[p]
      BY DEF TradeSize
    <3>1. CASE p = o /\ trades'[p][n] = NewTrade
      BY <2>5, <3>1
    <3>2. CASE n \in DOMAIN trades[p] /\ trades'[p][n] = trades[p][n]
      BY <3>2 DEF TradeSize
    <3>3. QED
      BY <2>2, <2>4, <3>1, <3>2 DEF s
  <2>8. Grows
    BY <2>2, <2>4, ExecutedNat DEF Grows, s
  <2>9. QED
    BY <2>6, <2>8
<1>4. QED
  BY <1>1, <1>2, <1>3

\* A step that changes one trade.
LEMMA OneTrade ==
  ASSUME TypeInv, TradeSize, NEW o \in Orders, NEW n \in DOMAIN trades[o], NEW u \in Trade,
         trades' = [trades EXCEPT ![o][n] = u],
         trades[o][n].executed <= u.executed, u.executed <= Quantity[o],
         u.state = "working" => u.executed < Quantity[o]
  PROVE  /\ TradeSize' /\ Grows
         /\ n \in DOMAIN trades'[o] /\ trades'[o][n] = u
         /\ DOMAIN trades'[o] = DOMAIN trades[o]
         /\ \A p \in Orders \ {o} : trades'[p] = trades[p]
<1>1. trades \in [Orders -> Seq(Trade)]
  BY DEF TypeInv
<1>2. trades'[o] = [trades[o] EXCEPT ![n] = u] /\ \A p \in Orders \ {o} : trades'[p] = trades[p]
  BY <1>1
<1>3. /\ DOMAIN trades'[o] = DOMAIN trades[o] /\ trades'[o][n] = u
      /\ \A i \in DOMAIN trades[o] \ {n} : trades'[o][i] = trades[o][i]
  BY <1>1, <1>2
<1>4. TradeSize'
  BY <1>2, <1>3 DEF TradeSize
<1>5. Grows
  <2>1. \A p \in Orders : \A i \in DOMAIN trades[p] :
          p # o \/ i # n => trades'[p][i] = trades[p][i]
    BY <1>2, <1>3
  <2>2. \A p \in Orders : DOMAIN trades'[p] = DOMAIN trades[p]
    BY <1>2, <1>3
  <2>3. QED
    BY <1>3, <2>1, <2>2, ExecutedNat DEF Grows
<1>6. QED
  BY <1>2, <1>3, <1>4, <1>5

LEMMA ReplayExecs ==
  ASSUME Inv, Inv', ExecInv, ReplayDailyFills
  PROVE  TradeSize' /\ LotsInv'
<1>0. PICK t \in todo : \E s \in BrokerStatuses(trades[t[1]][t[2]]) :
        Becomes(t[1], ReplayTrade(Memo(t[1]), t[1], t[2], trades[t[1]][t[2]], s))
  BY DEF ReplayDailyFills
<1>1. PICK s \in BrokerStatuses(trades[t[1]][t[2]]) :
        Becomes(t[1], ReplayTrade(Memo(t[1]), t[1], t[2], trades[t[1]][t[2]], s))
  BY <1>0
<1> DEFINE o == t[1]
           n == t[2]
<1>2. pc = "replay" /\ trades' = trades
  BY DEF ReplayDailyFills
<1>3. o \in file /\ o \in Orders /\ n \in TradesToday(o) /\ registry[o] # NoTracker
  BY <1>2 DEF Inv, ReplayInv, TypeInv
<1>4. /\ s \in BrokerStatuses(trades[o][n])
      /\ Becomes(o, ReplayTrade(Memo(o), o, n, trades[o][n], s))
  BY <1>1
<1> HIDE DEF o, n
<1>5. TypeInv /\ TypeInv' /\ LotsInv /\ TradeSize /\ lots \in [Orders -> Nat]
  BY DEF Inv, ExecInv, LotsInv
<1>6. TradeSize' /\ Grows
  BY <1>2, <1>5, SameTrades
<1>10. s \in Reported
  BY <1>3, <1>4, <1>5, TradeOfToday DEF Trade, BrokerStatuses, Reported, Status, Uncounted
<1>7. PICK es \in SUBSET Fills(o, n, trades[o][n]) :
        /\ dbExecs' = dbExecs \cup es
        /\ lots' = [lots EXCEPT ![o] = lots[o] + Cardinality(es \ dbExecs)]
  BY <1>3, <1>4, <1>5, <1>10, ReplayEffect
<1>8. es \in SUBSET (ExecsOf(o)')
  BY <1>2, <1>3 DEF ExecsOf, TradesToday
<1>9. QED
  BY <1>3, <1>5, <1>6, <1>7, <1>8, LotsStored

LEMMA ReportExecs ==
  ASSUME Inv, Inv', ExecInv, NEW o \in Orders, NEW n \in DOMAIN trades[o], Report(o, n)
  PROVE  TradeSize' /\ LotsInv'
<1>1. n \in TradesToday(o) /\ registry[o] # NoTracker /\ trades' = trades
  BY DEF Report
<1>2. TypeInv /\ TypeInv' /\ LotsInv /\ TradeSize /\ lots \in [Orders -> Nat]
  BY DEF Inv, ExecInv, LotsInv
<1>4. PICK s \in BrokerStatuses(trades[o][n]) : Becomes(o, OnOrderStatus(Memo(o), o, n, s))
  BY DEF Report
<1>3. s \in Reported
  BY <1>1, <1>2, TradeOfToday DEF Trade, BrokerStatuses, Reported, Status, Uncounted
<1>5. dbExecs' = dbExecs /\ lots' = [lots EXCEPT ![o] = lots[o]]
  BY <1>1, <1>2, <1>3, <1>4, OnStatus
<1>6. lots' = lots
  BY <1>2, <1>5
<1>7. TradeSize' /\ Grows
  BY <1>1, <1>2, SameTrades
<1>8. QED
  BY <1>2, <1>5, <1>6, <1>7, LotsKept

LEMMA CancelExecs ==
  ASSUME Inv, Inv', ExecInv, NEW o \in Orders, NEW n \in DOMAIN trades[o], Cancel(o, n)
  PROVE  TradeSize' /\ LotsInv'
<1> DEFINE u == [trades[o][n] EXCEPT !.state = "cancelled"]
<1>1. n \in TradesToday(o)
  BY DEF Cancel
<1>2. TypeInv /\ TypeInv' /\ LotsInv /\ TradeSize /\ lots \in [Orders -> Nat]
  BY DEF Inv, ExecInv, LotsInv
<1>3. trades[o][n] \in Trade
  BY <1>1, <1>2, TradeOfToday
<1>4. u \in Trade /\ u.executed = trades[o][n].executed /\ u.state # "working"
      /\ u.executed \in Nat
  BY <1>3 DEF Trade
<1>5. trades' = [trades EXCEPT ![o][n] = u]
  BY DEF Cancel
<1>6. u.executed <= Quantity[o] /\ trades[o][n].executed <= u.executed
  BY <1>2, <1>4 DEF TradeSize
<1> HIDE DEF u
<1>7. TradeSize' /\ Grows
  BY <1>2, <1>4, <1>5, <1>6, OneTrade
<1>8. dbExecs' = dbExecs /\ lots' = lots
  <2>1. CASE registry[o] = NoTracker
    BY <2>1 DEF Cancel, Delivered, database, history
  <2>2. CASE registry[o] # NoTracker
    <3>1. Becomes(o, OnOrderStatus(Memo(o), o, n, "Cancelled")) /\ "Cancelled" \in Reported
      BY <2>2 DEF Cancel, Delivered, Reported, Status, Uncounted
    <3>2. dbExecs' = dbExecs /\ lots' = [lots EXCEPT ![o] = lots[o]]
      BY <1>1, <1>2, <2>2, <3>1, OnStatus
    <3>3. QED
      BY <1>2, <3>2
  <2>3. QED
    BY <2>1, <2>2
<1>9. QED
  BY <1>2, <1>7, <1>8, LotsKept

\* The trade of an execution, after it.
LEMMA ExecutedTrade ==
  ASSUME TypeInv, TradeSize, NEW o \in Orders, NEW n \in DOMAIN trades[o], Execute(o, n)
  PROVE  LET k == trades[o][n].executed + 1
         IN  /\ n \in TradesToday(o) /\ MayHandle /\ BrokerUnchanged
             /\ k \in Nat \ {0} /\ k <= Quantity[o]
             /\ trades[o][n].state = "working"
             /\ Delivered(o, OnFill(Memo(o), o, n, k))
             /\ TradeSize' /\ Grows
             /\ n \in DOMAIN trades'[o] /\ trades'[o][n].executed = k
             /\ trades'[o][n].day = trades[o][n].day
             /\ DOMAIN trades'[o] = DOMAIN trades[o]
             /\ \A p \in Orders \ {o} : trades'[p] = trades[p]
<1> DEFINE k == trades[o][n].executed + 1
           st == IF k = Quantity[o] THEN "filled" ELSE "working"
           w == [trades[o][n] EXCEPT !.executed = k]
           u == [w EXCEPT !.state = st]
<1>1. n \in TradesToday(o) /\ MayHandle /\ BrokerUnchanged /\ trades[o][n].state = "working"
  BY DEF Execute
<1>2. trades[o][n] \in Trade
  BY <1>1, TradeOfToday
<1>3. trades[o][n].executed < Quantity[o] /\ Quantity[o] \in Nat
  BY <1>1, RecoveryAssumption DEF TradeSize
<1>4. trades[o][n].executed \in Nat
  BY <1>2 DEF Trade
<1>5. k \in Nat \ {0} /\ k <= Quantity[o] /\ trades[o][n].executed <= k
      /\ (k # Quantity[o] => k < Quantity[o])
  BY <1>3, <1>4
<1>6. trades' = [trades EXCEPT ![o][n] = u] /\ Delivered(o, OnFill(Memo(o), o, n, k))
  BY DEF Execute
<1>7. st \in {"working", "filled", "cancelled"} /\ (st = "working" => k # Quantity[o])
  OBVIOUS
<1> HIDE DEF k, st
<1>8. w \in Trade /\ w.executed = k /\ w.day = trades[o][n].day
  BY <1>2, <1>5 DEF Trade
<1> HIDE DEF w
<1>9. u \in Trade /\ u.executed = k /\ u.state = st /\ u.day = trades[o][n].day
  BY <1>7, <1>8 DEF Trade
<1> HIDE DEF u
<1>10. /\ TradeSize' /\ Grows
       /\ n \in DOMAIN trades'[o] /\ trades'[o][n] = u
       /\ DOMAIN trades'[o] = DOMAIN trades[o]
       /\ \A p \in Orders \ {o} : trades'[p] = trades[p]
  BY <1>5, <1>6, <1>7, <1>9, OneTrade
<1>11. QED
  BY <1>1, <1>5, <1>6, <1>9, <1>10 DEF k

LEMMA ExecuteExecs ==
  ASSUME Inv, Inv', ExecInv, NEW o \in Orders, NEW n \in DOMAIN trades[o], Execute(o, n)
  PROVE  TradeSize' /\ LotsInv'
<1> DEFINE k == trades[o][n].executed + 1
<1>1. TypeInv /\ TypeInv' /\ LotsInv /\ TradeSize /\ lots \in [Orders -> Nat]
  BY DEF Inv, ExecInv, LotsInv
<1>2. /\ n \in TradesToday(o) /\ k \in Nat \ {0}
      /\ Delivered(o, OnFill(Memo(o), o, n, k))
      /\ TradeSize' /\ Grows
      /\ n \in DOMAIN trades'[o] /\ trades'[o][n].executed = k
  BY <1>1, ExecutedTrade
<1> HIDE DEF k
<1>3. PICK es \in SUBSET {<<o, n, k>>} :
        /\ dbExecs' = dbExecs \cup es
        /\ lots' = [lots EXCEPT ![o] = lots[o] + Cardinality(es \ dbExecs)]
  BY <1>1, <1>2, FillEffect
<1>4. <<o, n, k>> \in Fills(o, n, trades'[o][n])
  BY <1>2 DEF Fills
<1>5. es \in SUBSET (ExecsOf(o)')
  BY <1>2, <1>4 DEF ExecsOf
<1>6. QED
  BY <1>1, <1>2, <1>3, <1>5, LotsStored

(***************************************************************************)
(* The steps: what has been replayed.                                      *)
(***************************************************************************)
\* An order held today has one trade, and a row refers to it.
LEMMA HeldFacts ==
  ASSUME TypeInv, TradeInv, NEW o \in Orders, HeldToday(o)
  PROVE  /\ DOMAIN trades[o] = {1} /\ trades[o][1] \in Trade
         /\ \A n \in TradesToday(o) : n = 1
         /\ row[o] # NoRow => row[o].perm = 1
<1>1. trades[o] \in Seq(Trade) /\ Len(trades[o]) = 1
  BY DEF TypeInv, HeldToday
<1>2. DOMAIN trades[o] = {1} /\ trades[o][1] \in Trade
  BY <1>1
<1>3. QED
  BY <1>2 DEF TradeInv, TradesToday

LEMMA RebuildReplayed ==
  ASSUME Inv, RebuildTrackers
  PROVE  ReplayedInv'
<1>1. /\ registry' = [o \in Orders |-> IF o \in file THEN NewTracker(o) ELSE NoTracker]
      /\ todo' = UNION {{o} \X TradesToday(o) : o \in file}
      /\ UNCHANGED <<day, file, trades>>
  BY DEF RebuildTrackers
<1>2. TypeInv /\ TradeInv
  BY DEF Inv
<1> SUFFICES ASSUME NEW o \in file, HeldToday(o)'
             PROVE  <<o, 1>> \in todo' /\ registry'[o] = NewTracker(o)
  BY <1>1 DEF ReplayedInv, NewTracker
<1>3. o \in Orders /\ HeldToday(o)
  BY <1>1, <1>2 DEF TypeInv, HeldToday
<1>4. 1 \in TradesToday(o)
  BY <1>2, <1>3, HeldFacts DEF TradesToday, HeldToday
<1>5. QED
  BY <1>1, <1>3, <1>4

LEMMA ReplayReplayed ==
  ASSUME Inv, ExecInv, ReplayDailyFills
  PROVE  ReplayedInv'
<1>0. PICK t \in todo : \E s \in BrokerStatuses(trades[t[1]][t[2]]) :
        /\ todo' = todo \ {t}
        /\ Becomes(t[1], ReplayTrade(Memo(t[1]), t[1], t[2], trades[t[1]][t[2]], s))
        /\ skipped' = IF s = "Pending" THEN skipped \cup {t[1]} ELSE skipped
  BY DEF ReplayDailyFills
<1>1. PICK s \in BrokerStatuses(trades[t[1]][t[2]]) :
        /\ todo' = todo \ {t}
        /\ Becomes(t[1], ReplayTrade(Memo(t[1]), t[1], t[2], trades[t[1]][t[2]], s))
        /\ skipped' = IF s = "Pending" THEN skipped \cup {t[1]} ELSE skipped
  BY <1>0
<1> DEFINE o == t[1]
           n == t[2]
<1>2. pc = "replay" /\ UNCHANGED <<day, file, trades>>
  BY DEF ReplayDailyFills
<1>3. /\ t = <<o, n>> /\ o \in file /\ o \in Orders /\ n \in TradesToday(o)
      /\ registry[o] # NoTracker
  BY <1>2 DEF Inv, ReplayInv, TypeInv
<1>4. /\ s \in BrokerStatuses(trades[o][n])
      /\ Becomes(o, ReplayTrade(Memo(o), o, n, trades[o][n], s))
      /\ skipped' = IF s = "Pending" THEN skipped \cup {o} ELSE skipped
  BY <1>1
<1> HIDE DEF o, n
<1>5. TypeInv /\ TradeInv /\ TradeSize /\ ReplayedInv /\ lots \in [Orders -> Nat]
  BY DEF Inv, ExecInv, LotsInv
<1>11. /\ s \in Reported /\ trades[o][n] \in Trade
       /\ trades[o][n].state # "cancelled" => s # "Cancelled"
  BY <1>3, <1>4, <1>5, TradeOfToday DEF Trade, BrokerStatuses, Reported, Status, Uncounted
<1>6. dbExecs \subseteq dbExecs' /\ \A p \in Orders \ {o} : registry'[p] = registry[p]
  BY <1>3, <1>4, <1>5, <1>11, ReplayEffect
<1> SUFFICES ASSUME NEW p \in file \ skipped', HeldToday(p)
             PROVE  IF <<p, 1>> \in todo' THEN registry'[p] = NewTracker(p) ELSE Caught(p)'
  BY <1>2 DEF ReplayedInv, HeldToday, NewTracker
<1>12. p \in file \ skipped
  BY <1>4
<1>7. p \in Orders /\ IF <<p, 1>> \in todo THEN registry[p] = NewTracker(p) ELSE Caught(p)
  BY <1>2, <1>5, <1>12 DEF ReplayedInv, TypeInv
<1>8. CASE p # o
  <2>1. registry'[p] = registry[p] /\ (<<p, 1>> \in todo' <=> <<p, 1>> \in todo)
    BY <1>1, <1>3, <1>6, <1>7, <1>8
  <2>2. Caught(p) => Caught(p)'
    BY <1>2, <1>6, <2>1 DEF Caught
  <2>3. QED
    BY <1>7, <2>1, <2>2
<1>9. CASE p = o
  <2>1. n = 1 /\ (row[o] # NoRow => row[o].perm = 1) /\ trades[o][1] \in Trade
        /\ 1 \in DOMAIN trades[o]
    BY <1>3, <1>5, <1>9, HeldFacts
  <2>2. <<p, 1>> \in todo /\ <<p, 1>> \notin todo'
    BY <1>1, <1>3, <1>9, <2>1
  <2>3. registry[o] = NewTracker(o)
    BY <1>7, <1>9, <2>2
  <2>4. registry[o].status = "CREATED" /\ registry[o].left = Quantity[o]
    BY <2>3 DEF NewTracker
  <2>5. ~RowRaises(Memo(o), o, n)
    BY <2>1 DEF RowRaises, Memo
  <2>6. trades[o][1].state # "cancelled" /\ trades[o][1].executed <= Quantity[o]
    BY <1>3, <1>5, <1>9, <2>1 DEF HeldToday, TradeSize
  <2>11. s \notin {"Pending", "Cancelled"}
    BY <1>4, <1>9, <1>11, <2>1, <2>6
  <2>7. /\ registry'[o].left = Quantity[o] - trades[o][1].executed
        /\ registry'[o].status \in {"SUBMITTED", "PARTIALLY_FILLED", "FILLED"}
        /\ registry'[o].status = "FILLED" <=> registry'[o].left = 0
        /\ Fills(o, 1, trades[o][1]) \subseteq dbExecs'
    BY <1>3, <1>4, <1>5, <1>11, <2>1, <2>4, <2>5, <2>6, <2>11, ReplayEffect
  <2>8. \A k \in 1 .. trades[o][1].executed : <<o, 1, k>> \in dbExecs'
    BY <2>7 DEF Fills
  <2>9. Caught(o)'
    BY <1>2, <2>7, <2>8 DEF Caught
  <2>10. QED
    BY <1>9, <2>2, <2>9
<1>10. QED
  BY <1>8, <1>9

\* A step of the broker about one order leaves what it has for the others.
LEMMA BrokerReplayed ==
  ASSUME TypeInv, ReplayedInv, MayHandle, BrokerUnchanged, NEW o \in Orders,
         dbExecs \subseteq dbExecs',
         \A p \in Orders \ {o} : registry'[p] = registry[p] /\ trades'[p] = trades[p],
         pc = "replay" /\ o \in file \ skipped /\ HeldToday(o)' => Caught(o)'
  PROVE  ReplayedInv'
<1>1. UNCHANGED <<day, pc, file, todo, skipped>>
  BY DEF BrokerUnchanged, history
<1> SUFFICES ASSUME pc = "replay", NEW p \in file \ skipped, HeldToday(p)'
             PROVE  <<p, 1>> \notin todo' /\ Caught(p)'
  BY <1>1 DEF ReplayedInv
<1>2. todo = {} /\ p \in Orders
  BY DEF MayHandle, TypeInv
<1>3. CASE p = o
  BY <1>1, <1>2, <1>3
<1>4. CASE p # o
  <2>1. registry'[p] = registry[p] /\ trades'[p] = trades[p]
    BY <1>2, <1>4
  <2>2. HeldToday(p)
    BY <1>1, <2>1 DEF HeldToday
  <2>3. Caught(p)
    BY <1>2, <2>2 DEF ReplayedInv
  <2>4. QED
    BY <1>1, <1>2, <2>1, <2>3 DEF Caught
<1>5. QED
  BY <1>3, <1>4

LEMMA ReportReplayed ==
  ASSUME Inv, ExecInv, NEW o \in Orders, NEW n \in DOMAIN trades[o], Report(o, n)
  PROVE  ReplayedInv'
<1> DEFINE tr == registry[o]
<1>1. /\ n \in TradesToday(o) /\ tr # NoTracker /\ trades' = trades
      /\ MayHandle /\ BrokerUnchanged
  BY DEF Report
<1>2. TypeInv /\ TradeInv /\ ReplayedInv
  BY DEF Inv, ExecInv
<1>4. PICK s \in BrokerStatuses(trades[o][n]) : Becomes(o, OnOrderStatus(Memo(o), o, n, s))
  BY DEF Report
<1>3. s \in Reported /\ (trades[o][n].state # "cancelled" => s # "Cancelled")
  BY <1>1, <1>2, TradeOfToday DEF Trade, BrokerStatuses, Reported, Status, Uncounted
<1>5. PICK tr2 \in TrackerShape :
        /\ registry' = [registry EXCEPT ![o] = tr2]
        /\ tr2 = tr \/ tr2 = [tr EXCEPT !.status = StatusAfter(tr, s)]
        /\ dbExecs' = dbExecs
  BY <1>1, <1>2, <1>3, <1>4, OnStatus
<1>6. tr \in TrackerShape /\ registry'[o] = tr2 /\ \A p \in Orders \ {o} : registry'[p] = registry[p]
  BY <1>1, <1>2, <1>5 DEF TypeInv
<1> HIDE DEF tr
<1>7. ASSUME pc = "replay", o \in file \ skipped, HeldToday(o)'
      PROVE  Caught(o)'
  <2>1. UNCHANGED <<day, pc, file, todo>> /\ todo = {}
    BY <1>1, <1>7 DEF BrokerUnchanged, MayHandle
  <2>2. HeldToday(o)
    BY <1>1, <1>7, <2>1 DEF HeldToday
  <2>3. Caught(o)
    BY <1>2, <1>7, <2>1, <2>2 DEF ReplayedInv
  <2>4. n = 1 /\ trades[o][1] \in Trade
    BY <1>1, <1>2, <2>2, HeldFacts
  <2>5. s # "Cancelled"
    BY <1>3, <2>2, <2>4 DEF HeldToday
  <2>6. tr.status # "CREATED"
    BY <2>3 DEF Caught, tr
  <2>7. StatusAfter(tr, s) = tr.status
    BY <2>5, <2>6 DEF StatusAfter
  <2>8. [tr EXCEPT !.status = tr.status] = tr
    BY <1>6 DEF TrackerShape, Tracker
  <2>9. registry'[o] = registry[o]
    BY <1>5, <1>6, <2>7, <2>8 DEF tr
  <2>10. QED
    BY <1>1, <1>5, <2>3, <2>9 DEF Caught
<1>8. QED
  BY <1>1, <1>2, <1>5, <1>6, <1>7, BrokerReplayed

LEMMA CancelReplayed ==
  ASSUME Inv, ExecInv, NEW o \in Orders, NEW n \in DOMAIN trades[o], Cancel(o, n)
  PROVE  ReplayedInv'
<1>1. /\ n \in TradesToday(o) /\ MayHandle /\ BrokerUnchanged
      /\ trades' = [trades EXCEPT ![o][n].state = "cancelled"]
  BY DEF Cancel
<1>2. TypeInv /\ ReplayedInv /\ trades[o] \in Seq(Trade)
  BY DEF Inv, ExecInv, TypeInv
<1>3. dbExecs' = dbExecs /\ \A p \in Orders \ {o} : registry'[p] = registry[p]
  <2>1. CASE registry[o] = NoTracker
    BY <2>1 DEF Cancel, Delivered, database, history
  <2>2. CASE registry[o] # NoTracker
    <3>1. Becomes(o, OnOrderStatus(Memo(o), o, n, "Cancelled")) /\ "Cancelled" \in Reported
      BY <2>2 DEF Cancel, Delivered, Reported, Status, Uncounted
    <3>2. PICK tr2 : registry' = [registry EXCEPT ![o] = tr2] /\ dbExecs' = dbExecs
      BY <1>1, <1>2, <2>2, <3>1, OnStatus
    <3>3. QED
      BY <1>2, <3>2 DEF TypeInv
  <2>3. QED
    BY <2>1, <2>2
<1>4. \A p \in Orders \ {o} : trades'[p] = trades[p]
  BY <1>1, <1>2 DEF TypeInv
<1>5. ~ HeldToday(o)'
  <2> SUFFICES ASSUME HeldToday(o)' PROVE FALSE
    OBVIOUS
  <2>1. trades'[o] = [trades[o] EXCEPT ![n] = [trades[o][n] EXCEPT !.state = "cancelled"]]
    BY <1>1, <1>2 DEF TypeInv
  <2>2. Len(trades'[o]) = Len(trades[o]) /\ Len(trades'[o]) = 1
    BY <1>2, <2>1 DEF HeldToday
  <2>3. n = 1
    <3>1. trades[o] \in Seq(Trade) /\ Len(trades[o]) = 1
      BY <1>2, <2>2
    <3>2. n \in DOMAIN trades[o]
      OBVIOUS
    <3>3. QED
      BY <3>1, <3>2
  <2>4. trades[o][n] \in Trade
    BY <1>2
  <2>5. trades'[o][1].state = "cancelled"
    BY <1>2, <2>1, <2>3, <2>4 DEF Trade
  <2>6. QED
    BY <2>5 DEF HeldToday
<1>6. QED
  BY <1>1, <1>2, <1>3, <1>4, <1>5, BrokerReplayed

LEMMA ExecuteReplayed ==
  ASSUME Inv, ExecInv, NEW o \in Orders, NEW n \in DOMAIN trades[o], Execute(o, n)
  PROVE  ReplayedInv'
<1> DEFINE k == trades[o][n].executed + 1
<1>1. TypeInv /\ TradeInv /\ TradeSize /\ ReplayedInv /\ ReplayInv /\ lots \in [Orders -> Nat]
  BY DEF Inv, ExecInv, LotsInv
<1>2. /\ n \in TradesToday(o) /\ MayHandle /\ BrokerUnchanged
      /\ k \in Nat \ {0} /\ k <= Quantity[o]
      /\ trades[o][n].state = "working"
      /\ Delivered(o, OnFill(Memo(o), o, n, k))
      /\ n \in DOMAIN trades'[o] /\ trades'[o][n].executed = k
      /\ trades'[o][n].day = trades[o][n].day
      /\ DOMAIN trades'[o] = DOMAIN trades[o]
      /\ \A p \in Orders \ {o} : trades'[p] = trades[p]
  BY <1>1, ExecutedTrade
<1>3. k = trades[o][n].executed + 1 /\ trades[o][n].executed \in Nat
  BY <1>1, ExecutedNat
<1> HIDE DEF k
<1>4. /\ dbExecs \subseteq dbExecs'
      /\ \A p \in Orders \ {o} : registry'[p] = registry[p]
      /\ registry[o] # NoTracker /\ Fillable(registry[o])
         /\ row[o] # NoRow /\ row[o].perm = n
           => registry'[o] = TrackerFilled(registry[o], 1) /\ <<o, n, k>> \in dbExecs'
  BY <1>1, <1>2, FillEffect
<1>5. ASSUME pc = "replay", o \in file \ skipped, HeldToday(o)'
      PROVE  Caught(o)'
  <2>1. UNCHANGED <<day, pc, file, todo>> /\ todo = {}
    BY <1>2, <1>5 DEF BrokerUnchanged, MayHandle
  <2>2. Len(trades[o]) = 1
    <3>1. trades'[o] \in Seq(Trade) /\ trades[o] \in Seq(Trade)
      <4>1. TypeInv'
        BY ExecuteInv DEF Inv
      <4>2. QED
        BY <1>1, <4>1 DEF TypeInv
    <3>2. QED
      BY <1>2, <1>5, <3>1 DEF HeldToday
  <2>3. n = 1
    <3>1. trades[o] \in Seq(Trade)
      BY <1>1 DEF TypeInv
    <3>2. QED
      BY <2>2, <3>1
  <2>4. HeldToday(o)
    BY <1>2, <2>2, <2>3 DEF HeldToday, TradesToday
  <2>5. Caught(o) /\ Noted(o) /\ registry[o] # NoTracker
    BY <1>1, <1>5, <2>1, <2>4 DEF ReplayedInv, ReplayInv
  <2>6. row[o] # NoRow /\ row[o].perm = n
    BY <1>1, <2>3, <2>4, <2>5, HeldFacts DEF Noted
  <2>7. registry[o].left = Quantity[o] - trades[o][1].executed /\ Quantity[o] \in Nat
    BY <2>5, RecoveryAssumption DEF Caught
  <2>8. registry[o].left \in Nat /\ registry[o].left > 0
    BY <1>2, <1>3, <2>3, <2>7
  <2>9. registry[o].left # 0
    BY <2>8
  <2>10. Fillable(registry[o])
    BY <2>5, <2>9 DEF Caught, Fillable
  <2>11. registry'[o] = TrackerFilled(registry[o], 1) /\ <<o, 1, k>> \in dbExecs'
    BY <1>4, <2>3, <2>5, <2>6, <2>10
  <2>12. /\ registry'[o].left = registry[o].left - 1
         /\ registry'[o].status = IF registry[o].left = 1 THEN "FILLED" ELSE "PARTIALLY_FILLED"
    BY <2>11 DEF TrackerFilled
  <2>13. registry'[o].left = Quantity[o] - trades'[o][1].executed
    BY <1>2, <1>3, <2>3, <2>7, <2>12
  <2>14. registry'[o].status = "FILLED" <=> registry'[o].left = 0
    BY <2>8, <2>12
  <2>15. \A i \in 1 .. k : <<o, 1, i>> \in dbExecs'
    <3> TAKE i \in 1 .. k
    <3>1. i = k \/ i \in 1 .. trades[o][1].executed
      BY <1>2, <1>3, <2>3
    <3>2. QED
      BY <1>4, <2>5, <2>11, <3>1 DEF Caught
  <2>16. QED
    BY <1>2, <2>3, <2>12, <2>13, <2>14, <2>15 DEF Caught
<1>6. QED
  BY <1>1, <1>2, <1>4, <1>5, BrokerReplayed

(***************************************************************************)
(* The invariant of the executions, and its theorem.                       *)
(***************************************************************************)
LEMMA InitExec == Init => ExecInv
<1> SUFFICES ASSUME Init PROVE ExecInv
  OBVIOUS
<1>1. TradeSize /\ ReplayedInv
  BY DEF Init, TradeSize, ReplayedInv
<1>2. \A o \in Orders : StoredOf(o) = {}
  BY DEF Init, StoredOf
<1>3. \A o \in Orders : lots[o] = Cardinality(StoredOf(o))
  BY <1>2, FS_EmptySet DEF Init
<1>4. LotsInv
  BY <1>3 DEF Init, LotsInv
<1>5. QED
  BY <1>1, <1>4 DEF ExecInv

\* A step that leaves trades and executions alone, and does not begin or go on with a replay.
LEMMA QuietExec ==
  ASSUME Inv, Inv', ExecInv, UNCHANGED <<trades, dbExecs, lots>>
  PROVE  TradeSize' /\ LotsInv'
<1>1. TypeInv /\ TypeInv' /\ TradeSize /\ LotsInv
  BY DEF Inv, ExecInv
<1>2. TradeSize' /\ Grows
  BY <1>1, SameTrades
<1>3. QED
  BY <1>1, <1>2, LotsKept

LEMMA NextExec ==
  ASSUME Inv, Inv', ExecInv, [Next]_vars
  PROVE  ExecInv'
<1>1. TypeInv /\ TypeInv' /\ TradeSize /\ LotsInv /\ MemoryInv
  BY DEF Inv, ExecInv
<1>2. CASE Start \/ LoadPortfolioOrders \/ SaveStagedOrders \/ StageRemaining
           \/ DispatchRemaining \/ Dies \/ Completes
  <2>1. UNCHANGED <<trades, dbExecs, lots>> /\ pc' # "replay"
    BY <1>2 DEF Start, LoadPortfolioOrders, SaveStagedOrders, StageRemaining,
                DispatchRemaining, Dies, Completes,
                database, history
  <2>2. QED
    BY <2>1, QuietExec DEF ExecInv, ReplayedInv
<1>3. CASE RebuildTrackers
  <2>1. UNCHANGED <<trades, dbExecs, lots>>
    BY <1>3 DEF RebuildTrackers, database, history
  <2>2. QED
    BY <1>3, <2>1, QuietExec, RebuildReplayed DEF ExecInv
<1>4. CASE ReplayDailyFills
  BY <1>4, ReplayExecs, ReplayReplayed DEF ExecInv
<1>5. CASE NewDay
  <2>1. TradeSize' /\ Grows
    BY <1>1, <1>5, NewDayExecs
  <2>2. UNCHANGED <<dbExecs, lots>> /\ pc' # "replay"
    BY <1>5 DEF NewDay, database, history
  <2>3. QED
    BY <1>1, <2>1, <2>2, LotsKept DEF ExecInv, ReplayedInv
<1>6. ASSUME NEW o \in Orders, Authorize(o)
      PROVE  ExecInv'
  <2>1. UNCHANGED <<trades, dbExecs, lots>> /\ pc' # "replay"
    BY <1>1, <1>6 DEF Authorize, MemoryInv, database, history
  <2>2. QED
    BY <2>1, QuietExec DEF ExecInv, ReplayedInv
<1>7. ASSUME NEW o \in Orders, OrderSink(o)
      PROVE  ExecInv'
  <2>1. TradeSize' /\ Grows
    BY <1>1, <1>7, OrderSinkExecs
  <2>2. UNCHANGED <<dbExecs, lots>> /\ pc' # "replay"
    BY <1>1, <1>7 DEF OrderSink, MemoryInv, database, history
  <2>3. QED
    BY <1>1, <2>1, <2>2, LotsKept DEF ExecInv, ReplayedInv
<1>8. ASSUME NEW o \in Orders, NEW n \in DOMAIN trades[o],
             Report(o, n) \/ Execute(o, n) \/ Cancel(o, n)
      PROVE  ExecInv'
  BY <1>8, ReportExecs, ReportReplayed, ExecuteExecs, ExecuteReplayed, CancelExecs,
     CancelReplayed DEF ExecInv
<1>9. CASE UNCHANGED vars
  <2>1. UNCHANGED <<day, pc, file, todo, registry, trades, dbExecs, lots, skipped>>
    BY <1>9 DEF vars, memory, database, history
  <2>2. ReplayedInv'
    BY <2>1 DEF ExecInv, ReplayedInv, HeldToday, Caught, NewTracker
  <2>3. QED
    BY <2>1, <2>2, QuietExec DEF ExecInv
<1>10. QED
  BY <1>2, <1>3, <1>4, <1>5, <1>6, <1>7, <1>8, <1>9 DEF Next, Process, Broker

LEMMA ReplayCompletesInv ==
  ASSUME Inv, ExecInv
  PROVE  ReplayCompletes
<1>1. TypeInv /\ ReplayedInv /\ LotsInv
  BY DEF Inv, ExecInv
<1>2. ASSUME pc = "replay", todo = {}, NEW o \in file \ skipped,
             Len(trades[o]) = 1, TradesToday(o) = {1}, trades[o][1].state # "cancelled",
             NEW k \in 1 .. trades[o][1].executed
      PROVE  <<o, 1, k>> \in dbExecs
  <2>1. HeldToday(o)
    BY <1>2 DEF HeldToday, TradesToday
  <2>2. Caught(o)
    BY <1>1, <1>2, <2>1 DEF ReplayedInv
  <2>3. QED
    BY <2>2 DEF Caught
<1>3. ASSUME NEW o \in Orders
      PROVE  lots[o] <= Executed(o)
  <2>1. /\ IsFiniteSet(ExecsOf(o)) /\ Executed(o) \in Nat
        /\ Cardinality(ExecsOf(o)) <= Executed(o)
    BY <1>1, ExecsFacts
  <2>2. StoredOf(o) \subseteq ExecsOf(o)
    BY <1>1, ExecsFacts DEF StoredOf, LotsInv
  <2>3. Cardinality(StoredOf(o)) <= Cardinality(ExecsOf(o))
    BY <2>1, <2>2, FS_Subset
  <2>4. Cardinality(StoredOf(o)) \in Nat /\ Cardinality(ExecsOf(o)) \in Nat
    BY <2>1, <2>2, FS_Subset, FS_CardinalityType
  <2>5. lots[o] = Cardinality(StoredOf(o))
    BY <1>1 DEF LotsInv
  <2>6. QED
    BY <2>1, <2>3, <2>4, <2>5
<1>4. QED
  BY <1>2, <1>3 DEF ReplayCompletes

\* Whenever a replay is done, the database has every execution of the orders of the file with
\* a single trade, of today, that the broker works or has filled and that no replay met
\* pending, however the process died before, what the broker reported to nobody included.
\* Nothing is said of a cancelled trade, nor of an order sent twice.  And no share of any
\* order is ever booked twice into the lots.
THEOREM ReplaysComplete == SafeSpec => []ReplayCompletes
<1>1. Init => Inv /\ ExecInv
  BY InitInv, InitExec
<1>2. Inv /\ ExecInv /\ [Next]_vars => Inv' /\ ExecInv'
  BY NextInv, NextExec
<1>3. Inv /\ ExecInv => ReplayCompletes
  BY ReplayCompletesInv
<1>4. QED
  BY <1>1, <1>2, <1>3, PTL DEF SafeSpec
=============================================================================
