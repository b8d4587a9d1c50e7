-------------------------- MODULE RiskMonitorProofs --------------------------
(***************************************************************************)
(* The safety of RiskMonitor for any sessions, positions, thresholds and   *)
(* number of orders: the store of the monitor follows the portfolio, a     *)
(* position armed once is marked at most once by each thread, and a held   *)
(* position waits in PENDING only for a sale.                              *)
(***************************************************************************)
EXTENDS RiskMonitor, FiniteSetTheorems, TLAPS

\* An order is tracked where it was routed, and the rebalance buys one share at a time.
OrdersInv ==
  /\ \A t \in Threads : at[t].step = "track" => at[t].order \in DOMAIN orders
  /\ \A i \in DOMAIN orders : orders[i].side = "BUY" => orders[i].quantity = 1

\* A thread past the check of a position.
Past(t, k) == at[t].step = "mark" /\ at[t].key = k

\* Whoever is past the check may still mark, so the marks leave room for each of them; a
\* position that is watched has no mark yet.
MarksInv ==
  \A k \in Thresholds :
    /\ status[k] = "MONITORING" => marks[k] = 0
    /\ marks[k] <= 2
    /\ \A t \in Threads : Past(t, k) => marks[k] <= 1
    /\ Past("loop", k) /\ Past("feed", k) => marks[k] = 0

Unbooked(k) ==
  \E i \in DOMAIN orders : orders[i].key = k /\ orders[i].risk /\ orders[i].state # "booked"

Inv ==
  /\ TypeOK
  /\ OrdersInv
  /\ MarksInv
  /\ StoreFollowsPortfolio
  /\ PendingHasSale

store == <<held, status, quantity, marks>>

-----------------------------------------------------------------------------
LEMMA SomeKeyIsKey == SomeKey \in Keys
BY RiskAssumption DEF SomeKey

LEMMA IdleIsPlace == Idle \in Place /\ Idle.step = "idle"
BY SomeKeyIsKey DEF Idle, Place, Steps

LEMMA InitInv == Init => Inv
<1> SUFFICES ASSUME Init PROVE Inv
  OBVIOUS
<1>1. held \in [Keys -> Nat] /\ Thresholds \subseteq Keys
  BY RiskAssumption DEF Init
<1>2. TypeOK
  <2>1. clock \in DOMAIN Phases
    BY RiskAssumption DEF Init
  <2>2. /\ status \in [Thresholds -> Status] /\ quantity \in [Thresholds -> Int]
        /\ held \in [Keys -> Int] /\ low \subseteq Thresholds
        /\ marks \in [Thresholds -> Nat] /\ orders \in Seq(Order)
    BY <1>1 DEF Init, Status
  <2>3. at \in [Threads -> Place] /\ \A t \in Threads : at[t].step = "idle"
    BY IdleIsPlace DEF Init
  <2>4. /\ chain \in [do : {"idle", "refresh", "list", "price"}, session : 0..Len(Sessions),
                      left : SUBSET Thresholds]
        /\ chain.do # "idle" => chain.session > 0
    BY RiskAssumption DEF Init, NoChain
  <2> QED BY <2>1, <2>2, <2>3, <2>4 DEF TypeOK
<1>3. \A t \in Threads : at[t].step = "idle"
  BY IdleIsPlace DEF Init
<1>4. OrdersInv
  BY <1>3 DEF Init, OrdersInv
<1>5. MarksInv
  BY <1>3 DEF Init, MarksInv, Past
<1>6. StoreFollowsPortfolio
  BY <1>1 DEF Init, StoreFollowsPortfolio
<1>7. PendingHasSale
  BY DEF Init, PendingHasSale
<1> QED BY <1>2, <1>4, <1>5, <1>6, <1>7 DEF Inv

-----------------------------------------------------------------------------
(***************************************************************************)
(* Steps that leave the store and the orders alone                         *)
(***************************************************************************)
\* The place of a thread may change to any place but "mark", "send" and "track".
Harmless(new) == new \in Place /\ new.step \in {"idle", "trigger"}

LEMMA MovesKeep ==
  ASSUME Inv, TypeOK', UNCHANGED <<store, orders>>,
         NEW t \in Threads, NEW new, Harmless(new),
         at[t].step \in {"idle", "trigger"},
         at' = at \/ at' = [at EXCEPT ![t] = new]
  PROVE  Inv'
<1>1. at \in [Threads -> Place]
  BY DEF Inv, TypeOK
<1>2. \A u \in Threads : at'[u] = at[u] \/ (at'[u] = new /\ u = t)
  BY <1>1
<1>3. OrdersInv'
  BY <1>2 DEF Inv, OrdersInv, Harmless
<1>4. \A u \in Threads : \A k \in Thresholds : Past(u, k)' => Past(u, k)
  BY <1>2 DEF Past, Harmless
<1>5. MarksInv'
  BY <1>4 DEF Inv, MarksInv, store, Threads
<1>6. StoreFollowsPortfolio'
  BY DEF Inv, StoreFollowsPortfolio, store
<1>7. \A k \in Thresholds : Sending(k) => Sending(k)'
  BY <1>2 DEF Sending
<1>8. PendingHasSale'
  BY <1>7 DEF Inv, PendingHasSale, store
<1> QED BY <1>3, <1>5, <1>6, <1>8 DEF Inv

LEMMA IdleIsHarmless == Harmless(Idle)
BY IdleIsPlace DEF Harmless

LEMMA TriggerIsHarmless ==
  ASSUME NEW k \in Thresholds
  PROVE  Harmless([step |-> "trigger", key |-> k, order |-> 0])
BY RiskAssumption DEF Harmless, Place, Steps

LEMMA ClockKeeps == ASSUME Inv, ClockTurns PROVE Inv'
<1>1. TypeOK'
  BY RiskAssumption DEF Inv, TypeOK, ClockTurns
<1> QED BY <1>1, MovesKeep, IdleIsHarmless
        DEF ClockTurns, store, Inv, OrdersInv, MarksInv, Past, StoreFollowsPortfolio,
            PendingHasSale, Sending

LEMMA PriceKeeps == ASSUME Inv, NEW k \in Thresholds, PriceMoves(k) PROVE Inv'
<1>1. TypeOK'
  BY DEF Inv, TypeOK, PriceMoves
<1> QED BY <1>1
        DEF PriceMoves, Inv, OrdersInv, MarksInv, Past, StoreFollowsPortfolio,
            PendingHasSale, Sending

LEMMA CallbacksKeep == ASSUME Inv, Callbacks PROVE Inv'
<1>1. /\ UNCHANGED <<clock, low, store, orders>>
      /\ at["loop"].step = "idle"
  BY DEF Callbacks, OnTickerUpdate, RefreshPortfolio, ListMonitoring, EvaluatePosition,
         EndSession, ChainStep, LoopIsFree, store
<1>2. \/ at' = at
      \/ \E k \in Thresholds :
           at' = [at EXCEPT !["loop"] = [step |-> "trigger", key |-> k, order |-> 0]]
  BY DEF Callbacks, OnTickerUpdate, RefreshPortfolio, ListMonitoring, EvaluatePosition,
         EndSession
<1> DEFINE Chains == [do : {"idle", "refresh", "list", "price"}, session : 0..Len(Sessions),
                      left : SUBSET Thresholds]
<1>3. chain' \in Chains /\ (chain'.do # "idle" => chain'.session > 0)
  <2>1. /\ chain \in Chains /\ (chain.do # "idle" => chain.session > 0)
        /\ Len(Sessions) \in Nat
    BY RiskAssumption DEF Inv, TypeOK
  <2>2. NoChain \in Chains /\ NoChain.do = "idle"
    BY <2>1 DEF NoChain
  <2>3. ASSUME NEW do \in {"refresh", "list"}, NEW i \in 1..Len(Sessions)
        PROVE  Begin(do, i) \in Chains /\ Begin(do, i).session > 0
    BY <2>1 DEF Begin
  <2>4. CASE OnTickerUpdate
    BY <2>1, <2>2, <2>3, <2>4 DEF OnTickerUpdate, ChainStep
  <2>5. CASE RefreshPortfolio
    <3>1. chain.session \in 1..Len(Sessions)
      BY <2>1, <2>5 DEF RefreshPortfolio
    <3>2. chain' = Begin("list", chain.session) \/ chain' = NoChain
      BY <2>5 DEF RefreshPortfolio, ChainStep
    <3> QED BY <3>1, <3>2, <2>2, <2>3
  <2>6. CASE ListMonitoring
    BY <2>1, <2>6 DEF ListMonitoring, ChainStep
  <2>7. CASE \E k \in Thresholds : EvaluatePosition(k)
    <3>1. \/ chain' = NoChain
          \/ \E k \in Thresholds :
               /\ chain.do = "price"
               /\ chain' = [do |-> "price", session |-> chain.session,
                            left |-> chain.left \ {k}]
      BY <2>7 DEF EvaluatePosition, ChainStep
    <3> QED BY <3>1, <2>1, <2>2
  <2>8. CASE EndSession
    <3>1. chain.session \in 1..Len(Sessions)
      BY <2>1, <2>8 DEF EndSession
    <3>2. chain' = NoChain
          \/ (chain.session < Len(Sessions) /\ chain' = Begin("refresh", chain.session + 1))
      BY <2>8 DEF EndSession, ChainStep, AfterSession
    <3> QED BY <3>1, <3>2, <2>1, <2>2, <2>3
  <2> QED BY <2>4, <2>5, <2>6, <2>7, <2>8 DEF Callbacks
<1> HIDE DEF Chains
<1>4. /\ clock' \in DOMAIN Phases /\ low' \subseteq Thresholds /\ held' \in [Keys -> Int]
      /\ status' \in [Thresholds -> Status] /\ quantity' \in [Thresholds -> Int]
      /\ marks' \in [Thresholds -> Nat] /\ orders' \in Seq(Order)
  BY <1>1 DEF Inv, TypeOK, store
<1>5. CASE at' = at
  <2>1. TypeOK'
    BY <1>3, <1>4, <1>5 DEF Inv, TypeOK, Chains
  <2> QED BY <2>1, <1>1, <1>5, MovesKeep, IdleIsHarmless DEF Threads
<1>6. ASSUME NEW k \in Thresholds,
             at' = [at EXCEPT !["loop"] = [step |-> "trigger", key |-> k, order |-> 0]]
      PROVE  Inv'
  <2> DEFINE new == [step |-> "trigger", key |-> k, order |-> 0]
  <2>1. Harmless(new)
    BY TriggerIsHarmless
  <2>2. new.step = "trigger" /\ new.key \in Thresholds
    OBVIOUS
  <2> HIDE DEF new
  <2>3. at' = [at EXCEPT !["loop"] = new]
    BY <1>6 DEF new
  <2>4. /\ at' \in [Threads -> Place]
        /\ \A t \in Threads :
             at'[t].step \in {"trigger", "mark", "send"} => at'[t].key \in Thresholds
    BY <2>1, <2>2, <2>3 DEF Inv, TypeOK, Harmless, Threads
  <2>5. TypeOK'
    BY <1>3, <1>4, <2>4 DEF TypeOK, Chains
  <2> QED BY <2>1, <2>3, <2>5, <1>1, MovesKeep DEF Threads
<1> QED BY <1>2, <1>5, <1>6

LEMMA SignalKeeps == ASSUME Inv, NEW k \in Thresholds, HandleSignal(k) PROVE Inv'
<1> DEFINE new == [step |-> "trigger", key |-> k, order |-> 0]
<1>1. Harmless(new)
  BY TriggerIsHarmless
<1>2. new.step = "trigger" /\ new.key \in Thresholds
  OBVIOUS
<1> HIDE DEF new
<1>3. /\ at' = [at EXCEPT !["feed"] = new] /\ at["feed"].step = "idle"
      /\ UNCHANGED <<clock, low, store, orders, chain>>
  BY DEF HandleSignal, new, store
<1>4. TypeOK'
  BY <1>1, <1>2, <1>3 DEF Inv, TypeOK, Harmless, Threads, store
<1> QED BY <1>1, <1>3, <1>4, MovesKeep DEF Threads

-----------------------------------------------------------------------------
(***************************************************************************)
(* _trigger_execution                                                      *)
(***************************************************************************)
LEMMA CheckKeeps == ASSUME Inv, NEW t \in Threads, CheckMonitoring(t) PROVE Inv'
<1> DEFINE k == at[t].key
           new == [step |-> "mark", key |-> k, order |-> 0]
<1>0. /\ at \in [Threads -> Place] /\ at[t].step = "trigger"
      /\ k \in Thresholds /\ Thresholds \subseteq Keys
      /\ UNCHANGED <<clock, low, store, orders, chain>>
  BY RiskAssumption DEF CheckMonitoring, Inv, TypeOK, store
<1>1. CASE ~IsMonitoring(k)
  <2>1. at' = [at EXCEPT ![t] = Idle]
    BY <1>1 DEF CheckMonitoring
  <2>2. TypeOK'
    BY <1>0, <2>1, IdleIsPlace DEF Inv, TypeOK, store
  <2> QED BY <1>0, <2>1, <2>2, MovesKeep, IdleIsHarmless
<1>2. CASE IsMonitoring(k)
  <2>1. new \in Place /\ new.step = "mark" /\ new.key = k
    BY <1>0 DEF Place, Steps
  <2>2. at' = [at EXCEPT ![t] = new]
    BY <1>2 DEF CheckMonitoring
  <2>3. k \in Thresholds /\ status[k] = "MONITORING" /\ marks[k] = 0
    BY <1>0, <1>2 DEF IsMonitoring, Inv, MarksInv
  <2> HIDE DEF new
  <2>4. TypeOK'
    BY <1>0, <2>1, <2>2 DEF Inv, TypeOK, store
  <2>5. OrdersInv'
    BY <1>0, <2>1, <2>2 DEF Inv, OrdersInv
  <2>6. \A u \in Threads : \A l \in Thresholds : Past(u, l)' => Past(u, l) \/ l = k
    BY <1>0, <2>1, <2>2 DEF Past
  <2>7. MarksInv'
    BY <1>0, <2>3, <2>6 DEF Inv, MarksInv, store, Threads
  <2>8. \A l \in Thresholds : Sending(l) => Sending(l)'
    BY <1>0, <2>2 DEF Sending
  <2>9. StoreFollowsPortfolio' /\ PendingHasSale'
    BY <1>0, <2>8 DEF Inv, StoreFollowsPortfolio, PendingHasSale, store
  <2> QED BY <2>4, <2>5, <2>7, <2>9 DEF Inv
<1> QED BY <1>1, <1>2

LEMMA MarkKeeps == ASSUME Inv, NEW t \in Threads, MarkPending(t) PROVE Inv'
<1> PICK k : k = at[t].key
  OBVIOUS
<1> DEFINE new == [step |-> "send", key |-> k, order |-> 0]
<1>0. /\ at \in [Threads -> Place] /\ at[t].step = "mark"
      /\ k \in Thresholds /\ Thresholds \subseteq Keys
      /\ UNCHANGED <<clock, low, held, quantity, orders, chain>>
      /\ status' = [status EXCEPT ![k] = "PENDING"]
      /\ marks' = [marks EXCEPT ![k] = marks[k] + 1]
      /\ at' = [at EXCEPT ![t] = new]
  BY RiskAssumption DEF MarkPending, Inv, TypeOK
<1>1. new \in Place /\ new.step = "send" /\ new.key = k
  BY <1>0 DEF Place, Steps
<1>2. Past(t, k)
  BY <1>0 DEF Past
<1> HIDE DEF new
<1>3. /\ status \in [Thresholds -> Status] /\ marks \in [Thresholds -> Nat]
      /\ \A l \in Thresholds : l # k => status'[l] = status[l] /\ marks'[l] = marks[l]
      /\ status'[k] = "PENDING" /\ marks'[k] = marks[k] + 1
  BY <1>0 DEF Inv, TypeOK
<1>4. TypeOK'
  BY <1>0, <1>1, <1>3 DEF Inv, TypeOK, Status
<1>5. OrdersInv'
  BY <1>0, <1>1 DEF Inv, OrdersInv
<1>6. \A u \in Threads : \A l \in Thresholds : Past(u, l)' => Past(u, l) /\ u # t
  BY <1>0, <1>1 DEF Past
<1>7. MarksInv'
  BY <1>2, <1>3, <1>6, <1>0 DEF Inv, MarksInv, Threads
<1>8. StoreFollowsPortfolio'
  BY <1>0, <1>3 DEF Inv, StoreFollowsPortfolio
<1>9. Sending(k)' /\ \A l \in Thresholds : Sending(l) => Sending(l)'
  BY <1>0, <1>1 DEF Sending
<1>10. PendingHasSale'
  BY <1>0, <1>3, <1>9 DEF Inv, PendingHasSale
<1> QED BY <1>4, <1>5, <1>7, <1>8, <1>10 DEF Inv

\* A new order: what route_order and the place after it do to the invariant.
LEMMA RouteKeeps ==
  ASSUME Inv, NEW t \in Threads, NEW o \in Order, Route(t, o),
         o.side = "BUY" => o.quantity = 1,
         UNCHANGED <<clock, low, store>>,
         at[t].step \in {"idle", "send"},
         at[t].step = "send" => o.key = at[t].key /\ o.risk /\ o.state = "working"
  PROVE  Inv'
<1> DEFINE new == [step |-> "track", key |-> o.key, order |-> Len(orders) + 1]
<1>1. /\ at \in [Threads -> Place] /\ orders \in Seq(Order) /\ o.key \in Keys
      /\ orders' = Append(orders, o) /\ at' = [at EXCEPT ![t] = new] /\ UNCHANGED chain
  BY DEF Route, Inv, TypeOK, Order
<1>2. new \in Place /\ new.step = "track" /\ new.order = Len(orders) + 1
  BY <1>1 DEF Place, Steps
<1> HIDE DEF new
<1>3. /\ orders' \in Seq(Order) /\ Len(orders') = Len(orders) + 1
      /\ DOMAIN orders \subseteq DOMAIN orders'
      /\ \A i \in DOMAIN orders : orders'[i] = orders[i]
      /\ Len(orders) + 1 \in DOMAIN orders' /\ orders'[Len(orders) + 1] = o
      /\ \A i \in DOMAIN orders' : i \in DOMAIN orders \/ orders'[i] = o
  BY <1>1
<1>4. TypeOK'
  BY <1>1, <1>2, <1>3 DEF Inv, TypeOK, store
<1>5. OrdersInv'
  BY <1>1, <1>2, <1>3 DEF Inv, OrdersInv
<1>6. \A u \in Threads : \A l \in Thresholds : Past(u, l)' => Past(u, l)
  BY <1>1, <1>2 DEF Past
<1>7. MarksInv'
  BY <1>6 DEF Inv, MarksInv, store, Threads
<1>8. StoreFollowsPortfolio'
  BY DEF Inv, StoreFollowsPortfolio, store
<1>9. \A l \in Thresholds : Unbooked(l) => Unbooked(l)'
  BY <1>3 DEF Unbooked
<1>10. \A l \in Thresholds : Sending(l) => Sending(l)' \/ Unbooked(l)'
  <2> SUFFICES ASSUME NEW l \in Thresholds, Sending(l), ~Sending(l)' PROVE Unbooked(l)'
    OBVIOUS
  <2>1. at[t].step = "send" /\ at[t].key = l
    BY <1>1 DEF Sending
  <2> QED BY <1>3, <2>1 DEF Unbooked
<1>11. PendingHasSale'
  BY <1>9, <1>10 DEF Inv, PendingHasSale, Unbooked, store
<1> QED BY <1>4, <1>5, <1>7, <1>8, <1>11 DEF Inv

LEMMA SendKeeps == ASSUME Inv, NEW t \in Threads, SendOrder(t) PROVE Inv'
<1> DEFINE k == at[t].key
           o == NewOrder(k, "SELL", quantity[k], TRUE)
<1>0. /\ at \in [Threads -> Place] /\ at[t].step = "send"
      /\ k \in Thresholds /\ Thresholds \subseteq Keys /\ quantity[k] \in Int
      /\ UNCHANGED <<clock, low, store>>
  BY RiskAssumption DEF SendOrder, Inv, TypeOK, store
<1>1. CASE Con(k) \in Contracts
  <2>1. /\ o \in Order /\ o.side = "SELL" /\ o.key = k /\ o.risk /\ o.state = "working"
    BY <1>0 DEF NewOrder, Order
  <2>2. Route(t, o)
    BY <1>1 DEF SendOrder
  <2> HIDE DEF o
  <2> QED BY <1>0, <2>1, <2>2, RouteKeeps
<1>2. CASE Con(k) \notin Contracts
  <2>1. /\ orders' = orders /\ at' = [at EXCEPT ![t] = Idle]
        /\ chain' = NoChain \/ chain' = chain
    BY <1>2 DEF SendOrder, NoContract
  <2>2. TypeOK'
    BY <1>0, <2>1, IdleIsPlace, RiskAssumption DEF Inv, TypeOK, store, NoChain
  <2>3. OrdersInv'
    BY <1>0, <2>1, IdleIsPlace DEF Inv, OrdersInv
  <2>4. \A u \in Threads : \A l \in Thresholds : Past(u, l)' => Past(u, l)
    BY <1>0, <2>1, IdleIsPlace DEF Past
  <2>5. MarksInv'
    BY <1>0, <2>4 DEF Inv, MarksInv, store, Threads
  <2>6. StoreFollowsPortfolio'
    BY <1>0 DEF Inv, StoreFollowsPortfolio, store
  <2>7. \A l \in Thresholds : Sending(l) => Sending(l)' \/ l = k
    BY <1>0, <2>1 DEF Sending
  <2>8. PendingHasSale'
    BY <1>0, <1>2, <2>1, <2>7 DEF Inv, PendingHasSale, store
  <2> QED BY <2>2, <2>3, <2>5, <2>6, <2>8 DEF Inv
<1> QED BY <1>1, <1>2

LEMMA RebalanceKeeps ==
  ASSUME Inv, NEW k \in Keys, NEW side \in {"BUY", "SELL"}, AuthorizeRebalance(k, side, 1)
  PROVE  Inv'
<1> DEFINE o == NewOrder(k, side, 1, FALSE)
<1>1. o \in Order /\ o.quantity = 1
  BY DEF NewOrder, Order
<1>2. Route("feed", o) /\ UNCHANGED <<clock, low, store>> /\ at["feed"].step = "idle"
  BY DEF AuthorizeRebalance, store
<1> HIDE DEF o
<1> QED BY <1>1, <1>2, RouteKeeps DEF Threads

LEMMA TrackKeeps == ASSUME Inv, NEW t \in Threads, TrackOrder(t) PROVE Inv'
<1> DEFINE i == at[t].order
<1>0. /\ at \in [Threads -> Place] /\ at[t].step = "track" /\ i \in DOMAIN orders
      /\ orders \in Seq(Order)
      /\ orders' = [orders EXCEPT ![i].hooked = TRUE]
      /\ at' = [at EXCEPT ![t] = Idle]
      /\ UNCHANGED <<clock, low, store, chain>>
  BY DEF TrackOrder, Inv, TypeOK, OrdersInv, store
<1> HIDE DEF i
<1>1. orders[i] \in Order
  BY <1>0
<1>2. [orders[i] EXCEPT !.hooked = TRUE] \in Order
  BY <1>1 DEF Order
<1>3. /\ orders' \in Seq(Order) /\ DOMAIN orders' = DOMAIN orders
      /\ \A j \in DOMAIN orders : /\ orders'[j].key = orders[j].key
                                  /\ orders'[j].risk = orders[j].risk
                                  /\ orders'[j].state = orders[j].state
                                  /\ orders'[j].side = orders[j].side
                                  /\ orders'[j].quantity = orders[j].quantity
  <2>1. orders' = [orders EXCEPT ![i] = [orders[i] EXCEPT !.hooked = TRUE]]
    BY <1>0
  <2>2. \A j \in DOMAIN orders : orders[j] \in Order
    BY <1>0
  <2> QED BY <1>0, <1>2, <2>1, <2>2 DEF Order
<1>4. TypeOK'
  BY <1>0, <1>3, IdleIsPlace DEF Inv, TypeOK, store
<1>5. OrdersInv'
  BY <1>0, <1>3, IdleIsPlace DEF Inv, OrdersInv
<1>6. \A u \in Threads : \A l \in Thresholds : Past(u, l)' => Past(u, l)
  BY <1>0, IdleIsPlace DEF Past
<1>7. MarksInv'
  BY <1>0, <1>6 DEF Inv, MarksInv, store, Threads
<1>8. StoreFollowsPortfolio'
  BY <1>0 DEF Inv, StoreFollowsPortfolio, store
<1>9. \A l \in Thresholds : (Sending(l) => Sending(l)') /\ (Unbooked(l) => Unbooked(l)')
  BY <1>0, <1>3 DEF Sending, Unbooked
<1>10. PendingHasSale'
  BY <1>0, <1>9 DEF Inv, PendingHasSale, Unbooked, store
<1> QED BY <1>4, <1>5, <1>7, <1>8, <1>10 DEF Inv

-----------------------------------------------------------------------------
(***************************************************************************)
(* The end of an order                                                     *)
(***************************************************************************)
\* What a booking may do to a key: nothing, arm it with the quantity held, close it, or
\* leave a position below zero.
Booked(k) ==
  /\ held' \in [Keys -> Int] /\ status' \in [Thresholds -> Status]
  /\ quantity' \in [Thresholds -> Int] /\ marks' \in [Thresholds -> Nat]
  /\ \A l \in Keys : l # k => held'[l] = held[l]
  /\ \A l \in Thresholds : l # k =>
       status'[l] = status[l] /\ quantity'[l] = quantity[l] /\ marks'[l] = marks[l]
  /\ k \in Thresholds =>
       \/ UNCHANGED store /\ held[k] <= 0
       \/ status'[k] = "MONITORING" /\ quantity'[k] = held'[k] /\ marks'[k] = 0 /\ held'[k] # 0
       \/ status'[k] = "LIQUIDATED" /\ marks'[k] = marks[k] /\ held'[k] = 0
       \/ UNCHANGED <<status, quantity, marks>> /\ held'[k] < 0

LEMMA ArmFact ==
  ASSUME TypeOK, NEW k, NEW q \in Int, Arm(k, q)
  PROVE  /\ status' \in [Thresholds -> Status] /\ quantity' \in [Thresholds -> Int]
         /\ marks' \in [Thresholds -> Nat]
         /\ \A l \in Thresholds : l # k =>
              status'[l] = status[l] /\ quantity'[l] = quantity[l] /\ marks'[l] = marks[l]
         /\ k \in Thresholds => status'[k] = "MONITORING" /\ quantity'[k] = q /\ marks'[k] = 0
<1>1. /\ status \in [Thresholds -> Status] /\ quantity \in [Thresholds -> Int]
      /\ marks \in [Thresholds -> Nat]
  BY DEF TypeOK
<1> QED BY <1>1 DEF Arm, Status

LEMMA BuyBooks ==
  ASSUME TypeOK, NEW k \in Keys, ProcessBuy(k, 1) PROVE Booked(k)
<1>0. /\ held \in [Keys -> Int] /\ held[k] \in Int
      /\ status \in [Thresholds -> Status] /\ quantity \in [Thresholds -> Int]
      /\ marks \in [Thresholds -> Nat]
  BY DEF TypeOK
<1>1. CASE held[k] # 0 /\ held[k] + 1 = 0
  BY <1>0, <1>1 DEF ProcessBuy, Booked, store
<1>2. CASE ~(held[k] # 0 /\ held[k] + 1 = 0)
  <2>1. held' = [held EXCEPT ![k] = held[k] + 1] /\ Arm(k, held[k] + 1)
    BY <1>2 DEF ProcessBuy
  <2>2. /\ held' \in [Keys -> Int] /\ held'[k] = held[k] + 1 /\ held'[k] # 0
        /\ \A l \in Keys : l # k => held'[l] = held[l]
    BY <1>0, <1>2, <2>1
  <2> QED BY <1>0, <2>1, <2>2, ArmFact DEF Booked
<1> QED BY <1>1, <1>2

LEMMA SellBooks ==
  ASSUME TypeOK, NEW k \in Keys, NEW q \in Int, ProcessSell(k, q) PROVE Booked(k)
<1> DEFINE rest == held[k] - q
<1>0. /\ held \in [Keys -> Int] /\ rest \in Int
      /\ status \in [Thresholds -> Status] /\ quantity \in [Thresholds -> Int]
      /\ marks \in [Thresholds -> Nat]
  BY DEF TypeOK
<1>1. CASE held[k] = 0
  BY <1>0, <1>1 DEF ProcessSell, Booked, store
<1>2. CASE held[k] # 0
  <2>1. /\ held' = [held EXCEPT ![k] = rest]
        /\ IF rest = 0 THEN Close(k)
           ELSE IF rest < 0 THEN UNCHANGED <<status, quantity, marks>>
           ELSE Arm(k, rest)
    BY <1>2, Zenon DEF ProcessSell
  <2> HIDE DEF rest
  <2>2. /\ held' \in [Keys -> Int] /\ held'[k] = rest
        /\ \A l \in Keys : l # k => held'[l] = held[l]
    BY <1>0, <2>1
  <2>3. CASE rest = 0
    BY <1>0, <2>1, <2>2, <2>3 DEF Close, Booked, Status
  <2>4. CASE rest < 0
    BY <1>0, <2>1, <2>2, <2>4 DEF Booked
  <2>5. CASE rest > 0
    <3>1. Arm(k, rest)
      BY <1>0, <2>1, <2>5
    <3> QED BY <1>0, <2>2, <2>5, <3>1, ArmFact DEF Booked
  <2> QED BY <1>0, <2>3, <2>4, <2>5
<1> QED BY <1>1, <1>2

\* The state of one order changes; where it is not booked the store is left alone.
LEMMA EndKeeps ==
  ASSUME Inv, NEW i \in DOMAIN orders, NEW s \in {"booked", "filled", "ended"},
         orders' = [orders EXCEPT ![i].state = s],
         UNCHANGED <<clock, low, at, chain>>,
         IF s = "booked" THEN Booked(orders[i].key) ELSE UNCHANGED store
  PROVE  Inv'
<1>0. orders \in Seq(Order) /\ orders[i] \in Order /\ orders[i].key \in Keys
      /\ Thresholds \subseteq Keys
  <2>1. orders \in Seq(Order) /\ orders[i] \in Order
    BY DEF Inv, TypeOK
  <2> QED BY <2>1, RiskAssumption DEF Order
<1>1. [orders[i] EXCEPT !.state = s] \in Order
  BY <1>0 DEF Order
<1>2. /\ orders' \in Seq(Order) /\ DOMAIN orders' = DOMAIN orders
      /\ \A j \in DOMAIN orders : /\ orders'[j].key = orders[j].key
                                  /\ orders'[j].risk = orders[j].risk
                                  /\ j # i => orders'[j].state = orders[j].state
                                  /\ orders'[j].side = orders[j].side
                                  /\ orders'[j].quantity = orders[j].quantity
      /\ orders'[i].state = s
  <2>1. orders' = [orders EXCEPT ![i] = [orders[i] EXCEPT !.state = s]]
    OBVIOUS
  <2>2. \A j \in DOMAIN orders : orders[j] \in Order
    BY <1>0
  <2> QED BY <1>0, <1>1, <2>1, <2>2 DEF Order
<1>3. OrdersInv'
  BY <1>2 DEF Inv, OrdersInv
<1>4. \A u \in Threads : \A l \in Thresholds : Past(u, l)' <=> Past(u, l)
  BY DEF Past
<1>5. \A l \in Thresholds : Sending(l)' <=> Sending(l)
  BY DEF Sending
<1>6. CASE s # "booked"
  <2>1. TypeOK'
    BY <1>2, <1>6 DEF Inv, TypeOK, store
  <2>2. MarksInv' /\ StoreFollowsPortfolio'
    BY <1>4, <1>6 DEF Inv, MarksInv, StoreFollowsPortfolio, store, Threads
  <2>3. \A l \in Thresholds : Unbooked(l) => Unbooked(l)'
    BY <1>2, <1>6 DEF Unbooked
  <2>4. PendingHasSale'
    BY <1>5, <1>6, <2>3 DEF Inv, PendingHasSale, Unbooked, store
  <2> QED BY <1>3, <2>1, <2>2, <2>4 DEF Inv
<1>7. CASE s = "booked"
  <2> PICK k : k = orders[i].key
    OBVIOUS
  <2>1. Booked(k) /\ k \in Keys
    BY <1>0, <1>7
  <2>2. TypeOK'
    BY <1>2, <2>1 DEF Inv, TypeOK, Booked
  <2>3. MarksInv'
    BY <1>4, <2>1 DEF Inv, MarksInv, Booked, store, Threads
  <2>4. held' \in [Keys -> Int] /\ held \in [Keys -> Int] /\ held[k] \in Int /\ held'[k] \in Int
    BY <2>1 DEF Inv, TypeOK, Booked
  <2>5. StoreFollowsPortfolio'
    BY <1>0, <2>1, <2>4 DEF Inv, StoreFollowsPortfolio, Booked, store
  <2>6. \A l \in Thresholds : l # k /\ Unbooked(l) => Unbooked(l)'
    BY <1>2 DEF Unbooked
  <2>7. \A l \in Thresholds : l # k /\ held'[l] > 0 /\ status'[l] = "PENDING" =>
          Sending(l)' \/ Unbooked(l)' \/ Con(l) \notin Contracts
    BY <1>0, <1>5, <2>1, <2>6 DEF Inv, PendingHasSale, Unbooked, Booked
  <2>8. k \in Thresholds => ~(held'[k] > 0 /\ status'[k] = "PENDING")
    BY <2>1, <2>4 DEF Booked, store
  <2>9. PendingHasSale'
    BY <2>7, <2>8 DEF PendingHasSale, Unbooked
  <2> QED BY <1>3, <2>2, <2>3, <2>5, <2>9 DEF Inv
<1> QED BY <1>6, <1>7

LEMMA FilledKeeps == ASSUME Inv, NEW i \in DOMAIN orders, FullyFilled(i) PROVE Inv'
<1>0. orders[i] \in Order /\ TypeOK
      /\ (orders[i].side = "BUY" => orders[i].quantity = 1)
  BY DEF Inv, TypeOK, OrdersInv
<1>1. CASE orders[i].hooked
  <2>1. /\ orders' = [orders EXCEPT ![i].state = "booked"]
        /\ UNCHANGED <<clock, low, at, chain>>
        /\ UpdatePortfolio(orders[i])
    BY <1>1 DEF FullyFilled
  <2>2. orders[i].key \in Keys /\ orders[i].quantity \in Int
    BY <1>0 DEF Order
  <2>3. Booked(orders[i].key)
    BY <1>0, <2>1, <2>2, BuyBooks, SellBooks DEF UpdatePortfolio
  <2> QED BY <2>1, <2>3, EndKeeps
<1>2. CASE ~orders[i].hooked
  <2>1. /\ orders' = [orders EXCEPT ![i].state = "filled"]
        /\ UNCHANGED <<clock, low, at, chain>> /\ UNCHANGED store
    BY <1>2 DEF FullyFilled, store
  <2> QED BY <2>1, EndKeeps
<1> QED BY <1>1, <1>2

LEMMA EndedKeeps == ASSUME Inv, NEW i \in DOMAIN orders, Ended(i) PROVE Inv'
<1>1. /\ orders' = [orders EXCEPT ![i].state = "ended"]
      /\ UNCHANGED <<clock, low, at, chain>> /\ UNCHANGED store
  BY DEF Ended, store
<1> QED BY <1>1, EndKeeps

-----------------------------------------------------------------------------
LEMMA StutterKeeps == ASSUME Inv, UNCHANGED vars PROVE Inv'
BY DEF vars, Inv, TypeOK, OrdersInv, MarksInv, Past, StoreFollowsPortfolio, PendingHasSale,
       Sending

LEMMA NextKeeps == Inv /\ [Next]_vars => Inv'
<1> SUFFICES ASSUME Inv, [Next]_vars PROVE Inv'
  OBVIOUS
<1>1. CASE ClockTurns
  BY <1>1, ClockKeeps
<1>2. CASE \E k \in Thresholds : PriceMoves(k)
  BY <1>2, PriceKeeps
<1>3. CASE Callbacks
  BY <1>3, CallbacksKeep
<1>4. CASE \E k \in Thresholds : HandleSignal(k)
  BY <1>4, SignalKeeps
<1>5. CASE \E t \in Threads : Trigger(t)
  BY <1>5, CheckKeeps, MarkKeeps, SendKeeps, TrackKeeps DEF Trigger
<1>6. CASE \E k \in Keys : \E side \in {"BUY", "SELL"} : AuthorizeRebalance(k, side, 1)
  BY <1>6, RebalanceKeeps
<1>7. CASE \E i \in DOMAIN orders : FullyFilled(i)
  BY <1>7, FilledKeeps
<1>8. CASE \E i \in DOMAIN orders : Ended(i)
  BY <1>8, EndedKeeps
<1>9. CASE UNCHANGED vars
  BY <1>9, StutterKeeps
<1> QED BY <1>1, <1>2, <1>3, <1>4, <1>5, <1>6, <1>7, <1>8, <1>9 DEF Next

\* The invariant of which the theorems below are parts.
LEMMA Invariant == Spec => []Inv
BY InitInv, NextKeeps, PTL DEF Spec

\* Type correctness.
THEOREM TypeCorrect == Spec => []TypeOK
<1>1. Inv => TypeOK
  BY DEF Inv
<1> QED BY <1>1, Invariant, PTL

LEMMA ThreadsAreTwo == Cardinality(Threads) = 2
<1>1. IsFiniteSet({"loop"}) /\ Cardinality({"loop"}) = 1
  BY FS_Singleton
<1>2. Cardinality({"loop"} \cup {"feed"}) = Cardinality({"loop"}) + 1
  BY <1>1, FS_AddElement
<1>3. Threads = {"loop"} \cup {"feed"}
  BY DEF Threads
<1> QED BY <1>1, <1>2, <1>3

\* A position armed once is marked, and so sold, at most twice.
THEOREM SoldAtMostTwice == Spec => []TwoSellsPerArming
<1>1. Inv => TwoSellsPerArming
  BY ThreadsAreTwo DEF Inv, MarksInv, TwoSellsPerArming
<1> QED BY <1>1, Invariant, PTL

\* The store of the monitor follows the positions of the portfolio.
THEOREM StoreFollows == Spec => []StoreFollowsPortfolio
<1>1. Inv => StoreFollowsPortfolio
  BY DEF Inv
<1> QED BY <1>1, Invariant, PTL

\* A held position waits in PENDING only for a sale that has not been booked.
THEOREM PendingIsAccounted == Spec => []PendingHasSale
<1>1. Inv => PendingHasSale
  BY DEF Inv
<1> QED BY <1>1, Invariant, PTL
=============================================================================
