----------------------------- MODULE RiskMonitor -----------------------------
(***************************************************************************)
(* The stop-loss monitor of the trading sessions: RiskManager and its      *)
(* StopLossStore (trading/risk_manager.py, models/risk.py), the positions  *)
(* of PortfolioManager they follow and the path of their SELL orders.      *)
(*                                                                         *)
(* Two threads reach _trigger_execution, and nothing locks the store.  The *)
(* main loop runs the callbacks of TickerManager, two per session, and     *)
(* triggers on the price outside market hours; runtime_loop (here "feed")  *)
(* brings the signals of the STOP_LOSS model during market hours.  The     *)
(* clock is a third thread.  The reports of the broker are handled by the  *)
(* main loop between two chains of callbacks; OrderLifecycle follows them  *)
(* one by one, here an order is filled and reported in full or ended.      *)
(*                                                                         *)
(* A key is a portfolio and an instrument.                                 *)
(***************************************************************************)
EXTENDS Integers, Sequences, FiniteSets

CONSTANTS
  Sessions,      \* the portfolios, in the order in which their callbacks were subscribed
  Keys,          \* the <<portfolio, con_id>> that are held or traded
  Thresholds,    \* the keys with a row in portfolio_thresholds
  Tickers,       \* the instruments with a market data line
  Contracts,     \* the instruments with a contract
  Snapshots,     \* what the database may hold at the start: functions from Keys to Nat
  Phases,        \* the phases the clock runs through, in order
  MaxOrders      \* bound: orders of a session, of the monitor and of the rebalance

ASSUME RiskAssumption ==
  /\ Keys # {} /\ Thresholds \subseteq Keys
  /\ Snapshots \subseteq [Keys -> Nat]
  /\ Phases \in Seq({"pre", "open", "post", "closed"}) /\ Len(Phases) > 0
  /\ MaxOrders \in Nat
  /\ Sessions \in Seq({k[1] : k \in Keys})

VARIABLES
  clock,         \* index into Phases
  low,           \* keys of Thresholds whose last price is at or below threshold_abs
  held,          \* Portfolio.positions: the quantity, 0 when there is no position
  status,        \* MonitoredPosition.status, by key of Thresholds
  quantity,      \* MonitoredPosition.quantity
  marks,         \* history: on_order_sent since the position was armed last
  orders,        \* the orders routed so far
  at,            \* where each thread is in _trigger_execution
  chain          \* where the main loop is in TickerManager._on_ticker_update

vars == <<clock, low, held, status, quantity, marks, orders, at, chain>>

Threads == {"loop", "feed"}
Steps == {"idle", "trigger", "mark", "send", "track"}
Status == {"INACTIVE", "MONITORING", "PENDING", "LIQUIDATED"}
Order == [key : Keys, side : {"BUY", "SELL"}, quantity : Int, risk : BOOLEAN,
          hooked : BOOLEAN, state : {"working", "filled", "booked", "ended"}]
Place == [step : Steps, key : Keys, order : Nat]
Con(k) == k[2]
SomeKey == CHOOSE k \in Keys : TRUE

NoChain == [do |-> "idle", session |-> 0, left |-> {}]
Idle == [step |-> "idle", key |-> SomeKey, order |-> 0]

TypeOK ==
  /\ clock \in DOMAIN Phases
  /\ low \subseteq Thresholds
  /\ held \in [Keys -> Int]
  /\ status \in [Thresholds -> Status]
  /\ quantity \in [Thresholds -> Int]
  /\ marks \in [Thresholds -> Nat]
  /\ orders \in Seq(Order)
  /\ at \in [Threads -> Place]
  /\ \A t \in Threads : at[t].step \in {"trigger", "mark", "send"} => at[t].key \in Thresholds
  /\ chain \in [do : {"idle", "refresh", "list", "price"}, session : 0..Len(Sessions),
               left : SUBSET Thresholds]
  /\ chain.do # "idle" => chain.session > 0

\* load_portfolio_state, load_thresholds, sync_existing_positions.
Init ==
  /\ clock = 1
  /\ low = {}
  /\ held \in Snapshots
  /\ status = [k \in Thresholds |-> IF held[k] > 0 THEN "MONITORING" ELSE "INACTIVE"]
  /\ quantity = [k \in Thresholds |-> held[k]]
  /\ marks = [k \in Thresholds |-> 0]
  /\ orders = <<>>
  /\ at = [t \in Threads |-> Idle]
  /\ chain = NoChain

Phase == Phases[clock]
ExtendedHours == Phase \in {"pre", "post"}
IsMonitoring(k) == k \in Thresholds /\ status[k] = "MONITORING"

-----------------------------------------------------------------------------
(***************************************************************************)
(* The surroundings: the clock thread and the prices                       *)
(***************************************************************************)
ClockTurns ==
  /\ clock < Len(Phases)
  /\ clock' = clock + 1
  /\ UNCHANGED <<low, held, status, quantity, marks, orders, at, chain>>

PriceMoves(k) ==
  /\ Con(k) \in Tickers
  /\ low' = IF k \in low THEN low \ {k} ELSE low \cup {k}
  /\ UNCHANGED <<clock, held, status, quantity, marks, orders, at, chain>>

-----------------------------------------------------------------------------
(***************************************************************************)
(* The callbacks of TickerManager on the main loop                         *)
(***************************************************************************)
LoopIsFree == at["loop"].step = "idle"

ChainStep(next) ==
  /\ chain' = next
  /\ UNCHANGED <<clock, low, held, status, quantity, marks, orders>>

Begin(do, i) == [do |-> do, session |-> i, left |-> {}]

AfterSession(i) == IF i < Len(Sessions) THEN Begin("refresh", i + 1) ELSE NoChain

\* _on_ticker_update, when the refresh interval is over.
OnTickerUpdate ==
  /\ LoopIsFree
  /\ chain = NoChain
  /\ Len(Sessions) > 0
  /\ ChainStep(Begin("refresh", 1))
  /\ UNCHANGED at

\* get_ticker raises for a position without a market data line: no later callback runs.
HasAllTickers(p) == \A k \in Keys : k[1] = p /\ held[k] # 0 => Con(k) \in Tickers

\* Mutant: the callback of RiskManager is not subscribed.
RefreshOnly ==
  /\ LoopIsFree
  /\ chain.do = "refresh"
  /\ ChainStep(IF HasAllTickers(Sessions[chain.session])
               THEN AfterSession(chain.session)
               ELSE NoChain)
  /\ UNCHANGED at

RefreshPortfolio ==
  /\ LoopIsFree
  /\ chain.do = "refresh"
  /\ ChainStep(IF HasAllTickers(Sessions[chain.session])
               THEN Begin("list", chain.session)
               ELSE NoChain)
  /\ UNCHANGED at

\* _on_price_update, the list of all_monitoring().
ListMonitoring ==
  /\ LoopIsFree
  /\ chain.do = "list"
  /\ ChainStep([do |-> "price", session |-> chain.session,
                left |-> {k \in Thresholds : k[1] = Sessions[chain.session] /\ IsMonitoring(k)}])
  /\ UNCHANGED at

\* _evaluate_position for one of them.
EvaluatePosition(k) ==
  /\ LoopIsFree
  /\ chain.do = "price"
  /\ k \in chain.left
  /\ IF Con(k) \in Tickers
     THEN /\ ChainStep([do |-> "price", session |-> chain.session, left |-> chain.left \ {k}])
          /\ at' = IF ExtendedHours /\ k \in low
                   THEN [at EXCEPT !["loop"] = [step |-> "trigger", key |-> k, order |-> 0]]
                   ELSE at
     ELSE /\ ChainStep(NoChain)
          /\ UNCHANGED at

EndSession ==
  /\ LoopIsFree
  /\ chain.do = "price"
  /\ chain.left = {}
  /\ ChainStep(AfterSession(chain.session))
  /\ UNCHANGED at

-----------------------------------------------------------------------------
(***************************************************************************)
(* _trigger_execution, on either thread                                    *)
(***************************************************************************)
\* _handle_signal of a STOP_LOSS model: it acts while the market is open.
HandleSignal(k) ==
  /\ at["feed"].step = "idle"
  /\ Phase = "open"
  /\ k \in Thresholds
  /\ at' = [at EXCEPT !["feed"] = [step |-> "trigger", key |-> k, order |-> 0]]
  /\ UNCHANGED <<clock, low, held, status, quantity, marks, orders, chain>>

\* Mutant: a position sent already is sent again.
CheckWatched(t) ==
  LET k == at[t].key
  IN /\ at[t].step = "trigger"
     /\ at' = [at EXCEPT ![t] = IF status[k] \in {"MONITORING", "PENDING"}
                                THEN [step |-> "mark", key |-> k, order |-> 0]
                                ELSE Idle]
     /\ UNCHANGED <<clock, low, held, status, quantity, marks, orders, chain>>

CheckMonitoring(t) ==
  LET k == at[t].key
  IN /\ at[t].step = "trigger"
     /\ at' = [at EXCEPT ![t] = IF IsMonitoring(k)
                                THEN [step |-> "mark", key |-> k, order |-> 0]
                                ELSE Idle]
     /\ UNCHANGED <<clock, low, held, status, quantity, marks, orders, chain>>

\* on_order_sent
MarkPending(t) ==
  LET k == at[t].key
  IN /\ at[t].step = "mark"
     /\ status' = [status EXCEPT ![k] = "PENDING"]
     /\ marks' = [marks EXCEPT ![k] = @ + 1]
     /\ at' = [at EXCEPT ![t] = [step |-> "send", key |-> k, order |-> 0]]
     /\ UNCHANGED <<clock, low, held, quantity, orders, chain>>

NewOrder(k, side, q, risk) ==
  [key |-> k, side |-> side, quantity |-> q, risk |-> risk, hooked |-> FALSE,
   state |-> "working"]

\* route_order, then the message order_tracking, a step later.
Route(t, o) ==
  /\ orders' = Append(orders, o)
  /\ at' = [at EXCEPT ![t] = [step |-> "track", key |-> o.key, order |-> Len(orders) + 1]]
  /\ UNCHANGED chain

\* _create_tracker raises without a contract: on the main loop the callbacks end.
NoContract(t) ==
  /\ UNCHANGED orders
  /\ at' = [at EXCEPT ![t] = Idle]
  /\ chain' = IF t = "loop" THEN NoChain ELSE chain

SendOrder(t) ==
  LET k == at[t].key
  IN /\ at[t].step = "send"
     /\ Len(orders) < MaxOrders
     /\ IF Con(k) \in Contracts
        THEN Route(t, NewOrder(k, "SELL", quantity[k], TRUE))
        ELSE NoContract(t)
     /\ UNCHANGED <<clock, low, held, status, quantity, marks>>

\* _handle_order_tracking sets the hook on_fully_filled.
TrackOrder(t) ==
  LET i == at[t].order
  IN /\ at[t].step = "track"
     /\ orders' = [orders EXCEPT ![i].hooked = TRUE]
     /\ at' = [at EXCEPT ![t] = Idle]
     /\ UNCHANGED <<clock, low, held, status, quantity, marks, chain>>

\* _process_authorization of an order of the rebalance, when its model agrees.
AuthorizeRebalance(k, side, q) ==
  /\ at["feed"].step = "idle"
  /\ Phase = "open"
  /\ Len(orders) < MaxOrders
  /\ Con(k) \in Contracts
  /\ Route("feed", NewOrder(k, side, q, FALSE))
  /\ UNCHANGED <<clock, low, held, status, quantity, marks>>

-----------------------------------------------------------------------------
(***************************************************************************)
(* The end of an order                                                     *)
(***************************************************************************)
\* Mutant: an update leaves a position that is being sold as it is.
ArmUnlessPending(k, q) ==
  IF k \in Thresholds
  THEN /\ status' = [status EXCEPT ![k] = IF @ = "PENDING" THEN @ ELSE "MONITORING"]
       /\ quantity' = [quantity EXCEPT ![k] = q]
       /\ marks' = [marks EXCEPT ![k] = 0]
  ELSE UNCHANGED <<status, quantity, marks>>

\* on_fill_updated
Arm(k, q) ==
  IF k \in Thresholds
  THEN /\ status' = [status EXCEPT ![k] = "MONITORING"]
       /\ quantity' = [quantity EXCEPT ![k] = q]
       /\ marks' = [marks EXCEPT ![k] = 0]
  ELSE UNCHANGED <<status, quantity, marks>>

\* on_closed
Close(k) ==
  /\ status' = IF k \in Thresholds THEN [status EXCEPT ![k] = "LIQUIDATED"] ELSE status
  /\ UNCHANGED <<quantity, marks>>

\* _process_buy divides by the new quantity when there is a position.
ProcessBuy(k, q) ==
  IF held[k] # 0 /\ held[k] + q = 0
  THEN UNCHANGED <<held, status, quantity, marks>>
  ELSE /\ held' = [held EXCEPT ![k] = @ + q]
       /\ Arm(k, held[k] + q)

\* Mutant: the monitor hears of a sale only when the position is closed.
ProcessSellSilently(k, q) ==
  LET rest == held[k] - q
  IN IF held[k] = 0
     THEN UNCHANGED <<held, status, quantity, marks>>
     ELSE /\ held' = [held EXCEPT ![k] = rest]
          /\ IF rest = 0 THEN Close(k) ELSE UNCHANGED <<status, quantity, marks>>

\* _process_sell subtracts first and raises when the result is negative.
ProcessSell(k, q) ==
  LET rest == held[k] - q
  IN IF held[k] = 0
     THEN UNCHANGED <<held, status, quantity, marks>>
     ELSE /\ held' = [held EXCEPT ![k] = rest]
          /\ IF rest = 0 THEN Close(k)
             ELSE IF rest < 0 THEN UNCHANGED <<status, quantity, marks>>
             ELSE Arm(k, rest)

\* _update_portfolio_after_fully_filled
UpdatePortfolio(o) ==
  IF o.side = "BUY" THEN ProcessBuy(o.key, o.quantity) ELSE ProcessSell(o.key, o.quantity)

MainLoopHandles == LoopIsFree /\ chain = NoChain

\* The last fill and commission report; without the hook the portfolio does not hear of it.
FullyFilled(i) ==
  LET o == orders[i]
  IN /\ MainLoopHandles
     /\ o.state = "working"
     /\ orders' = [orders EXCEPT ![i].state = IF o.hooked THEN "booked" ELSE "filled"]
     /\ IF o.hooked THEN UpdatePortfolio(o) ELSE UNCHANGED <<held, status, quantity, marks>>
     /\ UNCHANGED <<clock, low, at, chain>>

\* Cancelled or rejected: OrderState changes, and no one is told.
Ended(i) ==
  /\ MainLoopHandles
  /\ orders[i].state = "working"
  /\ orders' = [orders EXCEPT ![i].state = "ended"]
  /\ UNCHANGED <<clock, low, held, status, quantity, marks, at, chain>>

-----------------------------------------------------------------------------
Callbacks ==
  \/ OnTickerUpdate
  \/ RefreshPortfolio
  \/ ListMonitoring
  \/ \E k \in Thresholds : EvaluatePosition(k)
  \/ EndSession

Trigger(t) == CheckMonitoring(t) \/ MarkPending(t) \/ SendOrder(t) \/ TrackOrder(t)

Next ==
  \/ ClockTurns
  \/ \E k \in Thresholds : PriceMoves(k)
  \/ Callbacks
  \/ \E k \in Thresholds : HandleSignal(k)
  \/ \E t \in Threads : Trigger(t)
  \/ \E k \in Keys : \E side \in {"BUY", "SELL"} : AuthorizeRebalance(k, side, 1)
  \/ \E i \in DOMAIN orders : FullyFilled(i)
  \/ \E i \in DOMAIN orders : Ended(i)

Spec == Init /\ [][Next]_vars

\* Prices keep coming, and the event loop runs what is scheduled.
FairSpec == Spec /\ WF_vars(Callbacks) /\ WF_vars(Trigger("loop"))

-----------------------------------------------------------------------------
(***************************************************************************)
(* Properties                                                              *)
(***************************************************************************)
\* _trigger_execution tests the status and sets it without a lock.  However the threads,
\* the clock and the bookings interleave, a position that was armed once is marked, and
\* so sold, at most once by each thread.
TwoSellsPerArming == \A k \in Thresholds : marks[k] <= Cardinality(Threads)

\* The store follows the portfolio through the messages of its bookings: a position that is
\* held has its quantity in the store and is watched or being sold, and one that is closed
\* is not watched.  A stale check may leave a closed one PENDING.  What the store says of a
\* position sold below zero is not said here: _process_sell raises before it sends.
StoreFollowsPortfolio ==
  \A k \in Thresholds :
    /\ held[k] > 0 => quantity[k] = held[k] /\ status[k] \in {"MONITORING", "PENDING"}
    /\ held[k] = 0 => status[k] # "MONITORING"

\* A position held is left PENDING only with a SELL of the monitor behind it that is on its
\* way, was ended by the broker, or was filled before its hook was set, or when it has no
\* contract: every other end of an order arms or closes it.
Sending(k) == \E t \in Threads : at[t].step = "send" /\ at[t].key = k
PendingHasSale ==
  \A k \in Thresholds :
    held[k] > 0 /\ status[k] = "PENDING" =>
      \/ Sending(k)
      \/ \E i \in DOMAIN orders : orders[i].key = k /\ orders[i].risk /\ orders[i].state # "booked"
      \/ Con(k) \notin Contracts

\* The callbacks of the sessions up to the one of portfolio p all run.
Reached(p) ==
  \E i \in DOMAIN Sessions :
    Sessions[i] = p /\ \A j \in 1..i : HasAllTickers(Sessions[j])

\* Outside market hours a watched position whose price has fallen to its threshold is sold,
\* unless the price recovers or the hours end, or a position of its session or of an earlier
\* one has no market data line.
BreachedIsSold ==
  \A k \in Thresholds :
    (IsMonitoring(k) /\ k \in low /\ ExtendedHours)
      ~> (~IsMonitoring(k) \/ k \notin low \/ ~ExtendedHours \/ ~Reached(k[1])
            \/ Len(orders) = MaxOrders)
=============================================================================
