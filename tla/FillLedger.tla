----------------------------- MODULE FillLedger -----------------------------
(***************************************************************************)
(* What the executions of one portfolio become in the database             *)
(* (db/writer.py): FIFO lots and their consumption, the position, the      *)
(* ledger and the portfolio's cash balance.                                *)
(*                                                                         *)
(* IBKRGateway delivers executions and commission reports on the main loop *)
(* to OrderState (models/order.py), which hands each to one transaction of *)
(* the writer (UnitOfWork in db/connector.py): a transaction that raises   *)
(* is rolled back, and _wrap_event drops the exception.  After a crash the *)
(* fills of the day are replayed, trade by trade; the commission reports   *)
(* are not, and the trackers rebuilt for the replay have no hook that      *)
(* would refresh the balance.                                              *)
(*                                                                         *)
(* Executions are numbered in the order of the broker, which never sells   *)
(* short.  Their identifiers sort as text, which is another order: rank.   *)
(* Amounts are whole numbers; rounding to four decimals is left out.       *)
(***************************************************************************)
EXTENDS Integers, Sequences, FiniteSets, Functions

CONSTANTS
  N,             \* number of executions at the broker
  Days,          \* what the broker may execute: functions from Execs to Fill
  Orders,        \* the orders of the portfolio
  Totals,        \* [Orders -> Nat]: OrderRequest.quantity
  Cons,          \* the instruments
  Capital,       \* amounts of the capital events that may be registered, < 0 a withdrawal
  MaxEvents,     \* bound: capital events
  MaxRestarts    \* bound: crashes of the process, each followed by a recovery

Execs == 1..N
Fill == [order : Orders, con : Cons, side : {"BOT", "SLD"}, shares : Nat, price : Nat,
         time : Nat, rank : Nat, commission : Nat]

ASSUME LedgerAssumption ==
  /\ N \in Nat
  /\ Days \subseteq [Execs -> Fill]
  /\ Totals \in [Orders -> Nat]
  /\ Capital \subseteq Int
  /\ MaxEvents \in Nat
  /\ MaxRestarts \in Nat

\* What the account holds of c after the first n executions of the day d.
Held(d, c, n) ==
  SumFunction([e \in {f \in 1..n : d[f].con = c} |->
                 IF d[e].side = "BOT" THEN d[e].shares ELSE - d[e].shares])

\* The broker stamps the executions as they happen and never sells short.
ASSUME BrokerAssumption ==
  \A d \in Days :
    /\ \A e, f \in Execs : e < f => d[e].time <= d[f].time
    /\ \A c \in Cons, n \in Execs : Held(d, c, n) >= 0

VARIABLES
  \* the broker and the wire, external
  report,        \* the executions of the day, fixed
  delivered,     \* executions 1..delivered have been handed to a running process
  inflight,      \* executions the commission report of which is still to come
  toReplay,      \* the fills the recovery has not replayed yet
  restarts,
  lost,          \* history: executions the commission report of which met no process or no row
  refused,       \* history: executions the database refused when they were offered last
  \* the trackers
  fills,         \* fills_count
  comms,         \* commissions_count
  hooked,        \* orders the on_fully_filled hook of which is set
  held,          \* Portfolio.positions: the quantity in memory, 0 without an entry
  \* trading.executions, trade_lots, trade_lot_consumption, positions, portfolio_ledger,
  \* portfolio_capital and portfolio_balances
  executions, lots, consumption, positions, ledger, capital, balances

wire == <<report, delivered, inflight, toReplay, restarts, lost>>
trackers == <<fills, comms, hooked, held>>
books == <<executions, lots, consumption, positions, ledger>>
cash == <<capital, balances>>
vars == <<wire, refused, trackers, books, cash>>

Entry == [exec : Execs, type : {"TRADE_DEBIT", "TRADE_CREDIT", "REALIZED_PNL", "COMMISSION"},
          amount : Int]
Balance == [total_cash_balance : Int, realized_pnl : Int, total_commissions : Int]
NoBalance == [total_cash_balance |-> 0, realized_pnl |-> 0, total_commissions |-> 0]

TypeOK ==
  /\ report \in Days
  /\ delivered \in 0..N
  /\ inflight \subseteq Execs /\ toReplay \subseteq Execs
  /\ lost \subseteq Execs /\ refused \subseteq Execs
  /\ restarts \in 0..MaxRestarts
  /\ fills \in [Orders -> Nat] /\ comms \in [Orders -> Nat]
  /\ hooked \subseteq Orders
  /\ held \in [Cons -> Int]
  /\ executions \subseteq Execs
  /\ lots \in Seq([exec : Execs, open : Nat, closed : Nat])
  /\ consumption \subseteq [lot : Nat, sell : Execs, quantity : Nat, realized_pnl : Int]
  /\ positions \in [Cons -> [quantity : Nat, cost : Nat, bought : Nat]]
  /\ ledger \subseteq Entry
  /\ capital \in Seq(Capital)
  /\ balances \in Balance

NoPosition == [quantity |-> 0, cost |-> 0, bought |-> 0]
NoReports == [o \in Orders |-> 0]

Init ==
  /\ report \in Days
  /\ delivered = 0
  /\ inflight = {} /\ toReplay = {} /\ lost = {} /\ refused = {}
  /\ restarts = 0
  /\ fills = NoReports /\ comms = NoReports
  /\ hooked = Orders
  /\ held = [c \in Cons |-> 0]
  /\ executions = {}
  /\ lots = <<>>
  /\ consumption = {}
  /\ positions = [c \in Cons |-> NoPosition]
  /\ ledger = {}
  /\ capital = <<>>
  /\ balances = NoBalance

-----------------------------------------------------------------------------
(***************************************************************************)
(* The lots                                                                *)
(***************************************************************************)
Con(e) == report[e].con
Bought(e) == report[e].side = "BOT"
Signed(e) == IF Bought(e) THEN report[e].shares ELSE - report[e].shares
OfCon(S, c) == {e \in S : Con(e) = c}

LotsOf(c) == {i \in DOMAIN lots : Con(lots[i].exec) = c}

\* _select_open_lots and the sum over it.
OpenQuantity(c) == SumFunction([i \in LotsOf(c) |-> lots[i].open])

\* What they have before lot i.
OpenBefore(c, i) == SumFunction([j \in {k \in LotsOf(c) : k < i} |-> lots[j].open])

AtMost(a, b) == IF a < b THEN a ELSE b
Above(a, b) == IF a > b THEN a ELSE b

\* The loop of _handle_sell in closed form: what the sale e takes from lot i when the lots
\* before it, in order of id, have been used up first.
Consumed(e, i) ==
  IF i \notin LotsOf(Con(e)) THEN 0
  ELSE AtMost(lots[i].open, Above(report[e].shares - OpenBefore(Con(e), i), 0))

\* Mutant: the profit of the whole lot is realised.
ConsumptionOfLots(e) ==
  {[lot |-> i, sell |-> e, quantity |-> Consumed(e, i),
    realized_pnl |-> (report[e].price - report[lots[i].exec].price) * lots[i].open] :
      i \in {j \in DOMAIN lots : Consumed(e, j) > 0}}

\* _insert_lot_consumption, one row per lot touched.
Consumption(e) ==
  {[lot |-> i, sell |-> e, quantity |-> Consumed(e, i),
    realized_pnl |-> (report[e].price - report[lots[i].exec].price) * Consumed(e, i)] :
      i \in {j \in DOMAIN lots : Consumed(e, j) > 0}}

HandleBuy(e) ==
  /\ lots' = Append(lots, [exec |-> e, open |-> report[e].shares, closed |-> 0])
  /\ UNCHANGED consumption

\* _update_lot_quantities for every lot touched.
HandleSell(e) ==
  /\ lots' = [i \in DOMAIN lots |->
                [exec |-> lots[i].exec,
                 open |-> lots[i].open - Consumed(e, i),
                 closed |-> lots[i].closed + Consumed(e, i)]]
  /\ consumption' = consumption \cup Consumption(e)

UpdateLots(e) == IF Bought(e) THEN HandleBuy(e) ELSE HandleSell(e)

-----------------------------------------------------------------------------
(***************************************************************************)
(* The position is computed anew from all executions of the instrument, in *)
(* the order of execution_time and then of exec_id.  The average cost of a *)
(* row is cost / bought, over every share ever bought.                     *)
(***************************************************************************)
SortsUpTo(d, e) ==
  \/ report[d].time < report[e].time
  \/ report[d].time = report[e].time /\ report[d].rank <= report[e].rank

Net(S) == SumFunction([e \in S |-> Signed(e)])

\* net_qty is negative after one of the sales.
GoesShort(S) ==
  \E e \in S : ~Bought(e) /\ Net({d \in S : SortsUpTo(d, e)}) < 0

PositionRow(S) ==
  LET buys == {e \in S : Bought(e)}
  IN IF Net(S) > 0
     THEN [quantity |-> Net(S),
           cost     |-> SumFunction([e \in buys |-> report[e].shares * report[e].price]),
           bought   |-> SumFunction([e \in buys |-> report[e].shares])]
     ELSE NoPosition

InsertPosition(e) ==
  positions' = [positions EXCEPT ![Con(e)] = PositionRow(OfCon(executions \cup {e}, Con(e)))]

-----------------------------------------------------------------------------
(***************************************************************************)
(* The ledger and the balance                                              *)
(***************************************************************************)
Amount(type, rows) == SumFunction([r \in {x \in rows : x.type = type} |-> r.amount])

\* _get_realized_pnl_from_fifo
RealizedPnl(e, rows) == SumFunction([r \in {x \in rows : x.sell = e} |-> r.realized_pnl])

\* _build_ledger_entries; update_portfolio_ledger skips a commission of zero.
LedgerEntries(e, commission, rows) ==
  LET entry(type, amount) == [exec |-> e, type |-> type, amount |-> amount]
      value == report[e].shares * report[e].price
      pnl == RealizedPnl(e, rows)
  IN (IF Bought(e)
      THEN {entry("TRADE_DEBIT", value)}
      ELSE {entry("TRADE_CREDIT", value)}
             \cup (IF pnl # 0 THEN {entry("REALIZED_PNL", pnl)} ELSE {}))
     \cup (IF commission # 0 THEN {entry("COMMISSION", commission)} ELSE {})

\* Mutant: ON CONFLICT (exec_id) DO NOTHING
UpdateLedgerOnce(new) ==
  ledger' = ledger \cup {n \in new : ~ \E r \in ledger : r.exec = n.exec}

\* INSERT ... ON CONFLICT (exec_id, type) DO NOTHING
UpdatePortfolioLedger(new) ==
  ledger' = ledger \cup {n \in new : ~ \E r \in ledger : r.exec = n.exec /\ r.type = n.type}

\* The row update_portfolio_balances computes from the capital and the ledger.
ComputedBalance(events, rows) ==
  [total_cash_balance |->
     SumFunction(events)
       + Amount("TRADE_CREDIT", rows) - Amount("TRADE_DEBIT", rows) - Amount("COMMISSION", rows),
   realized_pnl |-> Amount("REALIZED_PNL", rows),
   total_commissions |-> Amount("COMMISSION", rows)]

UpdatePortfolioBalances == balances' = ComputedBalance(capital', ledger')

\* AccountService.register_capital_event: insert_capital_event, then the balance.
RegisterCapitalEvent(amount) ==
  /\ Len(capital) < MaxEvents
  /\ capital' = Append(capital, amount)
  /\ UNCHANGED <<wire, refused, trackers, books>>
  /\ UpdatePortfolioBalances

-----------------------------------------------------------------------------
(***************************************************************************)
(* update_fill_in_db: one transaction                                      *)
(***************************************************************************)
\* Mutant: a sale of everything is refused.
AcceptsLess(e) ==
  /\ Bought(e) \/ report[e].shares < OpenQuantity(Con(e))
  /\ ~GoesShort(OfCon(executions \cup {e}, Con(e)))

\* Neither _handle_sell nor _insert_position raises.
Accepts(e) ==
  /\ Bought(e) \/ report[e].shares <= OpenQuantity(Con(e))
  /\ ~GoesShort(OfCon(executions \cup {e}, Con(e)))

UpdateFill(e, commission) ==
  /\ executions' = executions \cup {e}
  /\ UpdateLots(e)
  /\ InsertPosition(e)
  /\ UpdatePortfolioLedger(LedgerEntries(e, commission, consumption'))
  /\ refused' = refused \ {e}

RolledBack(e) ==
  /\ refused' = refused \cup {e}
  /\ UNCHANGED books

\* Mutant: the lots are updated whether the execution is new or not.
OfferFillAgain(e, commission) ==
  IF Accepts(e) THEN UpdateFill(e, commission) ELSE RolledBack(e)

\* insert_execution meets ON CONFLICT (exec_id) DO NOTHING when the execution is known.
OfferFill(e, commission) ==
  IF e \in executions THEN UNCHANGED <<books, refused>>
  ELSE IF Accepts(e) THEN UpdateFill(e, commission)
  ELSE RolledBack(e)

CountFill(e) == fills' = [fills EXCEPT ![report[e].order] = @ + 1]

\* _on_fill: the commission report of a live fill is still empty.
OnFill ==
  LET e == delivered + 1
  IN /\ toReplay = {}
     /\ delivered < N
     /\ delivered' = e
     /\ inflight' = inflight \cup {e}
     /\ CountFill(e)
     /\ OfferFill(e, 0)
     /\ UNCHANGED <<report, toReplay, restarts, lost, comms, hooked, held, cash>>

\* OrderState.filled_quantity of an order all fills of which came to this process.
FilledQuantity(o) ==
  SumFunction([e \in {f \in 1..delivered : report[f].order = o} |-> report[e].shares])

\* OrderState.status is FILLED: the fills reported to this process leave nothing to fill.
Filled(o) == Totals[o] <= FilledQuantity(o)

\* Mutant: the first report of a filled order.
FirstReport(o) == Filled(o) /\ comms[o] = 0

\* apply_commission calls on_fully_filled with the last report of a filled order.
LastReport(o) == Filled(o) /\ comms[o] + 1 = fills[o]

\* _process_buy divides by a quantity of zero, _process_sell makes the quantity negative.
BookingRaises(e) ==
  LET q == held[Con(e)]
      n == FilledQuantity(report[e].order)
  IN q # 0 /\ (IF Bought(e) THEN q + n = 0 ELSE q < n)

\* The quantity in memory when the order of e is booked: a sale without a position is
\* ignored, and one that raises has already changed it.
BookedQuantity(e) ==
  LET q == held[Con(e)]
      n == FilledQuantity(report[e].order)
  IN IF Bought(e) THEN (IF BookingRaises(e) THEN q ELSE q + n)
     ELSE IF q = 0 THEN 0 ELSE q - n

\* _update_portfolio_after_fully_filled: the position in memory, then the balance row, which
\* a booking that raises does not reach.
BookPortfolio(e) ==
  /\ held' = [held EXCEPT ![Con(e)] = BookedQuantity(e)]
  /\ IF BookingRaises(e) THEN UNCHANGED balances ELSE UpdatePortfolioBalances

\* _on_commission: the ledger first, which raises when the execution has no row (foreign
\* key), then the booking of the order.
OnCommission(e) ==
  LET o == report[e].order
      stored == e \in executions
  IN /\ toReplay = {}
     /\ e \in inflight
     /\ inflight' = inflight \ {e}
     /\ comms' = [comms EXCEPT ![o] = @ + 1]
     /\ lost' = IF stored THEN lost ELSE lost \cup {e}
     /\ IF stored
        THEN UpdatePortfolioLedger(LedgerEntries(e, report[e].commission, consumption))
        ELSE UNCHANGED ledger
     /\ UNCHANGED capital
     /\ IF stored /\ LastReport(o) /\ o \in hooked
        THEN BookPortfolio(e)
        ELSE UNCHANGED <<held, balances>>
     /\ UNCHANGED <<report, delivered, toReplay, restarts, refused, fills, hooked,
                    executions, lots, consumption, positions>>

-----------------------------------------------------------------------------
(***************************************************************************)
(* Crash and recovery                                                      *)
(***************************************************************************)
\* The process dies, also while it replays; the broker executes on, up to e, before it is
\* back.  load_portfolio_state reads the positions before the replay adds to them.  Orders
\* already executed in part get a tracker without a hook, and so may the others.
Restart(e, unsent) ==
  /\ restarts < MaxRestarts
  /\ restarts' = restarts + 1
  /\ delivered' = e
  /\ toReplay' = 1..e
  /\ inflight' = {}
  /\ lost' = lost \cup inflight \cup (delivered + 1)..e
  /\ fills' = NoReports /\ comms' = NoReports
  /\ hooked' = unsent
  /\ held' = [c \in Cons |-> positions[c].quantity]
  /\ UNCHANGED <<report, refused, books, cash>>

\* replay_daily_fills: the fills of a trade in their order; one that is refused ends the
\* replay of its trade.  The commission is known by now, unless it is still to come.
ReplayFill(e, commission) ==
  LET trade == {f \in toReplay : report[f].order = report[e].order}
  IN /\ e \in toReplay
     /\ \A f \in trade : e <= f
     /\ CountFill(e)
     /\ OfferFill(e, commission)
     /\ toReplay' = IF e \in executions' THEN toReplay \ {e} ELSE toReplay \ trade
     /\ UNCHANGED <<report, delivered, inflight, restarts, lost, comms, hooked, held, cash>>

Unsent(e) == {o \in Orders : \A f \in 1..e : report[f].order # o}

Next ==
  \/ OnFill
  \/ \E e \in Execs : OnCommission(e)
  \/ \E e \in delivered..N : \E unsent \in SUBSET Unsent(e) : Restart(e, unsent)
  \/ \E e \in Execs : \E commission \in {0, report[e].commission} : ReplayFill(e, commission)
  \/ \E amount \in Capital : RegisterCapitalEvent(amount)

Spec == Init /\ [][Next]_vars

-----------------------------------------------------------------------------
(***************************************************************************)
(* Properties                                                              *)
(***************************************************************************)
Balanced == ComputedBalance(capital, ledger)

\* The books balance: what the cash of the portfolio lost to shares is the cost of the lots
\* still open, and the rest of its change is realised profit less commissions.  Four
\* tables, written by different statements of update_fill_in_db and by the commission
\* reports, agree after every transaction, whatever was replayed or refused.
BooksBalance ==
  Balanced.total_cash_balance
    + SumFunction([i \in DOMAIN lots |-> lots[i].open * report[lots[i].exec].price])
  = SumFunction(capital)
    + Balanced.realized_pnl - Balanced.total_commissions

\* The position, computed from the executions, is the sum of the open lots, which the sales
\* consume one by one; and lots are closed in the order they were opened: a lot touched by
\* a sale has no open lot of its instrument before it.
PositionIsOpenLots ==
  \A c \in Cons :
    /\ positions[c].quantity = OpenQuantity(c)
    /\ \A i, j \in LotsOf(c) : i < j /\ lots[j].closed > 0 => lots[i].open = 0

\* A step refuses an execution only for one of three reasons: a purchase of the instrument
\* that came before it at the broker is not stored; a sale that came after it is, as when
\* trades are replayed in another order; or a purchase of the same second has an identifier
\* that sorts after the one of the sale.  In the last case no replay helps.
RefusedOnlyOutOfOrder ==
  [][\A e \in refused' \ refused :
       \E d \in OfCon(Execs, Con(e)) :
         \/ Bought(d) /\ d < e /\ d \notin executions
         \/ ~Bought(d) /\ e < d /\ d \in executions
         \/ Bought(d) /\ d < e /\ report[d].time = report[e].time /\ ~SortsUpTo(d, e)]_vars

\* The ledger lacks the commission of a stored execution only while its report is to come,
\* or because the report came when the process was down or the execution was refused: a
\* replay never makes up for it, since update_fill_in_db leaves when the execution is known.
CommissionAccounted ==
  \A e \in executions :
    \/ \E r \in ledger : r.exec = e /\ r.type = "COMMISSION" /\ r.amount = report[e].commission
    \/ report[e].commission = 0
    \/ e \in inflight
    \/ e \in lost

\* An order with executions in the books has been filled, reported and booked whole by one
\* process.
Settled(o) ==
  LET execs == {e \in Execs : report[e].order = o}
  IN \/ execs \cap executions = {}
     \/ /\ o \in hooked
        /\ execs \subseteq executions \cap 1..delivered
        /\ execs \cap (inflight \cup lost) = {}
        /\ Filled(o)

\* Once every order with executions is settled and no position in memory is negative, the
\* balance the next start reads its cash from is the one the ledger gives.  It is not
\* before: the executions of an order that is cancelled in part, or replayed after a crash,
\* are in the positions and not in the cash of the row.  A negative position is the trace of
\* a booking that raised before it refreshed the row, as when a sale is booked before the
\* purchase it sells from; the next booking that does not raise makes up for it.
SettledBalanceIsFresh ==
  (\A o \in Orders : Settled(o)) /\ (\A c \in Cons : held[c] >= 0) => balances = Balanced
=============================================================================
