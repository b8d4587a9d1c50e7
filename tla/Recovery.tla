------------------------------ MODULE Recovery ------------------------------
(***************************************************************************)
(* The staged orders of one portfolio across crashes and days              *)
(* (trading/session_manager.py, the replay of ibkr/gateway.py, the order   *)
(* rows of db/writer.py and db/reader.py).                                 *)
(*                                                                         *)
(* A first market process of a day loads the target orders, stages them    *)
(* and saves what is staged to staged_orders.pkl.  A later process of the  *)
(* day reads the file back, rebuilds a tracker per order, replays the      *)
(* trades the broker remembers, and stages, twice, what it does not find   *)
(* in trading.orders as sent today.                                        *)
(*                                                                         *)
(* The broker is external: it keeps one trade per sending, executes shares *)
(* one by one, and remembers the trades of the day (tif DAY).  What it     *)
(* reports while no process listens, or of an order the process does not   *)
(* know, is lost, but the replay reads the trades themselves.              *)
(***************************************************************************)
EXTENDS Integers, Sequences, FiniteSets, Functions

CONSTANTS
  Orders,       \* the order requests of all days, each with its order_id
  Batch,        \* [Days -> SUBSET Orders]: the requests computed on a day
  Quantity,     \* [Orders -> Nat \ {0}]
  MaxDay,       \* bound: days modelled
  MaxFaults,    \* bound: process deaths and raising sinks
  MaxSends,     \* bound: times an order is sent
  NoRow,        \* no row in trading.orders
  NoTracker     \* no entry in the gateway's registry

Days == 1 .. MaxDay

ASSUME RecoveryAssumption ==
  /\ MaxDay \in Nat \ {0}
  /\ MaxFaults \in Nat /\ MaxSends \in Nat \ {0}
  /\ Batch \in [Days -> SUBSET Orders]
  /\ \A d, e \in Days : d # e => Batch[d] \cap Batch[e] = {}
  /\ Quantity \in [Orders -> Nat \ {0}]

\* The statuses of a trade.  "Pending" stands for PendingSubmit, ApiPending and PendingCancel,
\* which apply_status maps to nothing; "Submitted" also for PreSubmitted.
Uncounted == {"Pending", "ValidationError"}
Status == {"Submitted", "Filled", "Cancelled"} \cup Uncounted

OrderRow == [perm : Nat \ {0}, status : Status, day : Days]
Tracker == [status : {"CREATED", "SUBMITTED", "PARTIALLY_FILLED", "FILLED", "CANCELLED"},
            left : Nat]
Trade == [state : {"working", "filled", "cancelled"}, executed : Nat, day : Days]

ASSUME NoValuesAssumption == NoRow \notin OrderRow /\ NoTracker \notin Tracker

VARIABLES
  day,
  session,    \* today's session: "none", "started" (its market phase) or "completed"
  pc,         \* "down", "ready" to load or restore, "loaded", "replay", "staging" or "running"
  recovery,   \* system_state.recovery_mode
  todo,       \* the trades replay_daily_fills has yet to visit
  file,       \* the orders in staged_orders.pkl, none when it does not exist
  pending,    \* OrderManager._pending_orders
  queued,     \* authorised, on its way through the router
  registry,   \* IBKRGateway._order_registry
  trades,     \* the broker's trades of an order, one per sending; n is the perm_id
  row,        \* the row of an order in trading.orders
  dbExecs,    \* trading.executions: <<order, perm_id, number of the execution>>
  lots,       \* the shares booked in the lots for an order
  dropped,    \* history: orders whose sink raised
  skipped,    \* history: orders a trade of which the replay met in a status without submit()
  restaged,   \* history: orders staged with a row that is not counted, or authorised between
              \* the two stagings
  faults

memory == <<todo, pending, queued, registry>>
database == <<row, dbExecs, lots>>
history == <<skipped, restaged>>
vars == <<day, session, pc, recovery, file, memory, trades, database, dropped, history, faults>>

TypeOK ==
  /\ day \in Days
  /\ session \in {"none", "started", "completed"}
  /\ pc \in {"down", "ready", "loaded", "replay", "staging", "running"}
  /\ recovery \in BOOLEAN
  /\ todo \subseteq Orders \X (Nat \ {0})
  /\ file \subseteq Orders /\ pending \subseteq Orders /\ queued \subseteq Orders
  /\ registry \in [Orders -> Tracker \cup {NoTracker}]
  /\ trades \in [Orders -> Seq(Trade)]
  /\ row \in [Orders -> OrderRow \cup {NoRow}]
  /\ dbExecs \subseteq Orders \X (Nat \ {0}) \X (Nat \ {0})
  /\ lots \in [Orders -> Nat]
  /\ dropped \subseteq Orders /\ skipped \subseteq Orders /\ restaged \subseteq Orders
  /\ faults \in 0 .. MaxFaults

Init ==
  /\ day = 1 /\ session = "none" /\ pc = "down" /\ recovery = FALSE
  /\ todo = {} /\ file = {} /\ pending = {} /\ queued = {}
  /\ registry = [o \in Orders |-> NoTracker]
  /\ trades = [o \in Orders |-> << >>]
  /\ row = [o \in Orders |-> NoRow]
  /\ dbExecs = {} /\ lots = [o \in Orders |-> 0]
  /\ dropped = {} /\ skipped = {} /\ restaged = {} /\ faults = 0

Fault == faults < MaxFaults /\ faults' = faults + 1

NewTracker(o) == [status |-> "CREATED", left |-> Quantity[o]]

(***************************************************************************)
(* The process.                                                            *)
(***************************************************************************)
\* A process comes to the point where it loads or restores; the session row says which.
Start ==
  /\ pc = "down" /\ session # "completed"
  /\ pc' = "ready"
  /\ recovery' = (session = "started")
  /\ session' = "started"
  /\ UNCHANGED <<day, file, memory, trades, database, dropped, history, faults>>

ForgetMemory ==
  /\ todo' = {} /\ pending' = {} /\ queued' = {}
  /\ registry' = [o \in Orders |-> NoTracker]

\* The process dies, at any point.
Dies ==
  /\ pc # "down"
  /\ Fault
  /\ pc' = "down"
  /\ ForgetMemory
  /\ UNCHANGED <<day, session, recovery, file, trades, database, dropped, history>>

\* The market closes and the process ends its session.
Completes ==
  /\ pc = "running"
  /\ session' = "completed"
  /\ pc' = "down"
  /\ ForgetMemory
  /\ UNCHANGED <<day, recovery, file, trades, database, dropped, history, faults>>

\* The orders of a day end with it.
Expired(t) == IF t.state = "working" THEN [t EXCEPT !.state = "cancelled"] ELSE t

NewDay ==
  /\ pc = "down" /\ day < MaxDay
  /\ day' = day + 1
  /\ session' = "none"
  /\ trades' = [o \in Orders |-> [n \in DOMAIN trades[o] |-> Expired(trades[o][n])]]
  /\ UNCHANGED <<pc, recovery, file, memory, database, dropped, history, faults>>

(***************************************************************************)
(* Loading and saving: no await between them, but runtime_loop goes on.    *)
(***************************************************************************)
LoadPortfolioOrders ==
  /\ pc = "ready" /\ ~recovery
  /\ pending' = Batch[day]
  /\ pc' = "loaded"
  /\ UNCHANGED <<day, session, recovery, file, todo, queued, registry, trades, database,
                 dropped, history, faults>>

SaveStagedOrders ==
  /\ pc = "loaded"
  /\ file' = pending
  /\ pc' = "running"
  /\ UNCHANGED <<day, session, recovery, memory, trades, database, dropped, history, faults>>

(***************************************************************************)
(* Sending: authorisation on any thread, the sink on the router's.         *)
(***************************************************************************)
Authorize(o) ==
  /\ o \in pending
  /\ pending' = pending \ {o}
  /\ queued' = queued \cup {o}
  /\ UNCHANGED <<day, session, pc, recovery, file, todo, registry, trades, database, dropped,
                 history, faults>>

NewTrade == [state |-> "working", executed |-> 0, day |-> day]

\* order_sink replaces the tracker registered for the order_id, then places the order;
\* a client that is not connected raises into the router's except.
OrderSink(o) ==
  /\ o \in queued /\ Len(trades[o]) < MaxSends
  /\ queued' = queued \ {o}
  /\ registry' = [registry EXCEPT ![o] = NewTracker(o)]
  /\ \/ trades' = [trades EXCEPT ![o] = Append(@, NewTrade)] /\ UNCHANGED faults
        /\ UNCHANGED dropped
     \/ UNCHANGED trades /\ Fault /\ dropped' = dropped \cup {o}
  /\ UNCHANGED <<day, session, pc, recovery, file, todo, pending, database, history>>

(***************************************************************************)
(* Status reports and executions, as functions of                          *)
(* m == [tracker, row, execs, lots], what they read and write of an order. *)
(***************************************************************************)
Memo(o) == [tracker |-> registry[o], row |-> row[o], execs |-> dbExecs, lots |-> lots[o]]

\* What the broker may report of a trade: one it works may be waiting to be acknowledged or
\* to be cancelled, or carry a warning.
BrokerStatuses(t) ==
  CASE t.state = "working"   -> {"Submitted"} \cup Uncounted
    [] t.state = "filled"    -> {"Filled"}
    [] t.state = "cancelled" -> {"Cancelled"}

Final == {"FILLED", "CANCELLED"}

\* submit() and cancel() raise in a final state.
StatusRaises(tr, s) ==
  s \in {"Submitted", "ValidationError", "Cancelled"} /\ tr.status \in Final

StatusAfter(tr, s) ==
  CASE s \in {"Submitted", "ValidationError"} /\ tr.status = "CREATED" -> "SUBMITTED"
    [] s = "Cancelled" -> "CANCELLED"
    [] OTHER           -> tr.status

\* Executions refer to the perm_id of their order, which then cannot be changed.
PermFixed(m, o) == \E e \in m.execs : e[1] = o /\ e[2] = m.row.perm

\* update_order_in_db: found by perm_id, found by order_ref, or inserted.
RowAfter(m, o, n, s) ==
  IF m.row = NoRow
  THEN [perm |-> n, status |-> s, day |-> day]
  ELSE [m.row EXCEPT !.perm = n, !.status = s]

RowRaises(m, o, n) == m.row # NoRow /\ m.row.perm # n /\ PermFixed(m, o)

\* _on_order_status.  Its exceptions end the handler: the transition may be done and its
\* row not.
OnOrderStatus(m, o, n, s) ==
  LET tr == [m.tracker EXCEPT !.status = StatusAfter(m.tracker, s)]
  IN  IF StatusRaises(m.tracker, s) THEN m
      ELSE IF RowRaises(m, o, n) THEN [m EXCEPT !.tracker = tr]
      ELSE [m EXCEPT !.tracker = tr, !.row = RowAfter(m, o, n, s)]

StatusFails(m, o, n, s) == StatusRaises(m.tracker, s) \/ RowRaises(m, o, n)

Fillable(tr) == tr.status \in {"SUBMITTED", "PARTIALLY_FILLED"}

\* The tracker after j more executions.
TrackerFilled(tr, j) ==
  [status |-> IF tr.left = j THEN "FILLED" ELSE "PARTIALLY_FILLED", left |-> tr.left - j]

\* update_fill_in_db for the executions es: one that is stored already changes nothing.
Stored(m, es) ==
  [m EXCEPT !.execs = @ \cup es, !.lots = @ + Cardinality(es \ m.execs)]

\* _on_fill of execution k of trade n, while the process listens.
OnFill(m, o, n, k) ==
  LET filled == [m EXCEPT !.tracker = TrackerFilled(m.tracker, 1)]
  IN  IF ~Fillable(m.tracker) THEN m
      ELSE IF m.row = NoRow \/ m.row.perm # n THEN filled
      ELSE Stored(filled, {<<o, n, k>>})

(***************************************************************************)
(* replay_daily_fills, for trade n of order o: submit, the status handler, *)
(* then the fill handler for every execution.  What raises ends the replay *)
(* of this trade; a crash in the middle of one is a crash before it, for   *)
(* the next replay repeats it.                                             *)
(***************************************************************************)
\* Mutant: the replay relies on the status handler, as the live path does.
SubmitFirstNever(tr, s) == tr

Submits(s) == s \in {"Submitted", "Filled"}

SubmitFirst(tr, s) ==
  IF Submits(s) /\ tr.status = "CREATED" THEN [tr EXCEPT !.status = "SUBMITTED"] ELSE tr

SubmitRaises(tr, s) == Submits(s) /\ tr.status \in Final

Smaller(i, j) == IF i < j THEN i ELSE j

ReplayFills(m, o, n, t) ==
  LET j == IF Fillable(m.tracker) THEN Smaller(t.executed, m.tracker.left) ELSE 0
  IN  IF j = 0 THEN m
      ELSE Stored([m EXCEPT !.tracker = TrackerFilled(m.tracker, j)],
                  {<<o, n, k>> : k \in 1 .. j})

\* s is the status the trade t shows.
ReplayTrade(m, o, n, t, s) ==
  LET submitted == [m EXCEPT !.tracker = SubmitFirst(m.tracker, s)]
      reported == OnOrderStatus(submitted, o, n, s)
  IN  IF SubmitRaises(m.tracker, s) THEN m
      ELSE IF StatusFails(submitted, o, n, s) THEN reported
      ELSE ReplayFills(reported, o, n, t)

\* What an order's handlers have changed is written back.
Becomes(o, m) ==
  /\ registry' = [registry EXCEPT ![o] = m.tracker]
  /\ row' = [row EXCEPT ![o] = m.row]
  /\ dbExecs' = m.execs
  /\ lots' = [lots EXCEPT ![o] = m.lots]

(***************************************************************************)
(* restore_sessions_staged_orders.                                         *)
(***************************************************************************)
\* The broker remembers the trades of the day.
TradesToday(o) == {n \in DOMAIN trades[o] : trades[o][n].day = day}

RebuildTrackers ==
  /\ pc = "ready" /\ recovery
  /\ pc' = "replay"
  /\ registry' = [o \in Orders |-> IF o \in file THEN NewTracker(o) ELSE NoTracker]
  /\ todo' = UNION {{o} \X TradesToday(o) : o \in file}
  /\ UNCHANGED <<day, session, recovery, file, pending, queued, trades, database, dropped,
                 history, faults>>

ReplayDailyFills ==
  /\ pc = "replay"
  /\ \E t \in todo : \E s \in BrokerStatuses(trades[t[1]][t[2]]) :
       /\ \A u \in todo : u[1] = t[1] => t[2] <= u[2]
       /\ todo' = todo \ {t}
       /\ Becomes(t[1], ReplayTrade(Memo(t[1]), t[1], t[2], trades[t[1]][t[2]], s))
       /\ skipped' = IF s = "Pending" THEN skipped \cup {t[1]} ELSE skipped
  /\ UNCHANGED <<day, session, pc, recovery, file, pending, queued, trades, dropped, restaged,
                 faults>>

\* Mutant: only filled orders count as sent.
SentTodayFilled(o) == row[o] # NoRow /\ row[o].day = day /\ row[o].status = "Filled"

\* Mutant: an order with a rebuilt tracker counts as sent.
SentTodayKnown(o) == registry[o] # NoTracker

\* get_sent_order_refs_today: rows created today with a status of a live or filled order.
SentToday(o) ==
  row[o] # NoRow /\ row[o].day = day /\ row[o].status \in {"Submitted", "Filled"}

Remaining == {o \in file : ~SentToday(o)}

\* stage_orders(remaining).  runtime_loop may authorise from now on.
StageRemaining ==
  /\ pc = "replay" /\ todo = {}
  /\ pending' = pending \cup Remaining
  /\ restaged' = restaged \cup {o \in Remaining : row[o] # NoRow /\ row[o].day = day
                                                  /\ row[o].status \in Uncounted}
  /\ pc' = "staging"
  /\ UNCHANGED <<day, session, recovery, file, todo, queued, registry, trades, database,
                 dropped, skipped, faults>>

\* dispatch(ORDERS, "order_request", remaining): OrderManager stages them once more.
DispatchRemaining ==
  /\ pc = "staging"
  /\ pending' = pending \cup Remaining
  /\ restaged' = restaged \cup (Remaining \ pending)
  /\ pc' = "running"
  /\ UNCHANGED <<day, session, recovery, file, todo, queued, registry, trades, database,
                 dropped, skipped, faults>>

(***************************************************************************)
(* The broker.  While the main loop is busy what it sends waits, and after *)
(* the close of the market nothing happens any more.                       *)
(***************************************************************************)
MayHandle ==
  /\ pc \notin {"loaded", "staging"} /\ ~(pc = "replay" /\ todo # {})
  /\ session # "completed"

\* A handler runs if there is a process and it knows the order.
Delivered(o, m) ==
  IF registry[o] # NoTracker THEN Becomes(o, m) ELSE UNCHANGED <<registry, database>>

BrokerUnchanged == UNCHANGED <<day, session, pc, recovery, file, todo, pending, queued,
                               dropped, history, faults>>

\* The broker reports the state of a trade, once or again.
Report(o, n) ==
  /\ MayHandle
  /\ n \in TradesToday(o)
  /\ registry[o] # NoTracker
  /\ \E s \in BrokerStatuses(trades[o][n]) : Becomes(o, OnOrderStatus(Memo(o), o, n, s))
  /\ UNCHANGED trades
  /\ BrokerUnchanged

Execute(o, n) ==
  /\ MayHandle
  /\ n \in TradesToday(o)
  /\ trades[o][n].state = "working"
  /\ LET k == trades[o][n].executed + 1
         s == IF k = Quantity[o] THEN "filled" ELSE "working"
     IN  /\ trades' = [trades EXCEPT ![o][n] = [@ EXCEPT !.executed = k, !.state = s]]
         /\ Delivered(o, OnFill(Memo(o), o, n, k))
  /\ BrokerUnchanged

\* A trade ends with shares left: cancelled, or inactive, which is how a refusal shows.
Cancel(o, n) ==
  /\ MayHandle
  /\ n \in TradesToday(o)
  /\ trades[o][n].state = "working"
  /\ trades' = [trades EXCEPT ![o][n].state = "cancelled"]
  /\ Delivered(o, OnOrderStatus(Memo(o), o, n, "Cancelled"))
  /\ BrokerUnchanged

Process ==
  \/ Start \/ LoadPortfolioOrders \/ SaveStagedOrders
  \/ RebuildTrackers \/ ReplayDailyFills \/ StageRemaining \/ DispatchRemaining

Broker(o) ==
  \E n \in DOMAIN trades[o] : Report(o, n) \/ Execute(o, n) \/ Cancel(o, n)

Next ==
  \/ Process \/ Dies \/ Completes \/ NewDay
  \/ \E o \in Orders : Authorize(o) \/ OrderSink(o) \/ Broker(o)

SafeSpec == Init /\ [][Next]_vars

\* The launcher starts a process that died (fewer deaths than open its circuit breaker are
\* checked), and a running one makes progress; the kernel
\* itself authorises whatever is pending once it has loaded or restored
\* (_authorize_all_current_orders).  Nothing is assumed of the broker.
Spec ==
  /\ SafeSpec
  /\ WF_vars(Process)
  /\ \A o \in Orders : WF_vars(Authorize(o)) /\ WF_vars(OrderSink(o))

(***************************************************************************)
(* Properties.                                                             *)
(***************************************************************************)
Executed(o) == SumFunction([n \in DOMAIN trades[o] |-> trades[o][n].executed])

\* An order already sent today is sent a second time only if the broker has ended it with
\* shares left, if its row was at a status that get_sent_order_refs_today does not count
\* when it was staged, or if it was authorised between the two stagings of one restoration.
\* Otherwise, whenever the process dies, even between the sending and the row in
\* trading.orders, the replay finds the trade and writes the row that keeps the order from
\* being dispatched (session_manager.py: "Dispatcher uniquement les ordres restants").
ResentWithReason ==
  [][\A o \in Orders :
       Len(trades[o]) = 1 /\ Len(trades'[o]) = 2
         => \/ trades[o][1].state = "cancelled" \/ trades[o][1].day < day
            \/ o \in restaged]_vars

\* When the replay is done, and until the rest is staged, every execution of an order of the
\* file that the broker still works or has filled today is in the database, also those
\* reported to nobody: replay_daily_fills submits, reports and fills in this order.  Not so
\* of an order sent twice, nor of one whose trade was pending when it was replayed, the
\* executions of which its new tracker refuses.  However often the replay is repeated, no
\* share enters the lots twice.
ReplayCompletes ==
  /\ pc = "replay" /\ todo = {} =>
       \A o \in file \ skipped :
         Len(trades[o]) = 1 /\ TradesToday(o) = {1} /\ trades[o][1].state # "cancelled" =>
           \A k \in 1 .. trades[o][1].executed : <<o, 1, k>> \in dbExecs
  /\ \A o \in Orders : lots[o] <= Executed(o)

\* A staged order is sent in the end, on its day, if the process stops dying and the sink
\* takes it.
StagedIsSent ==
  \A d \in Days : \A o \in Batch[d] :
    (o \in file /\ day = d /\ session = "started")
      ~> (Len(trades[o]) > 0 \/ o \in dropped \/ day # d \/ session = "completed")

\* session_manager.py, "Dispatcher uniquement les ordres restants": an order the broker has
\* filled is not among them, also on a later day.
FilledNotSentAgain ==
  \A o \in Orders : \A i, j \in DOMAIN trades[o] :
    trades[o][i].day < trades[o][j].day => trades[o][i].state # "filled"

\* The same comment: what remains of a request is at most what has not been executed, also
\* when the broker has ended a trade of it with shares left.
NeverOverfilled == \A o \in Orders \ restaged : Executed(o) <= Quantity[o]
=============================================================================
