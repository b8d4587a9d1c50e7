--------------------------- MODULE OrderLifecycle ---------------------------
(***************************************************************************)
(* The life of the orders of one portfolio and one instrument, from the    *)
(* authorisation to the booking of the position:                           *)
(*                                                                         *)
(*   OrderManager (trading/order_manager.py) pops an authorised order,     *)
(*     routes it, and only then has PortfolioManager hook on_fully_filled; *)
(*   IBKRGateway.order_sink (ibkr/gateway.py) registers the tracker, then  *)
(*     places the order, on the router thread, so that every report finds  *)
(*     its tracker;                                                        *)
(*   the gateway's handlers apply the broker's reports on the asyncio main *)
(*     loop to OrderState (models/order.py), which persists them           *)
(*     (db/writer.py) and books a filled order in the portfolio            *)
(*     (trading/portfolio_manager.py).                                     *)
(*                                                                         *)
(* The broker and the wire are external.  The wire keeps the order of what *)
(* the broker sends about one order, and nothing in the program sees the   *)
(* broker before a report is delivered, so a report is sent and handled in *)
(* one action; phase, executed, execs, comms and reports say what has been *)
(* delivered.  Quantities are whole shares; prices, cash and balances,     *)
(* which are sums over the same events, are left out.                      *)
(***************************************************************************)
EXTENDS Integers, FiniteSets, Functions

CONSTANTS
  Orders,            \* the requests staged in OrderManager._pending_orders
  Quantity,          \* [Orders -> Nat \ {0}]
  Buys,              \* the orders with side BUY; the others are SELL
  OnMain,            \* authorised on the main loop, the others on the runtime_loop thread
  InitialPosition,   \* shares held, in memory and in the database
  MaxReports,        \* bound: [Orders -> Nat], status reports delivered per order
  MaxDbFailures      \* bound: statements the database refuses

ASSUME OrdersAssumption ==
  /\ IsFiniteSet(Orders)
  /\ Quantity \in [Orders -> Nat \ {0}]
  /\ Buys \subseteq Orders
  /\ OnMain \subseteq Orders
  /\ InitialPosition \in Nat
  /\ MaxReports \in [Orders -> Nat]
  /\ MaxDbFailures \in Nat

VARIABLES
  \* the broker, external
  phase,        \* "none", "working", "filled", "cancelled" or "rejected"
  executed,     \* shares executed
  execs,        \* number of executions
  comms,        \* number of commission reports, one per execution and in that order
  reports,      \* number of status reports
  \* OrderManager and the sink
  stage,        \* "pending", "routed" (popped and routed) or "tracked" (hook set)
  sink,         \* "none", "queued", "placed" or "raised"
  \* OrderState
  status,
  filled,       \* filled_quantity
  remaining,    \* remaining_quantity
  fillsCount,   \* fills_count
  commsCount,   \* commissions_count
  \* PortfolioManager
  position,     \* quantity of the instrument's Position, 0 when there is none
  liveOrders,   \* live_orders
  \* the database
  dbStatus,     \* status of the row of trading.orders, "none" when there is no row
  dbExecs,      \* the executions with a row in trading.executions
  dbFilled,     \* the shares of these executions
  dbFailures,
  \* history
  booked,       \* how often on_fully_filled was called for the order
  refused,      \* orders an execution of which was applied nowhere
  short,        \* the executions reported so far sold more than was held at some point
  skipped       \* a booking left the position as it was

broker == <<phase, executed, execs, comms, reports>>
state == <<status, filled, remaining, fillsCount, commsCount>>
portfolio == <<position, liveOrders, booked, skipped>>
database == <<dbStatus, dbExecs, dbFilled, dbFailures>>
sending == <<stage, sink>>
vars == <<broker, state, portfolio, database, sending, refused, short>>

Statuses ==
  {"CREATED", "SUBMITTED", "PARTIALLY_FILLED", "FILLED", "CANCELLED", "REJECTED"}
Terminal == {"FILLED", "CANCELLED", "REJECTED"}

\* The broker's statuses by what apply_status does with them: "Submitted" stands for
\* PreSubmitted and ValidationError too, "Cancelled" for Inactive and ApiCancelled.
Reports == {"Submitted", "Filled", "Cancelled", "Rejected"}

Counters == [Orders -> Nat]

TypeOK ==
  /\ phase \in [Orders -> {"none", "working", "filled", "cancelled", "rejected"}]
  /\ executed \in Counters /\ execs \in Counters /\ comms \in Counters
  /\ reports \in Counters
  /\ stage \in [Orders -> {"pending", "routed", "tracked"}]
  /\ sink \in [Orders -> {"none", "queued", "placed", "raised"}]
  /\ status \in [Orders -> Statuses]
  /\ filled \in Counters /\ remaining \in Counters
  /\ fillsCount \in Counters /\ commsCount \in Counters
  /\ position \in Int
  /\ liveOrders \subseteq Orders
  /\ dbStatus \in [Orders -> Reports \cup {"none", "PendingSubmit"}]
  /\ dbExecs \in [Orders -> SUBSET Nat]
  /\ dbFilled \in Counters
  /\ dbFailures \in Nat
  /\ booked \in Counters
  /\ refused \subseteq Orders
  /\ short \in BOOLEAN
  /\ skipped \in BOOLEAN

Zero == [o \in Orders |-> 0]

Init ==
  /\ phase = [o \in Orders |-> "none"]
  /\ executed = Zero /\ execs = Zero /\ comms = Zero /\ reports = Zero
  /\ stage = [o \in Orders |-> "pending"]
  /\ sink = [o \in Orders |-> "none"]
  /\ status = [o \in Orders |-> "CREATED"]
  /\ filled = Zero
  /\ remaining = Quantity          \* OrderState.initialize
  /\ fillsCount = Zero /\ commsCount = Zero
  /\ position = InitialPosition
  /\ liveOrders = {}
  /\ dbStatus = [o \in Orders |-> "none"]
  /\ dbExecs = [o \in Orders |-> {}]
  /\ dbFilled = Zero
  /\ dbFailures = 0
  /\ booked = Zero
  /\ refused = {}
  /\ short = FALSE
  /\ skipped = FALSE

(***************************************************************************)
(* Authorisation.  One thread handles one authorisation at a time, and the *)
(* main loop runs no gateway handler before its authorisation is complete. *)
(***************************************************************************)
SameThread(o, p) == o \in OnMain <=> p \in OnMain

\* _process_authorization: pop the pending order and hand it to the router.
Authorize(o) ==
  /\ stage[o] = "pending"
  /\ \A p \in Orders : SameThread(o, p) => stage[p] # "routed"
  /\ stage' = [stage EXCEPT ![o] = "routed"]
  /\ sink' = [sink EXCEPT ![o] = "queued"]
  /\ UNCHANGED <<broker, state, portfolio, database, refused, short>>

\* Dispatch of order_tracking: PortfolioManager keeps the order and sets the hook.
Track(o) ==
  /\ stage[o] = "routed"
  /\ stage' = [stage EXCEPT ![o] = "tracked"]
  /\ liveOrders' = liveOrders \cup {o}
  /\ UNCHANGED <<broker, state, position, booked, skipped, database, sink, refused, short>>

Hooked(o) == stage[o] = "tracked"

\* Mutant: the handlers do not run on the loop that authorises.
HandlersMayRunAnyTime == TRUE

HandlersMayRun == \A p \in OnMain : stage[p] # "routed"

(***************************************************************************)
(* The router thread hands the order to the gateway.  An unsupported type  *)
(* or a client that is not connected raises into the router's except.      *)
(***************************************************************************)
OrderSink(o) ==
  /\ sink[o] = "queued"
  /\ \/ /\ sink' = [sink EXCEPT ![o] = "placed"]
        /\ phase' = [phase EXCEPT ![o] = "working"]
     \/ /\ sink' = [sink EXCEPT ![o] = "raised"]
        /\ UNCHANGED phase
  /\ UNCHANGED <<executed, execs, comms, reports, state, portfolio, database, stage, refused>>
  /\ UNCHANGED short

(***************************************************************************)
(* The database.  A statement may be refused at any time; besides, an      *)
(* execution needs the row of its order and, for a SELL, open lots, and    *)
(* the COMMISSION entry of the ledger needs the row of its execution.      *)
(***************************************************************************)
Sign(o) == IF o \in Buys THEN 1 ELSE -1

\* What a number of shares per order adds up to.
Net(shares) == InitialPosition + SumFunction([o \in Orders |-> Sign(o) * shares[o]])

\* The quantity of the executions of the database, and of their open lots.
DbPosition == Net(dbFilled)

\* ok: the database refuses nothing of its own in this handler.
DbAnswers(ok) ==
  IF ok THEN UNCHANGED dbFailures
  ELSE dbFailures < MaxDbFailures /\ dbFailures' = dbFailures + 1

FillAccepted(o, k) == dbStatus[o] # "none" /\ (o \in Buys \/ k <= DbPosition)

\* Mutant: the insertion conflicts on the order instead of the execution.
PersistFillOncePerOrder(o, k, ok) ==
  IF ok /\ FillAccepted(o, k) /\ dbExecs[o] = {}
  THEN /\ dbExecs' = [dbExecs EXCEPT ![o] = @ \cup {execs[o] + 1}]
       /\ dbFilled' = [dbFilled EXCEPT ![o] = @ + k]
  ELSE UNCHANGED <<dbExecs, dbFilled>>

\* update_fill_in_db: one transaction.  The execution delivered is number execs[o] + 1.
PersistFill(o, k, ok) ==
  IF ok /\ FillAccepted(o, k)
  THEN /\ dbExecs' = [dbExecs EXCEPT ![o] = @ \cup {execs[o] + 1}]
       /\ dbFilled' = [dbFilled EXCEPT ![o] = @ + k]
  ELSE UNCHANGED <<dbExecs, dbFilled>>

(***************************************************************************)
(* Booking: PortfolioManager._update_portfolio_after_fully_filled.         *)
(***************************************************************************)
\* Mutant: a SELL adds to the position.
BookedPositionUnsigned(o, q) ==
  IF o \notin Buys /\ position = 0 THEN 0 ELSE position + q

\* The position after the booking of q shares; a SELL of nothing held returns early.
BookedPosition(o, q) ==
  IF o \notin Buys /\ position = 0 THEN 0 ELSE position + Sign(o) * q

\* The booking raises: a new average price over zero shares, or more sold than was held.
\* The position keeps its value in the first case, its negative quantity in the second.
BookRaises(o, q) ==
  IF o \in Buys THEN position # 0 /\ position + q = 0
                ELSE position # 0 /\ position < q

Book(o, q) ==
  /\ position' = IF o \in Buys /\ BookRaises(o, q) THEN position ELSE BookedPosition(o, q)
  /\ booked' = [booked EXCEPT ![o] = @ + 1]
  /\ liveOrders' = IF BookRaises(o, q) THEN liveOrders ELSE liveOrders \ {o}
  /\ skipped' = (skipped \/ position' = position)

(***************************************************************************)
(* Status reports.                                                         *)
(***************************************************************************)
\* What the broker may report of an order; after the last execution a report of the
\* working order may still be on its way.
Reportable(o) ==
  CASE phase[o] = "working" /\ executed[o] = 0 -> {"Submitted", "Cancelled", "Rejected"}
    [] phase[o] = "working" /\ executed[o] > 0 -> {"Submitted", "Cancelled"}
    [] phase[o] = "filled"                     -> {"Submitted", "Filled"}
    [] phase[o] = "cancelled"                  -> {"Cancelled"}
    [] phase[o] = "rejected"                   -> {"Rejected"}
    [] OTHER                                   -> {}

PhaseAfter(o, s) ==
  CASE s = "Cancelled" -> "cancelled"
    [] s = "Rejected"  -> "rejected"
    [] OTHER           -> phase[o]

\* Mutant: submit() forgets that only a CREATED order can be submitted.
TransitionRaisesNoSubmit(o, s) ==
  \/ s = "Cancelled" /\ status[o] \in Terminal
  \/ s = "Rejected" /\ status[o] # "SUBMITTED"

\* Mutant: reject() accepts an order in any state that is not final.
TransitionRaisesFinalOnly(o, s) == s # "Filled" /\ status[o] \in Terminal

\* When submit(), cancel() and reject() refuse the transition.
TransitionRaises(o, s) ==
  \/ s \in {"Submitted", "Cancelled"} /\ status[o] \in Terminal
  \/ s = "Rejected" /\ status[o] # "SUBMITTED"

\* What they change otherwise; a report of status Filled changes nothing.
StatusAfter(o, s) ==
  CASE s = "Submitted" -> IF status[o] = "PARTIALLY_FILLED" THEN status[o] ELSE "SUBMITTED"
    [] s = "Cancelled" -> "CANCELLED"
    [] s = "Rejected"  -> "REJECTED"
    [] OTHER           -> status[o]

\* update_order_in_db: the row is inserted as PendingSubmit and then updated, in separate
\* transactions, so that a refusal may leave it between the two.
PersistStatus(o, s, ok) ==
  \/ ok /\ dbStatus' = [dbStatus EXCEPT ![o] = s]
  \/ ~ok /\ UNCHANGED dbStatus
  \/ ~ok /\ dbStatus[o] = "none" /\ dbStatus' = [dbStatus EXCEPT ![o] = "PendingSubmit"]

\* _on_order_status: a transition that raises reaches the wrapper before it is persisted.
OnOrderStatus(o, s, ok) ==
  /\ HandlersMayRun
  /\ reports[o] < MaxReports[o]
  /\ s \in Reportable(o)
  /\ reports' = [reports EXCEPT ![o] = @ + 1]
  /\ phase' = [phase EXCEPT ![o] = PhaseAfter(o, s)]
  /\ \/ /\ TransitionRaises(o, s)
        /\ ok
        /\ UNCHANGED <<status, dbStatus, dbFailures>>
     \/ /\ ~TransitionRaises(o, s)
        /\ status' = [status EXCEPT ![o] = StatusAfter(o, s)]
        /\ DbAnswers(ok)
        /\ PersistStatus(o, s, ok)
  /\ UNCHANGED <<executed, execs, comms, filled, remaining, fillsCount, commsCount>>
  /\ UNCHANGED <<portfolio, dbExecs, dbFilled, sending, refused, short>>

(***************************************************************************)
(* Executions.                                                             *)
(***************************************************************************)
Booking(o, st, nf, nc) == st = "FILLED" /\ nc = nf /\ Hooked(o)

\* Mutant: an order with nothing left is still partially filled.
FillStatusOff(left) == IF left >= 0 THEN "PARTIALLY_FILLED" ELSE "FILLED"

FillStatus(left) == IF left > 0 THEN "PARTIALLY_FILLED" ELSE "FILLED"

\* OrderState.apply_fill: the counters, then the booking if it is due, then the database.
\* A booking that raises leaves the execution out of the database.
ApplyFill(o, k, ok) ==
  LET left == IF remaining[o] > k THEN remaining[o] - k ELSE 0
      st   == FillStatus(left)
      due  == Booking(o, st, fillsCount[o] + 1, commsCount[o])
  IN  /\ filled' = [filled EXCEPT ![o] = @ + k]
      /\ remaining' = [remaining EXCEPT ![o] = left]
      /\ fillsCount' = [fillsCount EXCEPT ![o] = @ + 1]
      /\ status' = [status EXCEPT ![o] = st]
      /\ IF due THEN Book(o, filled[o] + k) ELSE UNCHANGED portfolio
      /\ IF due /\ BookRaises(o, filled[o] + k)
         THEN ok /\ UNCHANGED <<dbExecs, dbFilled, dbFailures>>
         ELSE PersistFill(o, k, ok) /\ DbAnswers(ok)
      /\ UNCHANGED <<commsCount, dbStatus, refused>>

\* _on_fill.
OnFill(o, k, ok) ==
  /\ HandlersMayRun
  /\ phase[o] = "working"
  /\ k \in 1 .. Quantity[o] - executed[o]
  /\ executed' = [executed EXCEPT ![o] = @ + k]
  /\ execs' = [execs EXCEPT ![o] = @ + 1]
  /\ phase' = [phase EXCEPT ![o] = IF executed[o] + k = Quantity[o] THEN "filled" ELSE @]
  /\ short' = (short \/ Net(executed') < 0)
  /\ \/ /\ status[o] \in {"SUBMITTED", "PARTIALLY_FILLED"}
        /\ ApplyFill(o, k, ok)
     \/ /\ status[o] \notin {"SUBMITTED", "PARTIALLY_FILLED"}
        /\ ok
        /\ refused' = refused \cup {o}
        /\ UNCHANGED <<state, portfolio, database>>
  /\ UNCHANGED <<comms, reports, sending>>

(***************************************************************************)
(* Commission reports.                                                     *)
(***************************************************************************)
\* Mutant: the booking does not wait for the last commission.
OnCommissionEager(o, ok) ==
  /\ HandlersMayRun
  /\ comms[o] < execs[o]
  /\ comms' = [comms EXCEPT ![o] = @ + 1]
  /\ commsCount' = [commsCount EXCEPT ![o] = @ + 1]
  /\ DbAnswers(ok)
  /\ IF ok /\ comms[o] + 1 \in dbExecs[o] /\ status[o] = "FILLED" /\ Hooked(o)
     THEN Book(o, filled[o])
     ELSE UNCHANGED portfolio
  /\ UNCHANGED <<phase, executed, execs, reports, status, filled, remaining, fillsCount>>
  /\ UNCHANGED <<dbStatus, dbExecs, dbFilled, sending, refused, short>>

\* _on_commission and apply_commission: the counter, the ledger, then the booking if it is
\* due.  A refused ledger entry leaves the counter advanced and the booking undone.
OnCommission(o, ok) ==
  /\ HandlersMayRun
  /\ comms[o] < execs[o]
  /\ comms' = [comms EXCEPT ![o] = @ + 1]
  /\ commsCount' = [commsCount EXCEPT ![o] = @ + 1]
  /\ DbAnswers(ok)
  /\ IF /\ ok
        /\ comms[o] + 1 \in dbExecs[o]
        /\ Booking(o, status[o], fillsCount[o], commsCount[o] + 1)
     THEN Book(o, filled[o])
     ELSE UNCHANGED portfolio
  /\ UNCHANGED <<phase, executed, execs, reports, status, filled, remaining, fillsCount>>
  /\ UNCHANGED <<dbStatus, dbExecs, dbFilled, sending, refused, short>>

Next ==
  \E o \in Orders :
    \/ Authorize(o)
    \/ Track(o)
    \/ OrderSink(o)
    \/ \E ok \in BOOLEAN :
         \/ \E s \in Reports : OnOrderStatus(o, s, ok)
         \/ \E k \in 1 .. Quantity[o] : OnFill(o, k, ok)
         \/ OnCommission(o, ok)

SafeSpec == Init /\ [][Next]_vars

\* A callback that has routed an order goes on to dispatch it, and the broker reports the
\* commission of every execution.
Spec ==
  /\ SafeSpec
  /\ \A o \in Orders :
       WF_vars(Track(o)) /\ WF_vars(\E ok \in BOOLEAN : OnCommission(o, ok))

(***************************************************************************)
(* Properties.                                                             *)
(***************************************************************************)
\* A filled order changes the portfolio once: the last fill and each late commission all
\* test whether the booking is due, and only one of them may find it so
\* (order.py: _update_position_from_fully_filled).
BookedAtMostOnce ==
  \A o \in Orders : booked[o] <= 1 /\ (booked[o] = 1 => status[o] = "FILLED")

\* FILLED, CANCELLED and REJECTED are final, whatever reports and executions come late.
TerminalIsFinal ==
  [][\A o \in Orders : status[o] \in Terminal => status'[o] = status[o]]_vars

\* As long as no execution was refused the tracker knows what the broker executed, and
\* it is FILLED exactly when the broker has filled the order.
TrackerFollowsBroker ==
  \A o \in Orders : o \notin refused =>
    /\ filled[o] = executed[o] /\ remaining[o] = Quantity[o] - executed[o]
    /\ fillsCount[o] = execs[o]
    /\ status[o] = "FILLED" <=> phase[o] = "filled"

\* The executions the tracker counts are those of the database, unless a statement was
\* refused, more was sold than held, or the tracker refused an execution of a BUY: the lots
\* that are missing then may be needed by a later SELL.
DatabaseFollowsTracker ==
  dbFailures = 0 /\ ~short /\ refused \cap Buys = {} => dbFilled = filled

\* Under the same conditions, when every order with executions has been booked the position
\* in memory, moved once per order, is the one the database adds up execution by execution.
\* This includes a SELL booked before the BUY it sells from, whose booking raises on the way.
PortfolioFollowsDatabase ==
  (/\ dbFailures = 0 /\ ~short /\ refused \cap Buys = {} /\ ~skipped
   /\ \A o \in Orders : dbFilled[o] > 0 => booked[o] > 0)
  => position = DbPosition

\* An order authorised on the main loop that the broker fills is booked in the end: no
\* handler can run between its routing and the hook.
EventuallyBooked ==
  \A o \in OnMain :
    phase[o] = "filled" ~> (booked[o] = 1 \/ refused # {} \/ dbFailures > 0 \/ short)

\* The trackers keep the promise made to the rest of the session.
Promise == INSTANCE OrderPromise WITH booked <- {o \in Orders : booked[o] > 0}

ImplementsPromise == Promise!Spec

\* README, "Full order lifecycle persistence (orders, fills, commissions, positions, P&L)":
\* with a database that refuses nothing, an execution the broker reported is persisted.
FillsPersisted ==
  dbFailures = 0 /\ ~short => \A o \in Orders : dbFilled[o] = executed[o]
=============================================================================
