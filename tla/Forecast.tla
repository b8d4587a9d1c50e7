------------------------------- MODULE Forecast -------------------------------
(***************************************************************************)
(* Which models predict which instruments, and who hears of it             *)
(* (build_prediction_and_routing of strategy/forecast_engine.py), as pure  *)
(* operators over the tables that fetch_positions_and_targets of           *)
(* db/reader.py joins.                                                     *)
(***************************************************************************)
EXTENDS Integers, Sequences, FiniteSets, SequencesExt

CONSTANTS
  Contracts,     \* trading.contracts, by con_id
  Universe,      \* ForecastManager._conids: the contracts that qualified, in the same order
  Portfolios,    \* in order: [portfolio, session, held, rebalance, targets]; held: market values,
                 \* rebalance: a row of portfolio_targets for today, targets: weights in percent
  NoValue,       \* NULL: a position that was never marked to market
  Models,        \* the rows of get_forecast_models_configs, in order: [id, type, freqs]; freqs:
                 \* the frequencies of the features the model takes
  NoPortfolio    \* None

\* The instruments are sorted, portfolios have a primary key.  A model has not: its id is its
\* name without the version, and it is in one row per portfolio that has it.
ASSUME ForecastAssumption ==
  /\ Contracts \in Seq(Range(Contracts)) /\ IsInjective(Contracts)
  /\ Universe \in Seq(Range(Contracts)) /\ IsInjective(Universe)
  /\ Portfolios \in Seq(Range(Portfolios))
  /\ \A j \in DOMAIN Portfolios :
       /\ Portfolios[j].portfolio # NoPortfolio
       /\ DOMAIN Portfolios[j].held \cup DOMAIN Portfolios[j].targets \subseteq Range(Contracts)
       /\ ~Portfolios[j].rebalance => DOMAIN Portfolios[j].targets = {}
       /\ \A k \in DOMAIN Portfolios :
            Portfolios[j].portfolio = Portfolios[k].portfolio => j = k
  /\ Models \in Seq(Range(Models))

\* The elements of a sequence that are in a set, in order.
Only(seq, S) == FlattenSeq([i \in DOMAIN seq |-> IF seq[i] \in S THEN <<seq[i]>> ELSE <<>>])

(***************************************************************************)
(* fetch_positions_and_targets: a row per instrument held or aimed at.     *)
(***************************************************************************)
TotalValue(p) ==
  MapThenSumSet(LAMBDA c : p.held[c], {c \in DOMAIN p.held : p.held[c] # NoValue})

\* The positions with a weight: where the total is not positive, or nothing was marked to
\* market, that of every position is 0.
Weighed(p) == {c \in DOMAIN p.held : TotalValue(p) > 0 => p.held[c] # NoValue}

\* pos_w - target_w, times the total value of the positions (cash is left out) and a hundred.
Excess(p, c) ==
  IF TotalValue(p) > 0 THEN 100 * p.held[c] - p.targets[c] * TotalValue(p) ELSE - p.targets[c]

Action(p, c) ==
  LET aimed == c \in DOMAIN p.targets
      weighed == c \in Weighed(p)
  IN CASE aimed /\ ~weighed                       -> "BUY"
       [] ~aimed /\ weighed /\ p.rebalance         -> "SELL"
       [] aimed /\ weighed /\ Excess(p, c) < 0     -> "BUY"
       [] aimed /\ weighed /\ Excess(p, c) > 0     -> "SELL"
       [] OTHER                                   -> "HOLD"

Positions ==
  FlattenSeq([j \in DOMAIN Portfolios |->
    LET p == Portfolios[j]
        cons == Only(Contracts, DOMAIN p.held \cup DOMAIN p.targets)
    IN [i \in DOMAIN cons |-> [session |-> p.session, portfolio |-> p.portfolio,
                                con |-> cons[i], action |-> Action(p, cons[i])]]])

\* _models_for_position
TypesFor(action) ==
  CASE action = "HOLD" -> <<"STOP_LOSS">>
    [] action = "SELL" -> <<"STOP_LOSS", "SELL">>
    [] action = "BUY"  -> <<"BUY">>
    [] OTHER           -> <<>>

\* ModelPool._models: the last row with an id is the model of that id.
Pooled(id) == Models[Max({m \in DOMAIN Models : Models[m].id = id})]

\* _group_positions_by_session: LIVE, PAPER, the rest, and an instrument of no row as one to buy.
Unheld == Only(Universe, Range(Universe) \ {row.con : row \in Range(Positions)})

Grouped ==
  Only(Positions, {row \in Range(Positions) : row.session = "LIVE"})
    \o Only(Positions, {row \in Range(Positions) : row.session = "PAPER"})
    \o Only(Positions, {row \in Range(Positions) : row.session \notin {"LIVE", "PAPER"}})
    \o [j \in DOMAIN Unheld |->
          [session |-> "OTHER", portfolio |-> NoPortfolio, con |-> Unheld[j], action |-> "BUY"]]

(***************************************************************************)
(* _build_plan_and_routing: one pass over the rows; a model is planned for *)
(* an instrument where the first row asks for it, once per id, a portfolio *)
(* is entered under each instrument and type of its rows.                  *)
(***************************************************************************)
AskedBy(row) ==
  LET types == TypesFor(row.action)
  IN FlattenSeq([t \in DOMAIN types |->
       LET ofType == Only(Models, {m \in Range(Models) : m.type = types[t]})
       IN [m \in DOMAIN ofType |-> [model |-> Pooled(ofType[m].id), con |-> row.con]]])

Asked == FlattenSeq([g \in DOMAIN Grouped |-> AskedBy(Grouped[g])])

\* Mutant: without seen_con_model.
PlanWithRepeats == Asked

PredictionPlan ==
  FoldLeft(LAMBDA plan, ask : IF ask \in Range(plan) THEN plan ELSE Append(plan, ask), <<>>, Asked)

Routing(con, type) ==
  FoldLeft(LAMBDA portfolios, row :
             IF /\ row.con = con /\ type \in Range(TypesFor(row.action))
                /\ row.portfolio # NoPortfolio /\ row.portfolio \notin Range(portfolios)
             THEN Append(portfolios, row.portfolio) ELSE portfolios,
           <<>>, Grouped)

(***************************************************************************)
(* run_predictions over a snapshot: the features present, as pairs of an   *)
(* instrument and a frequency.  _make_prediction raises at the first that  *)
(* the model takes and the snapshot lacks, and at an instrument outside    *)
(* the universe.                                                           *)
(***************************************************************************)
Raises(present) ==
  \E j \in DOMAIN PredictionPlan :
    LET con == PredictionPlan[j].con
    IN con \notin Range(Universe) \/ ~({con} \X PredictionPlan[j].model.freqs \subseteq present)

\* _route_prediction, of a run that does not raise.
Routed ==
  FlattenSeq([j \in DOMAIN PredictionPlan |->
    LET ask == PredictionPlan[j]
        portfolios == Routing(ask.con, ask.model.type)
    IN [p \in DOMAIN portfolios |->
          [portfolio |-> portfolios[p], model |-> ask.model, con |-> ask.con]]])
=============================================================================
