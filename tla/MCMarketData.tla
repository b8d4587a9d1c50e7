----------------------------- MODULE MCMarketData -----------------------------
(***************************************************************************)
(* Three instruments, two of them in rows of two portfolios with different *)
(* actions, one that no one holds; a model of two portfolios, and one with *)
(* versions of two types; two levels of two bars each; a ring of three     *)
(* rows, used again within the run.                                        *)
(***************************************************************************)
EXTENDS MarketData

CONSTANTS aapl, msft, ibm, p1, p2, p3

MCInstruments == {aapl, msft, ibm}
MCUniverse == <<aapl, msft, ibm>>
MCKinds == <<"last", "bid">>
MCCounts == <<2, 2>>
MCQuotes ==
  [c \in MCInstruments |->
     [s \in 0..MaxTime |-> IF c # msft THEN s + 1 ELSE IF s = 3 THEN 1 ELSE 0]]
MCPortfolios ==
  << [portfolio |-> p1, session |-> "PAPER", held |-> (aapl :> 4), rebalance |-> TRUE,
      targets |-> (aapl :> 50 @@ msft :> 50)],
     [portfolio |-> p2, session |-> "LIVE", held |-> (aapl :> 3 @@ msft :> NoValue),
      rebalance |-> FALSE, targets |-> <<>>],
     [portfolio |-> p3, session |-> "PAPER", held |-> (msft :> NoValue), rebalance |-> TRUE,
      targets |-> <<>>] >>
MCModels ==
  << [id |-> "exit", type |-> "SELL", freqs |-> {0}],
     [id |-> "stop", type |-> "STOP_LOSS", freqs |-> {0}],
     [id |-> "entry", type |-> "BUY", freqs |-> {0}],
     [id |-> "exit", type |-> "SELL", freqs |-> {0}],
     [id |-> "both", type |-> "BUY", freqs |-> {0}],
     [id |-> "both", type |-> "SELL", freqs |-> {0}] >>
=============================================================================
