---------------------------- MODULE MCTradingDay ----------------------------
(* Three days with a closed one in the middle, and a rebalance on both of the *)
(* open ones.                                                                 *)
EXTENDS TradingDay

MCOpenDays == {1, 3}
MCRebalanceDays == {1, 3}
=============================================================================
