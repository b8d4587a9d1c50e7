---------------------------- MODULE MCRiskMonitor ----------------------------
(* Two portfolios.  The callbacks of q run first; it may hold b, which has no *)
(* market data line and no contract, and then those of p never run.           *)
EXTENDS RiskMonitor

CONSTANTS p, q, a, b

MCSessions == <<q, p>>
MCKeys == {<<p, a>>, <<q, b>>}
MCSnapshots == {[k \in MCKeys |-> IF k = <<p, a>> THEN 2 ELSE n] : n \in {0, 1}}
MCPhases == <<"pre", "open", "post">>
=============================================================================
