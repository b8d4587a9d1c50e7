------------------------------ MODULE MCLiveFeed ------------------------------
(***************************************************************************)
(* Two instruments, three intervals and two ticks: a tick split by a       *)
(* flush, an interval made up for and one without a tick.                  *)
(***************************************************************************)
EXTENDS LiveFeed

CONSTANTS aapl, msft

MCPipelines == <<aapl, msft>>
=============================================================================
