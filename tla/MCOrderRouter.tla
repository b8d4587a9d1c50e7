--------------------------- MODULE MCOrderRouter ---------------------------
(* Four orders, two of each mode: enough for two orders of one mode to be     *)
(* queued behind each other while the other mode interferes.                  *)
EXTENDS OrderRouter

CONSTANTS l1, l2, p1, p2

MCTrackers == {l1, l2, p1, p2}
MCLiveOrders == {l1, l2}
=============================================================================
