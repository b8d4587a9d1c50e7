------------------------------- MODULE Candles -------------------------------
(***************************************************************************)
(* The two data structures between the bars of five seconds and the        *)
(* features, as pure operators: the cascade that resamples bars into       *)
(* candles (CandleResampler and ResampleCascade of data/historic.py) and   *)
(* the ring of rows that holds them (MarketDataBank of                     *)
(* models/market_data.py).                                                 *)
(*                                                                         *)
(* Of an OHLC the time span and tick_count are kept: a bar has prices      *)
(* unless tick_count is 0, is a filling of fill_gap if it is -1, and its   *)
(* volume is summed up under the same conditions as tick_count.  Frequency *)
(* 0 is that of the bars, frequency k the k-th level of the cascade.       *)
(***************************************************************************)
EXTENDS Integers, Sequences, FiniteSets

CONSTANTS
  Instruments,   \* the contracts
  Kinds,         \* last, bid, ask: those of a bar, in order
  Counts,        \* CandleResampler.target_count of each level
  Lookback       \* MarketDataBank.lookback

KindSet == {Kinds[k] : k \in DOMAIN Kinds}

ASSUME CandlesAssumption ==
  /\ Counts \in Seq(Nat \ {0})
  /\ Lookback \in Nat \ {0}
  /\ Kinds \in Seq(KindSet) /\ Kinds # <<>>
  /\ \A j, k \in DOMAIN Kinds : Kinds[j] = Kinds[k] => j = k

Freqs == 0..Len(Counts)
\* The bars in a candle.
Period(f) == LET bars[k \in Freqs] == IF k = 0 THEN 1 ELSE Counts[k] * bars[k - 1] IN bars[f]

Ohlc(start, end, ticks) == [start |-> start, end |-> end, ticks |-> ticks]
None == Ohlc(0, 0, 0)
HasPrices(bar) == bar.ticks # 0

-----------------------------------------------------------------------------
(***************************************************************************)
(* CandleResampler                                                         *)
(***************************************************************************)
FreshResampler == [seen |-> 0, hasData |-> FALSE, ticks |-> 0, start |-> 0, end |-> 0]

Added(r, bar) ==
  [seen |-> r.seen + 1,
   hasData |-> r.hasData \/ HasPrices(bar),
   ticks |-> IF bar.ticks > 0 THEN r.ticks + bar.ticks ELSE r.ticks,
   start |-> IF r.seen = 0 THEN bar.start ELSE r.start,
   end |-> bar.end]

Complete(r, count) == r.seen >= count

BuiltCandle(r) ==
  Ohlc(r.start, r.end, IF r.hasData /\ r.ticks = 0 THEN -1 ELSE r.ticks)

(***************************************************************************)
(* ResampleCascade: a bar goes up one level after the other, as the candle *)
(* it completes there, and no further than the first it does not complete. *)
(***************************************************************************)
FreshCascade == [k \in DOMAIN Counts |-> FreshResampler]

\* The candle that leaves level k, level 0 being the bar itself.
Risen(cascade, bar) ==
  LET up[k \in Freqs] ==
        IF k = 0 THEN bar
        ELSE IF up[k - 1] = None THEN None
        ELSE LET r == Added(cascade[k], up[k - 1])
             IN IF Complete(r, Counts[k]) THEN BuiltCandle(r) ELSE None
  IN up

\* Mutant: reset forgets the counts of ticks.
PushedWithoutReset(cascade, bar) ==
  LET up == Risen(cascade, bar)
  IN [k \in DOMAIN Counts |->
        IF up[k - 1] = None THEN cascade[k]
        ELSE IF up[k] = None THEN Added(cascade[k], up[k - 1])
        ELSE [FreshResampler EXCEPT !.ticks = cascade[k].ticks]]

PushedCascade(cascade, bar) ==
  LET up == Risen(cascade, bar)
  IN [k \in DOMAIN Counts |->
        IF up[k - 1] = None THEN cascade[k]
        ELSE IF up[k] = None THEN Added(cascade[k], up[k - 1])
        ELSE FreshResampler]

-----------------------------------------------------------------------------
(***************************************************************************)
(* MarketDataBank                                                          *)
(***************************************************************************)
EmptyRow ==
  [end |-> 0,
   cells |-> [k \in KindSet |-> [c \in Instruments |-> None]],
   filled |-> [k \in KindSet |-> 0]]

EmptyBank == [rows |-> [r \in 0..Lookback - 1 |-> EmptyRow], head |-> 0, full |-> FALSE, end |-> -1]

\* Mutant: the cells of the row used again are left.
NextRowUncleared(bank, end, kind) ==
  LET next == (bank.head + 1) % Lookback
  IN [rows |-> [bank.rows EXCEPT ![bank.head] =
                  [bank.rows[bank.head] EXCEPT !.end = end, !.filled[kind] = 0]],
      head |-> next,
      full |-> bank.full \/ next = 0,
      end |-> end]

\* _next_row: every cell is emptied, but only the counter of the kind of the event.
NextRow(bank, end, kind) ==
  LET next == (bank.head + 1) % Lookback
  IN [rows |-> [bank.rows EXCEPT ![bank.head] =
                  [EmptyRow EXCEPT !.end = end,
                                   !.filled = [bank.rows[bank.head].filled EXCEPT ![kind] = 0]]],
      head |-> next,
      full |-> bank.full \/ next = 0,
      end |-> end]

\* A row of an earlier candle is passed over, but not while the gap of a restart is filled.
Rejects(bank, end, recovery) == ~recovery /\ bank.end # -1 /\ end < bank.end

Written(bank, c, kind, bar) ==
  LET r == (bank.head - 1) % Lookback
  IN [bank EXCEPT !.rows[r].cells[kind][c] = bar,
                  !.rows[r].filled[kind] = bank.rows[r].filled[kind] + 1]

UpdatedBank(bank, c, kind, bar, recovery) ==
  IF Rejects(bank, bar.end, recovery) THEN bank
  ELSE Written(IF bar.end = bank.end THEN bank ELSE NextRow(bank, bar.end, kind), c, kind, bar)

\* The rows, oldest first.
View(bank) ==
  IF bank.full
  THEN [j \in 1..Lookback |-> bank.rows[(bank.head + j - 1) % Lookback]]
  ELSE [j \in 1..bank.head |-> bank.rows[j - 1]]

LastRow(bank) == View(bank)[Len(View(bank))]
=============================================================================
