------------------------------ MODULE MarketData ------------------------------
(***************************************************************************)
(* From the bars of five seconds to the signals: HistoricDataHub,          *)
(* FeatureEngine and ForecastManager, run one after the other by the       *)
(* ticks of runtime_loop, the snapshots that db_writer takes of the first  *)
(* two meanwhile, and the recovery from them (_market_data_recovery of     *)
(* core/kernel.py).                                                        *)
(*                                                                         *)
(* Time is counted in intervals of five seconds.  The live hub is taken    *)
(* from LiveFeed: it hands over one bar per instrument and interval.  The  *)
(* bars of an instrument are the same for every kind.  The queues between  *)
(* the hub and the engine are emptied one into the other by one thread and *)
(* are one here.  db_writer and a crash interrupt the loop between the     *)
(* bars, or the events, of two instruments.  Every frequency has features  *)
(* of each instrument.                                                     *)
(***************************************************************************)
EXTENDS Candles, Forecast

CONSTANTS
  Quotes,        \* the ticks of each instrument in each interval of the wall clock
  GapFreq,       \* "1m": the frequency of get_last_ts and get_last_closes
  MaxTime,       \* bound: intervals
  MaxCrashes     \* bound: crashes

ASSUME MarketDataAssumption ==
  /\ Instruments = Range(Universe)
  /\ Quotes \in [Instruments -> [0..MaxTime -> Nat]]
  /\ GapFreq \in Freqs \ {0}
  /\ MaxTime \in Nat /\ MaxCrashes \in Nat

VARIABLES
  now,           \* the interval of the wall clock
  proc,          \* the process: "live", "recovered", "down"; "dead" once runtime_loop raised
  crashes,       \* the crashes so far
  loop,          \* where runtime_loop is, _last_agg_time (-1: None), last_snapshot_minute
  bars,          \* HistoricDataHub._in_queue
  cascades,      \* CandleManager.resamplers
  events,        \* _out_queue and FeatureEngine._in_queue
  engine,        \* FeatureEngine
  snapshots,     \* FeatureEngine.out_queue: the instruments that had features
  saver,         \* the jobs _snapshot_market_data, and where the first one is
  files,         \* candle_manager.pkl and market_data_banks.pkl
  delivered,     \* history: the signals of the last run_predictions that did not raise
  published,     \* history: the bars of each instrument since runtime_loop started
  emitted,       \* history: its candles of each frequency, as long
  since          \* history: when it started, and whether the process was a recovery

hub == <<bars, cascades, events>>
disk == <<saver, files>>
history == <<delivered, published, emitted, since>>
vars == <<now, proc, crashes, loop, hub, engine, snapshots, disk, history>>

First == Kinds[1]
NoBanks == <<>>

-----------------------------------------------------------------------------
(***************************************************************************)
(* HistoricDataHub: CandleManager.push_5s and the events of one bar        *)
(***************************************************************************)
Event(c, kind, freq, bar) == [con |-> c, kind |-> kind, freq |-> freq, bar |-> bar]

PushedBar(all, c, bar) ==
  [all EXCEPT ![c] = [k \in KindSet |-> PushedCascade(all[c][k], bar)]]

\* The candles that a bar completes, from the lowest frequency up.
CandlesOf(all, c, kind, bar) ==
  LET up == Risen(all[c][kind], bar)
  IN [f \in 1..Max({k \in Freqs : up[k] # None}) |-> Event(c, kind, f, up[f])]

\* Mutant: a bar without ticks makes no event.
EventsOfTicks(all, c, bar) ==
  (IF HasPrices(bar) THEN [k \in DOMAIN Kinds |-> Event(c, Kinds[k], 0, bar)] ELSE <<>>)
    \o FlattenSeq([k \in DOMAIN Kinds |-> CandlesOf(all, c, Kinds[k], bar)])

EventsOf(all, c, bar) ==
  [k \in DOMAIN Kinds |-> Event(c, Kinds[k], 0, bar)]
    \o FlattenSeq([k \in DOMAIN Kinds |-> CandlesOf(all, c, Kinds[k], bar)])

-----------------------------------------------------------------------------
(***************************************************************************)
(* FeatureEngine: one event of process_candle_events                       *)
(***************************************************************************)
NothingMissed == [f \in Freqs |-> {}]

FreshEngine(banks) ==
  [banks |-> banks,
   lastSeen |-> [c \in Instruments |-> [k \in KindSet |-> [f \in Freqs |-> -1]]],
   states |-> [f \in Freqs |-> [pending |-> FALSE, derivedAt |-> -1, seen |-> {}]],
   latest |-> [f \in Freqs |-> [c \in Instruments |-> -1]],    \* of kind last: the row used
   derived |-> [f \in Freqs |-> [c \in Instruments |-> -1]],   \* what the features last used
   cross |-> NothingMissed,              \* the instruments the last cross_asset vector missed
   processed |-> FALSE]

\* Mutant: a candle hides the one of a higher frequency that ends with it.
IsNewAtEveryFreq(e, event) ==
  \A f \in Freqs : event.bar.end > e.lastSeen[event.con][event.kind][f]

\* _mark_event_seen
IsNew(e, event) == event.bar.end > e.lastSeen[event.con][event.kind][event.freq]

Marked(e, event) ==
  LET state == e.states[event.freq]
      seen == state.seen \cup {event.con}
  IN [e EXCEPT !.lastSeen[event.con][event.kind][event.freq] = event.bar.end,
               !.states[event.freq] = [state EXCEPT !.seen = seen,
                                                    !.pending = state.pending \/ seen = Instruments]]

\* _event_to_features, and the commits to the store.
WithFeatures(e, event, recovery) ==
  LET f == event.freq
      c == event.con
      bank == UpdatedBank(e.banks[f], c, event.kind, event.bar, recovery)
      row == LastRow(bank)
      missing == {d \in Instruments : row.cells[event.kind][d] = None}
      updated == /\ ~Rejects(e.banks[f], event.bar.end, recovery)
                 /\ row.filled[event.kind] = Cardinality(Instruments)
  IN [e EXCEPT !.banks[f] = bank,
               !.latest[f][c] = IF event.kind # First THEN e.latest[f][c]
                                ELSE IF c \in missing THEN -1 ELSE row.end,
               !.cross[f] = IF updated /\ event.kind = First THEN missing ELSE e.cross[f],
               !.processed = TRUE]

\* The derived features of every frequency that is pending, whichever the event's is.
WithDerived(e, ts) ==
  LET due == {f \in Freqs : e.states[f].pending /\ e.states[f].derivedAt # ts}
  IN [e EXCEPT !.derived = [f \in Freqs |-> IF f \in due THEN e.latest[f] ELSE e.derived[f]],
               !.states = [f \in Freqs |->
                             IF f \in due
                             THEN [pending |-> FALSE, derivedAt |-> ts, seen |-> {}]
                             ELSE e.states[f]]]

Processed(e, event, recovery) ==
  IF IsNew(e, event)
  THEN WithDerived(WithFeatures(Marked(e, event), event, recovery), event.bar.end)
  ELSE e

HasFeatures(e) == {c \in Instruments : e.lastSeen[c][First][0] # -1}

\* A snapshot shares the features of its instruments with the store.
Present(e, snapshot) ==
  {x \in snapshot \X Freqs : e.lastSeen[x[1]][First][x[2]] # -1}

-----------------------------------------------------------------------------
\* A file that is absent leaves what the process has built; a torn one cannot be unpickled.
File(is, data) == [is |-> is, data |-> data]

FreshCascades == [c \in Instruments |-> [k \in KindSet |-> FreshCascade]]
FreshLoop == [at |-> "tick", last |-> -1, minute |-> -1]
NoHistory(x) == [c \in Instruments |-> x]

\* A market session that starts in the procedure without recovery, the first of all.
Init ==
  /\ now = 0
  /\ proc = "live" /\ crashes = 0
  /\ loop = FreshLoop
  /\ bars = <<>> /\ events = <<>> /\ snapshots = <<>>
  /\ cascades = FreshCascades
  /\ engine = FreshEngine([f \in Freqs |-> EmptyBank])
  /\ saver = [jobs |-> 0, at |-> "banks"]
  /\ files = [banks |-> File("absent", NoBanks), manager |-> File("absent", FreshCascades)]
  /\ delivered = <<>>
  /\ published = NoHistory(<<>>)
  /\ emitted = NoHistory([f \in Freqs |-> <<>>])
  /\ since = [start |-> 0, recovered |-> FALSE]

\* The clock is read at the start of a tick only: that it moves on within one shows no sooner.
TimePasses ==
  /\ now < MaxTime
  /\ proc = "live" => loop.at = "tick"
  /\ now' = now + 1
  /\ UNCHANGED <<proc, crashes, loop, hub, engine, snapshots, disk, history>>

-----------------------------------------------------------------------------
(***************************************************************************)
(* _runtime_tick                                                           *)
(***************************************************************************)
\* aggregate_and_publish_candles: the ticks of the intervals to make up for are all in the
\* first bar.
NewBars ==
  FlattenSeq([s \in 1..now - loop.last |->
    [i \in DOMAIN Universe |->
       [con |-> Universe[i],
        bar |-> Ohlc(loop.last + s - 1, loop.last + s,
                     IF s = 1 THEN Quotes[Universe[i]][loop.last] ELSE 0)]]])

StartTick ==
  /\ proc = "live" /\ loop.at = "tick"
  /\ loop.last < now \/ snapshots # <<>>
  /\ bars' = IF loop.last = -1 THEN <<>> ELSE NewBars
  /\ loop' = [loop EXCEPT !.at = "run", !.last = now]
  /\ UNCHANGED <<now, proc, crashes, cascades, events, engine, snapshots, disk, history>>

IngestBar ==
  /\ proc = "live" /\ loop.at = "run"
  /\ bars # <<>>
  /\ LET c == Head(bars).con
         bar == Head(bars).bar
     IN /\ bars' = Tail(bars)
        /\ cascades' = PushedBar(cascades, c, bar)
        /\ events' = events \o EventsOf(cascades, c, bar)
        /\ published' = [published EXCEPT ![c] = Append(@, bar)]
        /\ emitted' = [emitted EXCEPT ![c] = [f \in Freqs |->
             LET candle == Risen(cascades[c][First], bar)[f]
             IN IF candle = None THEN emitted[c][f] ELSE Append(emitted[c][f], candle)]]
  /\ UNCHANGED <<now, proc, crashes, loop, engine, snapshots, disk, delivered, since>>

\* The events up to the next instrument's.
Turn ==
  LET other == SelectInSeq(events, LAMBDA e : e.con # Head(events).con)
  IN IF other = 0 THEN Len(events) ELSE other - 1

ProcessAll(e, queue, recovery) ==
  FoldLeft(LAMBDA x, event : Processed(x, event, recovery), e, queue)

\* Without banks the first feature raises, and the exception ends runtime_loop.
ProcessEvents ==
  /\ proc = "live" /\ loop.at = "run"
  /\ bars = <<>> /\ events # <<>>
  /\ events' = SubSeq(events, Turn + 1, Len(events))
  /\ IF engine.banks = NoBanks
     THEN proc' = "dead" /\ UNCHANGED engine
     ELSE engine' = ProcessAll(engine, SubSeq(events, 1, Turn), FALSE) /\ UNCHANGED proc
  /\ UNCHANGED <<now, crashes, loop, bars, cascades, snapshots, disk, history>>

\* The end of process_candle_events, run_predictions over one snapshot, and the snapshot of
\* the market data once a minute.
FinishTick ==
  LET ready == IF engine.processed THEN Append(snapshots, HasFeatures(engine)) ELSE snapshots
      raises == ready # <<>> /\ Raises(Present(engine, Head(ready)))
      minute == loop.last \div Period(GapFreq)
  IN /\ proc = "live" /\ loop.at = "run"
     /\ bars = <<>> /\ events = <<>>
     /\ engine' = [engine EXCEPT !.processed = FALSE]
     /\ snapshots' = IF ready = <<>> THEN <<>> ELSE Tail(ready)
     /\ delivered' = IF ready = <<>> \/ raises THEN delivered ELSE Routed
     /\ IF raises
        THEN proc' = "dead" /\ UNCHANGED <<loop, saver>>
        ELSE /\ loop' = [loop EXCEPT !.at = "tick", !.minute = minute]
             /\ saver' = IF minute = loop.minute THEN saver ELSE [saver EXCEPT !.jobs = saver.jobs + 1]
             /\ UNCHANGED proc
     /\ UNCHANGED <<now, crashes, hub, files, published, emitted, since>>

-----------------------------------------------------------------------------
(***************************************************************************)
(* _snapshot_market_data: on db_writer, or on the main loop in a recovery. *)
(***************************************************************************)
\* The bound: after the last crash nothing reads the files, and only a recovery waits for them.
Saves(file) ==
  /\ saver.jobs > 0 /\ saver.at = file
  /\ crashes < MaxCrashes \/ proc = "recovered"

SaveBanks ==
  /\ Saves("banks")
  /\ files' = [files EXCEPT !.banks = File("written", engine.banks)]
  /\ saver' = [saver EXCEPT !.at = "manager"]
  /\ UNCHANGED <<now, proc, crashes, loop, hub, engine, snapshots, history>>

SaveManager ==
  /\ Saves("manager")
  /\ files' = [files EXCEPT !.manager = File("written", cascades)]
  /\ saver' = [jobs |-> saver.jobs - 1, at |-> "banks"]
  /\ UNCHANGED <<now, proc, crashes, loop, hub, engine, snapshots, history>>

\* The market session of a later day, in a process of its own.  The files have no date and
\* stay; db_writer ends the job it is at and drops those that wait.
NextDay ==
  /\ proc = "live" => loop.at = "tick"
  /\ saver.at = "banks"
  /\ proc' = "live"
  /\ loop' = FreshLoop
  /\ bars' = <<>> /\ events' = <<>> /\ snapshots' = <<>>
  /\ cascades' = FreshCascades
  /\ engine' = FreshEngine([f \in Freqs |-> EmptyBank])
  /\ saver' = [jobs |-> 0, at |-> "banks"]
  /\ delivered' = <<>>
  /\ published' = NoHistory(<<>>)
  /\ emitted' = NoHistory([f \in Freqs |-> <<>>])
  /\ since' = [start |-> now, recovered |-> FALSE]
  /\ UNCHANGED <<now, crashes, files>>

\* The files are written in place: a crash may leave the one at hand torn.
Crash ==
  /\ proc # "down"
  /\ crashes < MaxCrashes
  /\ crashes' = crashes + 1
  /\ proc' = "down"
  /\ \/ UNCHANGED files
     \/ /\ saver.jobs > 0
        /\ files' = [files EXCEPT ![saver.at].is = "torn"]
  /\ loop' = FreshLoop
  /\ bars' = <<>> /\ events' = <<>> /\ snapshots' = <<>>
  /\ cascades' = FreshCascades
  /\ engine' = FreshEngine(NoBanks)
  /\ saver' = [jobs |-> 0, at |-> "banks"]
  /\ delivered' = <<>>
  /\ published' = NoHistory(<<>>)
  /\ emitted' = NoHistory([f \in Freqs |-> <<>>])
  /\ since' = [start |-> now, recovered |-> TRUE]
  /\ UNCHANGED now

-----------------------------------------------------------------------------
(***************************************************************************)
(* The recovery: restore, and _market_data_recovery                        *)
(***************************************************************************)
\* get_last_closes: a price of 0.0 stands for an instrument without one.
GapRow(banks) == LastRow(banks[GapFreq])
HasClose(banks, c) == HasPrices(GapRow(banks).cells[First][c])

\* "not last_ts or not last_closes"
CannotFill(banks) ==
  \/ banks = NoBanks
  \/ View(banks[GapFreq]) = <<>>
  \/ \A c \in Instruments : GapRow(banks).cells[First][c] = None

\* fill_gap: from the interval after the later of the resampler's and the bank's time stamps.
GapStart(banks, all, c) ==
  LET resampler == all[c][First][1].end
      row == GapRow(banks).end
  IN (IF resampler > row THEN resampler ELSE row) + 1

GapBars(banks, all) ==
  LET start == [c \in Instruments |-> GapStart(banks, all, c)]
      at(s) == Only(Universe, {c \in Instruments : HasClose(banks, c) /\ start[c] + s <= now})
  IN FlattenSeq([s \in 1..now |->
       [i \in DOMAIN at(s) |->
          [con |-> at(s)[i], bar |-> Ohlc(start[at(s)[i]] + s - 1, start[at(s)[i]] + s, -1)]]])

Ingested(all, gap) ==
  FoldLeft(LAMBDA s, b : [all |-> PushedBar(s.all, b.con, b.bar),
                          events |-> s.events \o EventsOf(s.all, b.con, b.bar)],
           [all |-> all, events |-> <<>>], gap)

Recover ==
  LET banks == files.banks.data
      all == files.manager.data
      gap == IF CannotFill(banks) THEN <<>> ELSE GapBars(banks, all)
      ingested == Ingested(all, gap)
      filled == ProcessAll(FreshEngine(banks), ingested.events, TRUE)
  IN /\ proc = "down"
     /\ files.banks.is # "torn" /\ files.manager.is # "torn"
     /\ proc' = "recovered"
     /\ cascades' = ingested.all
     /\ engine' = [filled EXCEPT !.processed = FALSE, !.cross = NothingMissed]
     /\ snapshots' = IF filled.processed THEN <<HasFeatures(filled)>> ELSE <<>>
     /\ saver' = [jobs |-> IF CannotFill(banks) THEN 0 ELSE 1, at |-> "banks"]
     /\ since' = [since EXCEPT !.start = now]
     /\ UNCHANGED <<now, crashes, loop, bars, events, files, delivered, published, emitted>>

\* start_market_runtime, when the market is open.
StartLoop ==
  /\ proc = "recovered"
  /\ saver.jobs = 0
  /\ proc' = "live"
  /\ since' = [since EXCEPT !.start = now]
  /\ UNCHANGED <<now, crashes, loop, hub, engine, snapshots, disk, delivered, published, emitted>>

-----------------------------------------------------------------------------
Next ==
  \/ TimePasses
  \/ StartTick
  \/ IngestBar \/ ProcessEvents \/ FinishTick
  \/ SaveBanks \/ SaveManager
  \/ NextDay \/ Crash \/ Recover \/ StartLoop

Spec == Init /\ [][Next]_vars

-----------------------------------------------------------------------------
(***************************************************************************)
(* Properties                                                              *)
(***************************************************************************)
TicksWithin(c, start, end) ==
  FoldLeft(LAMBDA sum, b : IF b.start >= start /\ b.end <= end THEN sum + b.ticks ELSE sum,
           0, published[c])

\* A candle of the cascade (ResampleCascade.push_5s) has the length of its frequency, begins
\* where the one before it ended and holds every tick between, and none is late.  Only the
\* first candle after a recovery, which may hold bars of two processes, is exempt.
CandlesAreTrue ==
  \A c \in Instruments, f \in Freqs \ {0} :
    LET E == emitted[c][f]
    IN \A j \in DOMAIN E : (j > 1 \/ ~since.recovered) =>
         /\ E[j].end - E[j].start = Period(f)
         /\ E[j].ticks = TicksWithin(c, E[j].start, E[j].end)
         /\ j > 1 => E[j].start = E[j - 1].end
         /\ j = Len(E) => published[c][Len(published[c])].end - E[j].end < Period(f)

\* The ring of MarketDataBank: a cell holds the candle that ended with its row or nothing,
\* though rows are used again and two instruments fill them.  In the rows written since
\* runtime_loop started time grows and the counter of the first kind is right, so that
\* cross_asset features of that kind are computed over whole rows only.  Neither holds of the
\* rows of a recovery, which may repeat a bar, nor the second of the other kinds, whose
\* counters NextRow leaves.
BanksAreTrue ==
  \A f \in DOMAIN engine.banks :
    LET rows == View(engine.banks[f])
        cells(j) == rows[j].cells
    IN /\ \A j \in DOMAIN rows, k \in KindSet, c \in Instruments :
            cells(j)[k][c] # None => cells(j)[k][c].end = rows[j].end
       /\ \A j \in DOMAIN rows : rows[j].end > since.start =>
            /\ j > 1 => rows[j - 1].end < rows[j].end
            /\ rows[j].filled[First] = Cardinality({c \in Instruments : cells(j)[First][c] # None})
       /\ engine.cross[f] = {}

\* Derived features (process_candle_events) may be computed before the other instruments of
\* an interval have come, because the set of those seen also counts the other kinds and those
\* left over from the interval before; but they lag one candle behind at most: between two
\* ticks they have used every candle of their frequency but the last.  After a recovery, which
\* may leave the cascades of two instruments out of step for good, this holds for frequency 0
\* only.
DerivedFollows ==
  proc = "live" /\ loop.at = "tick" =>
    \A c \in Instruments, f \in Freqs : (f = 0 \/ ~since.recovered) =>
      \A j \in 1..Len(emitted[c][f]) - 1 : engine.derived[f][c] >= emitted[c][f][j].end

\* The predictions of a model reach each portfolio that has a row for the instrument, as a
\* position or only as a target, with an action of the model's type, once, and no other,
\* however many portfolios share the instrument or the model.  Not so of a model with
\* versions of two types, of which the pool keeps the last.
OneType(model) == \A m \in Range(Models) : m.id = model.id => m.type = model.type

SignalsDue ==
  {[portfolio |-> x[1].portfolio, model |-> Pooled(x[2].id), con |-> x[1].con] :
     x \in {y \in Range(Positions) \X {m \in Range(Models) : OneType(m)} :
              y[2].type \in Range(TypesFor(y[1].action))}}

SignalsRouted ==
  delivered # <<>> =>
    {s \in Range(delivered) : OneType(s.model)} = SignalsDue /\ IsInjective(delivered)

\* In a process that did not begin with a recovery no prediction and no feature raises, which
\* would end runtime_loop (run_predictions): every planned instrument has its features from
\* the first snapshot on, whether it traded or not.  Unless the plan has an instrument that
\* did not qualify for the universe, where every run of the predictions raises, or a model
\* that takes features of a higher frequency, where the first one does.
PlanIsServed ==
  \A j \in DOMAIN PredictionPlan : /\ PredictionPlan[j].con \in Range(Universe)
                                   /\ PredictionPlan[j].model.freqs \subseteq {0}

RaisesOnlyRecovered == proc = "dead" => since.recovered \/ ~PlanIsServed
=============================================================================
