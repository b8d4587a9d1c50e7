------------------------------- MODULE LiveFeed -------------------------------
(***************************************************************************)
(* From the quotes to the rows of five seconds (data/live.py), and the     *)
(* worker threads that store them (ManagedThread of core/thread.py) and    *)
(* the log (monitoring/log_service.py).                                    *)
(*                                                                         *)
(* The main loop adds ticks to the lists of an OHLCAggregator;             *)
(* runtime_loop swaps the lists out at every boundary of five seconds,     *)
(* publishes the bars and submits them to db_writer, which stores one      *)
(* batch after the other.  LogWorker, a thread of its own, collects the    *)
(* records of the log and stores them in batches.  Nothing locks the       *)
(* lists: a thread may lose the interpreter between two statements, not    *)
(* within one.  The list of time stamps, which nothing reads, is left out, *)
(* and of the three kinds (last, bid, ask) one is modelled: they do not    *)
(* meet.                                                                   *)
(*                                                                         *)
(* Time is counted in intervals of AGG_INTERVAL, ticks are numbers.        *)
(***************************************************************************)
EXTENDS Integers, Sequences, Functions

CONSTANTS
  Pipelines,     \* the instruments, in the order of LiveDataHub._pipelines
  MaxTime,       \* bound: intervals
  MaxTicks,      \* bound: ticks
  MaxRecords,    \* bound: records of the log
  BatchSize      \* LogWorker: batch_size

ASSUME FeedAssumption ==
  /\ MaxTime \in Nat /\ MaxTicks \in Nat /\ MaxRecords \in Nat
  /\ BatchSize \in Nat \ {0}
  /\ Pipelines \in Seq(Range(Pipelines))

VARIABLES
  now,           \* the interval of the wall clock
  ticks,         \* history: <<instrument, interval>> of every tick
  prices,        \* OHLCAggregator.prices
  volumes,       \* OHLCAggregator.volumes
  adding,        \* the main loop is between the two appends of add
  last,          \* _last_agg_time, -1 for None
  loop,          \* where runtime_loop is
  bars,          \* history: the bars published, in order
  jobs,          \* ManagedThread._jobs of db_writer: the intervals of the batches
  writer,        \* what db_writer is doing
  submitted, stored, failed,      \* history: intervals, in order
  stage,         \* _stop_market_threads: which thread has been told to stop
  queue,         \* LogService.queue
  logged,        \* history: the records made so far, numbered from 1
  worker,        \* LogWorker: its batch and whether it is alive
  logs,          \* trading.logs
  unlogged       \* history: the batch that failed

feed == <<now, ticks, prices, volumes, adding, last, loop, bars>>
store == <<jobs, writer, submitted, stored, failed>>
log == <<queue, logged, worker, logs, unlogged>>
vars == <<feed, store, stage, log>>

Instruments == Range(Pipelines)
NoTick == 0

Empty == [i \in Instruments |-> <<>>]
Resting == [at |-> "tick", boundary |-> 0, pipeline |-> 1, prices |-> <<>>, volumes |-> <<>>]

Init ==
  /\ now = 0
  /\ ticks = <<>>
  /\ prices = Empty /\ volumes = Empty
  /\ adding = NoTick
  /\ last = -1
  /\ loop = Resting
  /\ bars = <<>>
  /\ jobs = <<>> /\ submitted = <<>> /\ stored = <<>> /\ failed = <<>>
  /\ writer = [at |-> "get", job |-> 0]
  /\ stage = "running"
  /\ queue = <<>> /\ logged = 0
  /\ worker = [alive |-> TRUE, batch |-> <<>>]
  /\ logs = <<>> /\ unlogged = <<>>

TimePasses ==
  /\ now < MaxTime
  /\ now' = now + 1
  /\ UNCHANGED <<ticks, prices, volumes, adding, last, loop, bars, store, stage, log>>

-----------------------------------------------------------------------------
(***************************************************************************)
(* The main loop: ingest_ticker, OHLCAggregator.add                        *)
(***************************************************************************)
\* The main loop waits in join from the first stop_thread on.
MainLoopRuns == stage = "running"

AddPrice(i) ==
  LET t == Len(ticks) + 1
  IN /\ MainLoopRuns /\ adding = NoTick /\ Len(ticks) < MaxTicks
     /\ ticks' = Append(ticks, <<i, now>>)
     /\ prices' = [prices EXCEPT ![i] = Append(@, t)]
     /\ adding' = t
     /\ UNCHANGED <<now, volumes, last, loop, bars, store, stage, log>>

AddVolume ==
  /\ adding # NoTick
  /\ volumes' = [volumes EXCEPT ![ticks[adding][1]] = Append(@, adding)]
  /\ adding' = NoTick
  /\ UNCHANGED <<now, ticks, prices, last, loop, bars, store, stage, log>>

-----------------------------------------------------------------------------
(***************************************************************************)
(* runtime_loop: aggregate_and_publish_candles                             *)
(***************************************************************************)
Flushed == Pipelines[loop.pipeline]

\* An interval begins with the first pipeline, and ends at once where there is none.
FirstStep == IF Pipelines = <<>> THEN "submit" ELSE "prices"

\* The boundary of the tick; the first one only notes it.
StartTick ==
  /\ loop.at = "tick"
  /\ stage = "running"
  /\ last < now
  /\ IF last = -1
     THEN last' = now /\ UNCHANGED loop
     ELSE /\ loop' = [loop EXCEPT !.at = FirstStep, !.boundary = now, !.pipeline = 1]
          /\ UNCHANGED last
  /\ UNCHANGED <<now, ticks, prices, volumes, adding, bars, store, stage, log>>

\* Mutant: the list is copied, not swapped.
SwapPricesByCopy ==
  /\ loop.at = "prices"
  /\ loop' = [loop EXCEPT !.at = "volumes", !.prices = prices[Flushed]]
  /\ UNCHANGED <<now, ticks, prices, volumes, adding, last, bars, store, stage, log>>

SwapPrices ==
  /\ loop.at = "prices"
  /\ loop' = [loop EXCEPT !.at = "volumes", !.prices = prices[Flushed]]
  /\ prices' = [prices EXCEPT ![Flushed] = <<>>]
  /\ UNCHANGED <<now, ticks, volumes, adding, last, bars, store, stage, log>>

SwapVolumes ==
  /\ loop.at = "volumes"
  /\ loop' = [loop EXCEPT !.at = "publish", !.volumes = volumes[Flushed]]
  /\ volumes' = [volumes EXCEPT ![Flushed] = <<>>]
  /\ UNCHANGED <<now, ticks, prices, adding, last, bars, store, stage, log>>

\* The bar of flush: without a price it is all zeros, whatever the volumes are.
FlushedBar ==
  [instrument |-> Flushed, start |-> last, prices |-> loop.prices,
   volumes |-> IF loop.prices = <<>> THEN <<>> ELSE loop.volumes]

Publish ==
  /\ loop.at = "publish"
  /\ bars' = Append(bars, FlushedBar)
  /\ loop' = IF loop.pipeline < Len(Pipelines)
             THEN [loop EXCEPT !.at = "prices", !.pipeline = loop.pipeline + 1]
             ELSE [loop EXCEPT !.at = "submit"]
  /\ UNCHANGED <<now, ticks, prices, volumes, adding, last, store, stage, log>>

\* persist_bars_async, and on to the next interval or to the rest of the tick.
SubmitBatch ==
  /\ loop.at = "submit"
  /\ jobs' = Append(jobs, last)
  /\ submitted' = Append(submitted, last)
  /\ last' = last + 1
  /\ loop' = IF last + 1 < loop.boundary
             THEN [loop EXCEPT !.at = FirstStep, !.pipeline = 1]
             ELSE Resting
  /\ UNCHANGED <<now, ticks, prices, volumes, adding, bars, writer, stored, failed, stage, log>>

\* The stop event is noticed between two ticks, where an exception of the steps after this one
\* ends the thread too; one of a subscriber of the bars ends it after Publish.
LoopEnds ==
  /\ \/ loop.at = "tick"
     \/ loop.at = "prices" /\ loop.pipeline > 1
     \/ loop.at = "submit"
  /\ loop' = [loop EXCEPT !.at = "done"]
  /\ UNCHANGED <<now, ticks, prices, volumes, adding, last, bars, store, stage, log>>

-----------------------------------------------------------------------------
(***************************************************************************)
(* db_writer: ManagedThread._run                                           *)
(***************************************************************************)
StopRequested == stage = "stopped"

\* Mutant: a stack of jobs instead of a queue.
GetLastJob ==
  /\ writer.at = "get"
  /\ ~StopRequested
  /\ jobs # <<>>
  /\ writer' = [at |-> "run", job |-> jobs[Len(jobs)]]
  /\ jobs' = SubSeq(jobs, 1, Len(jobs) - 1)
  /\ UNCHANGED <<feed, submitted, stored, failed, stage, log>>

GetJob ==
  /\ writer.at = "get"
  /\ ~StopRequested
  /\ jobs # <<>>
  /\ writer' = [at |-> "run", job |-> Head(jobs)]
  /\ jobs' = Tail(jobs)
  /\ UNCHANGED <<feed, submitted, stored, failed, stage, log>>

\* Mutant: an exception of the job ends the thread.
RunJobOrDie ==
  /\ writer.at = "run"
  /\ \/ stored' = Append(stored, writer.job) /\ UNCHANGED failed
        /\ writer' = [at |-> "get", job |-> 0]
     \/ failed' = Append(failed, writer.job) /\ UNCHANGED stored
        /\ writer' = [at |-> "left", job |-> 0]
  /\ UNCHANGED <<feed, jobs, submitted, stage, log>>

\* persist_bars, in one transaction; an exception is printed.
RunJob ==
  /\ writer.at = "run"
  /\ writer' = [at |-> "get", job |-> 0]
  /\ \/ stored' = Append(stored, writer.job) /\ UNCHANGED failed
     \/ failed' = Append(failed, writer.job) /\ UNCHANGED stored
  /\ UNCHANGED <<feed, jobs, submitted, stage, log>>

\* The stop event is looked at between two jobs: what is queued stays there.
WriterLeaves ==
  /\ writer.at = "get"
  /\ StopRequested
  /\ writer' = [at |-> "left", job |-> 0]
  /\ UNCHANGED <<feed, jobs, submitted, stored, failed, stage, log>>

\* _stop_market_threads: runtime_loop is joined before db_writer is stopped.
StopLoop ==
  /\ stage = "running"
  /\ adding = NoTick
  /\ stage' = "loop"
  /\ UNCHANGED <<feed, store, log>>

StopWriter ==
  /\ stage = "loop"
  /\ loop.at = "done"
  /\ stage' = "stopped"
  /\ UNCHANGED <<feed, store, log>>

-----------------------------------------------------------------------------
(***************************************************************************)
(* LogService and LogWorker, which nothing stops                           *)
(***************************************************************************)
Log ==
  /\ logged < MaxRecords
  /\ logged' = logged + 1
  /\ queue' = Append(queue, logged')
  /\ UNCHANGED <<feed, store, stage, worker, logs, unlogged>>

Collected == Append(worker.batch, Head(queue))

\* The batch is looked at when a record has come, never otherwise.
TakeRecord(step) ==
  /\ worker.alive /\ queue # <<>>
  /\ queue' = Tail(queue)
  /\ step
  /\ UNCHANGED <<feed, store, stage, logged>>

KeepRecord ==
  TakeRecord(/\ Len(Collected) < BatchSize
             /\ worker' = [worker EXCEPT !.batch = Collected]
             /\ UNCHANGED <<logs, unlogged>>)

\* The batch is full, or flush_interval is over, as it may be with any record.
FlushLog ==
  TakeRecord(/\ logs' = logs \o Collected
             /\ worker' = [worker EXCEPT !.batch = <<>>]
             /\ UNCHANGED unlogged)

\* An exception of persist_logs leaves the loop, and _run ends the thread.
LogWorkerDies ==
  TakeRecord(/\ unlogged' = Collected
             /\ worker' = [alive |-> FALSE, batch |-> <<>>]
             /\ UNCHANGED logs)

-----------------------------------------------------------------------------
MainLoop == (\E i \in Instruments : AddPrice(i)) \/ AddVolume
Aggregate == StartTick \/ SwapPrices \/ SwapVolumes \/ Publish \/ SubmitBatch
Writer == GetJob \/ RunJob \/ WriterLeaves

Next ==
  \/ TimePasses
  \/ MainLoop
  \/ Aggregate \/ LoopEnds
  \/ Writer
  \/ StopLoop \/ StopWriter
  \/ Log \/ KeepRecord \/ FlushLog \/ LogWorkerDies

Spec == Init /\ [][Next]_vars /\ WF_vars(Writer)

-----------------------------------------------------------------------------
(***************************************************************************)
(* Properties                                                              *)
(***************************************************************************)
InFlight(i, at) == loop.at \in at /\ Flushed = i

\* The prices of i in order: those of its bars, the snapshot of the flush, then the list.
Places == 1 .. Len(bars) + 2

PricesIn(i, b) ==
  IF b \in DOMAIN bars
  THEN IF bars[b].instrument = i THEN bars[b].prices ELSE <<>>
  ELSE IF b = Len(bars) + 1
  THEN IF InFlight(i, {"volumes", "publish"}) THEN loop.prices ELSE <<>>
  ELSE prices[i]

\* Every price is in one bar or waits for the next, in the order of the ticks.
PricesConserved ==
  \A i \in Instruments :
    /\ UNION {Range(PricesIn(i, b)) : b \in Places} = {t \in DOMAIN ticks : ticks[t][1] = i}
    /\ \A a, b \in Places : \A j \in DOMAIN PricesIn(i, a), k \in DOMAIN PricesIn(i, b) :
         a < b \/ (a = b /\ j < k) => PricesIn(i, a)[j] < PricesIn(i, b)[k]

\* Of the instrument of b, bar c is the one after it; b is the last one so far.
NextBar(b, c) ==
  /\ b < c /\ bars[b].instrument = bars[c].instrument
  /\ \A d \in b + 1 .. c - 1 : bars[d].instrument # bars[b].instrument

NewestBar(b) == \A d \in b + 1 .. Len(bars) : bars[d].instrument # bars[b].instrument

\* The lists were swapped around the two appends, and the flush that took the volume, next
\* to the one that took the price, found no price: its bar is all zeros.
Split(t) ==
  \E c \in DOMAIN bars :
    /\ bars[c].instrument = ticks[t][1] /\ bars[c].prices = <<>>
    /\ \/ \E b \in DOMAIN bars :
            t \in Range(bars[b].prices) /\ (NextBar(b, c) \/ NextBar(c, b))
       \/ /\ NewestBar(c)
          /\ \E b \in {Len(bars) + 1, Len(bars) + 2} : t \in Range(PricesIn(ticks[t][1], b))

VolumesConserved ==
  \A t \in DOMAIN ticks :
    \/ t = adding
    \/ t \in Range(volumes[ticks[t][1]])
    \/ InFlight(ticks[t][1], {"publish"}) /\ t \in Range(loop.volumes)
    \/ \E b \in DOMAIN bars : t \in Range(bars[b].volumes)
    \/ Split(t)

\* A bar holds no tick older than the interval it says, but for the first batch of the
\* process: the lists were being filled before runtime_loop started.
FreshBars ==
  \A b \in DOMAIN bars : \A k \in DOMAIN bars[b].prices :
    ticks[bars[b].prices[k]][2] >= bars[b].start \/ b <= Len(Pipelines)

\* Although nothing locks the lists of OHLCAggregator (add against flush), no price is lost,
\* repeated or moved past another, the volume of a tick is lost only by a flush that splits
\* it from its price, and no bar but the first holds older ticks than its interval.
TicksConserved == PricesConserved /\ VolumesConserved /\ FreshBars

Handled == Range(stored) \cup Range(failed)
Ascending(s) == \A j, k \in DOMAIN s : j < k => s[j] < s[k]

\* The batches that db_writer has not done yet, the one at hand first.
Undone == (IF writer.at = "run" THEN <<writer.job>> ELSE <<>>) \o jobs

BatchesInOrder ==
  LET done == Len(submitted) - Len(Undone)
  IN /\ done >= 0
     /\ \A k \in DOMAIN Undone : Undone[k] = submitted[done + k]
     /\ Handled = {submitted[k] : k \in 1 .. done}
     /\ Range(stored) \cap Range(failed) = {}
     /\ Ascending(submitted) /\ Ascending(stored) /\ Ascending(failed)

RecordsInOrder == logs \o unlogged \o worker.batch \o queue = [k \in 1..logged |-> k]

\* db_writer and LogWorker (ManagedThread._run) skip and reorder nothing: a batch of bars
\* that was submitted is stored after those submitted before it, or failed, or is still with
\* the thread, for good if that has left; of the log nothing is missing but what is from
\* the batch on with which the worker died.
StoredInOrder == BatchesInOrder /\ RecordsInOrder

\* A batch that was submitted is stored or fails, unless the thread is told to stop first:
\* no exception of a job ends db_writer.  The interval MaxTime is never over.
BatchesHandled ==
  \A m \in 0..MaxTime - 1 :
    m \in Range(submitted) ~> m \in Handled \/ StopRequested
=============================================================================
