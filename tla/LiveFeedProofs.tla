---------------------------- MODULE LiveFeedProofs ----------------------------
(***************************************************************************)
(* Proofs about LiveFeed for any instruments, ticks, intervals, log        *)
(* records and batch size: no tick is lost between the lists and the bars, *)
(* and db_writer and LogWorker skip and reorder nothing.                   *)
(*                                                                         *)
(* The log has the invariant LogInv, the batches StoreInv.  The feed has   *)
(* three: no price leaves its order on the way from list to list, each     *)
(* volume is where VolumesInv allows, and FreshInv knows which swaps of    *)
(* the running flush are done.                                             *)
(***************************************************************************)
EXTENDS LiveFeed, SequenceTheorems, TLAPS

(***************************************************************************)
(* The log.                                                                *)
(***************************************************************************)
LogInv ==
  /\ queue \in Seq(Nat) /\ logs \in Seq(Nat) /\ unlogged \in Seq(Nat) /\ logged \in Nat
  /\ worker \in [alive : BOOLEAN, batch : Seq(Nat)]
  /\ worker.alive => unlogged = <<>>
  /\ RecordsInOrder

LEMMA ConcatNat ==
  ASSUME NEW x \in Seq(Nat), NEW y \in Seq(Nat), NEW z \in Seq(Nat)
  PROVE  (x \o y) \o z = x \o (y \o z)
OBVIOUS

Joined(x, y, z) == (x \o y) \o z

LEMMA TakenRecord ==
  ASSUME NEW x \in Seq(Nat), NEW b \in Seq(Nat), NEW q \in Seq(Nat), q # <<>>
  PROVE  /\ Head(q) \in Nat /\ Tail(q) \in Seq(Nat) /\ Append(b, Head(q)) \in Seq(Nat)
         /\ Joined(x, Append(b, Head(q)), Tail(q)) = Joined(x, b, q)
<1> DEFINE h == <<Head(q)>>
           t == Tail(q)
<1>1. Head(q) \in Nat /\ t \in Seq(Nat) /\ h \in Seq(Nat)
  OBVIOUS
<1>2. q = h \o t
  OBVIOUS
<1>3. Append(b, Head(q)) = b \o h
  BY <1>1, AppendIsConcat
<1> HIDE DEF h, t
<1>4. (x \o (b \o h)) \o t = ((x \o b) \o h) \o t
  BY <1>1, ConcatNat
<1>5. x \o b \in Seq(Nat)
  OBVIOUS
<1>6. ((x \o b) \o h) \o t = (x \o b) \o (h \o t)
  BY <1>1, <1>5, ConcatNat
<1>7. Append(b, Head(q)) \in Seq(Nat)
  BY <1>1
<1>8. QED
  BY <1>1, <1>2, <1>3, <1>4, <1>6, <1>7 DEF t, Joined

LEMMA LogInit == Init => LogInv
<1> SUFFICES ASSUME Init PROVE LogInv
  OBVIOUS
<1>1. RecordsInOrder
  BY DEF Init, RecordsInOrder
<1>2. QED
  BY <1>1 DEF Init, LogInv

LEMMA LogNext == LogInv /\ [Next]_vars => LogInv'
<1> SUFFICES ASSUME LogInv, [Next]_vars PROVE LogInv'
  OBVIOUS
<1> DEFINE b == worker.batch
           c == Append(b, Head(queue))
<1>1. /\ queue \in Seq(Nat) /\ logs \in Seq(Nat) /\ unlogged \in Seq(Nat) /\ logged \in Nat
      /\ worker \in [alive : BOOLEAN, batch : Seq(Nat)] /\ b \in Seq(Nat)
      /\ ((logs \o unlogged) \o b) \o queue = [k \in 1 .. logged |-> k]
  BY DEF LogInv, RecordsInOrder
<1> DEFINE x == logs \o unlogged
<1>2. x \in Seq(Nat) /\ x \o b \in Seq(Nat)
  BY <1>1
<1> HIDE DEF x
<1>3. CASE Log
  <2> DEFINE y == x \o b
  <2>1. /\ logged' = logged + 1 /\ queue' = Append(queue, logged + 1)
        /\ UNCHANGED <<worker, logs, unlogged>>
    BY <1>3 DEF Log
  <2>2. y \o Append(queue, logged + 1) = Append(y \o queue, logged + 1)
    <3>1. logged + 1 \in Nat /\ <<logged + 1>> \in Seq(Nat) /\ y \o queue \in Seq(Nat)
      BY <1>1, <1>2
    <3> HIDE DEF y
    <3>2. Append(queue, logged + 1) = queue \o <<logged + 1>>
      BY <1>1, <3>1, AppendIsConcat
    <3>3. Append(y \o queue, logged + 1) = (y \o queue) \o <<logged + 1>>
      BY <3>1, AppendIsConcat
    <3>4. (y \o queue) \o <<logged + 1>> = y \o (queue \o <<logged + 1>>)
      <4>1. y \in Seq(Nat)
        BY <1>2 DEF y
      <4>2. QED
        BY <1>1, <3>1, <4>1, ConcatNat
    <3>5. QED
      BY <3>2, <3>3, <3>4
  <2>3. Append([k \in 1 .. logged |-> k], logged + 1) = [k \in 1 .. logged + 1 |-> k]
    BY <1>1
  <2>4. queue' \in Seq(Nat) /\ logged' \in Nat
    BY <1>1, <2>1
  <2> HIDE DEF y
  <2>5. RecordsInOrder'
    BY <1>1, <2>1, <2>2, <2>3 DEF RecordsInOrder, x, y
  <2>6. QED
    BY <1>1, <2>1, <2>4, <2>5 DEF LogInv
<1>4. ASSUME worker.alive, queue # <<>>, queue' = Tail(queue), logged' = logged,
             \/ worker' = [worker EXCEPT !.batch = c] /\ UNCHANGED <<logs, unlogged>>
             \/ logs' = logs \o c /\ worker' = [worker EXCEPT !.batch = <<>>] /\ UNCHANGED unlogged
             \/ unlogged' = c /\ worker' = [alive |-> FALSE, batch |-> <<>>] /\ UNCHANGED logs
      PROVE  LogInv'
  <2>1. /\ Tail(queue) \in Seq(Nat) /\ c \in Seq(Nat)
        /\ (x \o c) \o Tail(queue) = (x \o b) \o queue
    <3>1. queue \in Seq(Nat) /\ b \in Seq(Nat) /\ x \in Seq(Nat) /\ queue # <<>>
      BY <1>1, <1>2, <1>4
    <3> HIDE DEF b, c
    <3>2. /\ Tail(queue) \in Seq(Nat) /\ Append(b, Head(queue)) \in Seq(Nat)
          /\ Joined(x, Append(b, Head(queue)), Tail(queue)) = Joined(x, b, queue)
      BY <3>1, TakenRecord
    <3>3. QED
      BY <3>2 DEF c, Joined
  <2>2. unlogged = <<>> /\ x = logs
    BY <1>1, <1>4 DEF LogInv, x
  <2> HIDE DEF b, c
  <2>3. logs \o c \in Seq(Nat) /\ <<>> \in Seq(Nat)
    BY <1>1, <2>1
  <2>4. queue' \in Seq(Nat) /\ logs' \in Seq(Nat) /\ unlogged' \in Seq(Nat) /\ logged' \in Nat
    BY <1>1, <1>4, <2>1, <2>3
  <2>8. worker' \in [alive : BOOLEAN, batch : Seq(Nat)] /\ (worker'.alive => unlogged' = <<>>)
    <3>1. \A s \in Seq(Nat) : [worker EXCEPT !.batch = s] \in [alive : BOOLEAN, batch : Seq(Nat)]
      BY <1>1
    <3>2. /\ [alive |-> FALSE, batch |-> <<>>] \in [alive : BOOLEAN, batch : Seq(Nat)]
          /\ ~ [alive |-> FALSE, batch |-> <<>>].alive
      BY <2>3
    <3>3. QED
      BY <1>4, <2>1, <2>2, <2>3, <3>1, <3>2
  <2>5. ((logs' \o unlogged') \o worker'.batch) = logs \o c
    <3>1. CASE worker' = [worker EXCEPT !.batch = c] /\ UNCHANGED <<logs, unlogged>>
      <4>1. worker'.batch = c
        BY <1>1, <3>1
      <4>2. QED
        BY <2>2, <3>1, <4>1
    <3>2. CASE logs' = logs \o c /\ worker' = [worker EXCEPT !.batch = <<>>] /\ UNCHANGED unlogged
      <4>1. worker'.batch = <<>> /\ unlogged' = <<>>
        BY <1>1, <2>2, <3>2
      <4>2. QED
        BY <2>3, <3>2, <4>1, ConcatEmptySeq
    <3>3. CASE unlogged' = c /\ worker' = [alive |-> FALSE, batch |-> <<>>] /\ UNCHANGED logs
      <4>1. worker'.batch = <<>>
        BY <3>3
      <4>2. QED
        BY <2>3, <3>3, <4>1, ConcatEmptySeq
    <3>4. QED
      BY <1>4, <3>1, <3>2, <3>3
  <2>6. RecordsInOrder'
    BY <1>1, <1>4, <2>1, <2>2, <2>5 DEF RecordsInOrder, x
  <2>7. QED
    BY <2>4, <2>6, <2>8 DEF LogInv
<1>5. CASE KeepRecord
  BY <1>4, <1>5 DEF KeepRecord, TakeRecord, Collected
<1>6. CASE FlushLog
  BY <1>4, <1>6 DEF FlushLog, TakeRecord, Collected
<1>7. CASE LogWorkerDies
  BY <1>4, <1>7 DEF LogWorkerDies, TakeRecord, Collected
<1>8. CASE UNCHANGED log
  <2>1. UNCHANGED <<queue, logged, worker, logs, unlogged>>
    BY <1>8 DEF log
  <2>2. QED
    BY <2>1 DEF LogInv, RecordsInOrder
<1>9. Log \/ KeepRecord \/ FlushLog \/ LogWorkerDies \/ UNCHANGED log
  BY DEF Next, TimePasses, MainLoop, AddPrice, AddVolume, Aggregate, StartTick, SwapPrices,
         SwapVolumes, Publish, SubmitBatch, LoopEnds, Writer, GetJob, RunJob, WriterLeaves,
         StopLoop, StopWriter, vars
<1>10. QED
  BY <1>3, <1>5, <1>6, <1>7, <1>8, <1>9

(***************************************************************************)
(* What the variables of the feed hold, and where runtime_loop is in an    *)
(* interval.                                                               *)
(***************************************************************************)
Ticks == Nat \ {0}
TickSeq == Seq(Ticks)

LoopAt == {"tick", "prices", "volumes", "publish", "submit", "done"}
Loops == [at : LoopAt, boundary : Nat, pipeline : Nat \ {0}, prices : TickSeq, volumes : TickSeq]
Bars == [instrument : Instruments, start : Nat, prices : TickSeq, volumes : TickSeq]

FeedTypes ==
  /\ now \in Nat
  /\ ticks \in Seq(Instruments \X Nat)
  /\ prices \in [Instruments -> TickSeq]
  /\ volumes \in [Instruments -> TickSeq]
  /\ adding \in {NoTick, Len(ticks)}
  /\ last \in Nat \cup {-1}
  /\ loop \in Loops
  /\ bars \in Seq(Bars)

\* The loop is between the boundaries of an interval, at a pipeline; the first batch of bars
\* is complete when the loop rests again.
LoopInv ==
  /\ last <= now
  /\ last = -1 => loop.at \in {"tick", "done"} /\ bars = <<>> /\ submitted = <<>>
  /\ loop.at \notin {"tick", "done"} => last < loop.boundary /\ loop.boundary <= now
  /\ loop.at \in {"prices", "volumes", "publish"} => loop.pipeline \in DOMAIN Pipelines
  /\ Len(bars) < Len(Pipelines) =>
       \/ loop.at = "done"
       \/ loop.at = "tick" /\ bars = <<>>
       \/ loop.at \in {"prices", "volumes", "publish"} /\ Len(bars) = loop.pipeline - 1

LEMMA PipelinesHaveInstruments ==
  /\ Pipelines \in Seq(Instruments) /\ Len(Pipelines) \in Nat
  /\ DOMAIN Pipelines = 1 .. Len(Pipelines)
  /\ \A p \in DOMAIN Pipelines : Pipelines[p] \in Instruments
  /\ \A i \in Instruments : \E p \in DOMAIN Pipelines : Pipelines[p] = i
  /\ Pipelines # <<>> => 1 \in DOMAIN Pipelines
<1>1. Pipelines \in Seq(Instruments)
  BY FeedAssumption DEF Instruments
<1>2. \A i \in Instruments : \E p \in DOMAIN Pipelines : Pipelines[p] = i
  BY DEF Instruments, Range
<1>3. Len(Pipelines) \in Nat /\ DOMAIN Pipelines = 1 .. Len(Pipelines)
  BY <1>1
<1>4. \A p \in DOMAIN Pipelines : Pipelines[p] \in Instruments
  BY DEF Instruments, Range
<1>5. Pipelines # <<>> => 1 \in DOMAIN Pipelines
  BY <1>1, <1>3
<1>6. QED
  BY <1>1, <1>2, <1>3, <1>4, <1>5

LEMMA LoopInit == Init => FeedTypes /\ LoopInv
<1> SUFFICES ASSUME Init PROVE FeedTypes /\ LoopInv
  OBVIOUS
<1>1. <<>> \in TickSeq /\ Empty \in [Instruments -> TickSeq]
  BY DEF TickSeq, Empty
<1>2. Resting \in Loops /\ Resting.at = "tick"
  BY <1>1 DEF Resting, Loops, LoopAt
<1>3. ticks \in Seq(Instruments \X Nat) /\ Len(ticks) = 0 /\ bars \in Seq(Bars)
  BY DEF Init
<1>4. FeedTypes
  BY <1>1, <1>2, <1>3 DEF Init, FeedTypes, NoTick
<1>5. LoopInv
  BY <1>2 DEF Init, LoopInv
<1>6. QED
  BY <1>4, <1>5

LEMMA LoopNext == FeedTypes /\ LoopInv /\ [Next]_vars => FeedTypes' /\ LoopInv'
<1> SUFFICES ASSUME FeedTypes, LoopInv, [Next]_vars PROVE FeedTypes' /\ LoopInv'
  OBVIOUS
<1> USE DEF NoTick
<1>p. /\ now \in Nat /\ ticks \in Seq(Instruments \X Nat) /\ prices \in [Instruments -> TickSeq]
      /\ volumes \in [Instruments -> TickSeq] /\ adding \in {0, Len(ticks)}
      /\ last \in Nat \cup {-1} /\ loop \in Loops /\ bars \in Seq(Bars)
  BY DEF FeedTypes
<1>l. /\ loop.at \in LoopAt /\ loop.boundary \in Nat /\ loop.pipeline \in Nat \ {0}
      /\ loop.prices \in TickSeq /\ loop.volumes \in TickSeq /\ Len(bars) \in Nat
      /\ Len(ticks) \in Nat
  BY <1>p DEF Loops
<1>e. <<>> \in TickSeq /\ Resting \in Loops /\ Resting.at = "tick"
  <2>1. <<>> \in TickSeq
    BY DEF TickSeq
  <2>2. QED
    BY <2>1 DEF Resting, Loops, LoopAt
<1>i. ASSUME NEW at \in LoopAt
      PROVE  /\ [loop EXCEPT !.at = at] \in Loops
             /\ [loop EXCEPT !.at = at].at = at
             /\ [loop EXCEPT !.at = at].boundary = loop.boundary
             /\ [loop EXCEPT !.at = at].pipeline = loop.pipeline
  BY <1>p, <1>i DEF Loops
<1>s. ASSUME NEW at \in LoopAt, NEW s \in TickSeq
      PROVE  /\ [loop EXCEPT !.at = at, !.prices = s] \in Loops
             /\ [loop EXCEPT !.at = at, !.prices = s].at = at
             /\ [loop EXCEPT !.at = at, !.prices = s].boundary = loop.boundary
             /\ [loop EXCEPT !.at = at, !.prices = s].pipeline = loop.pipeline
  BY <1>p, <1>s DEF Loops
<1>v. ASSUME NEW at \in LoopAt, NEW s \in TickSeq
      PROVE  /\ [loop EXCEPT !.at = at, !.volumes = s] \in Loops
             /\ [loop EXCEPT !.at = at, !.volumes = s].at = at
             /\ [loop EXCEPT !.at = at, !.volumes = s].boundary = loop.boundary
             /\ [loop EXCEPT !.at = at, !.volumes = s].pipeline = loop.pipeline
  BY <1>p, <1>v DEF Loops
<1>k. ASSUME NEW at \in LoopAt, NEW k \in Nat \ {0}
      PROVE  /\ [loop EXCEPT !.at = at, !.pipeline = k] \in Loops
             /\ [loop EXCEPT !.at = at, !.pipeline = k].at = at
             /\ [loop EXCEPT !.at = at, !.pipeline = k].boundary = loop.boundary
             /\ [loop EXCEPT !.at = at, !.pipeline = k].pipeline = k
  BY <1>p, <1>k DEF Loops
<1>b. ASSUME NEW at \in LoopAt, NEW b \in Nat
      PROVE  /\ [loop EXCEPT !.at = at, !.boundary = b, !.pipeline = 1] \in Loops
             /\ [loop EXCEPT !.at = at, !.boundary = b, !.pipeline = 1].at = at
             /\ [loop EXCEPT !.at = at, !.boundary = b, !.pipeline = 1].boundary = b
             /\ [loop EXCEPT !.at = at, !.boundary = b, !.pipeline = 1].pipeline = 1
  <2>1. 1 \in Nat \ {0}
    OBVIOUS
  <2>2. QED
    BY <1>p, <1>b, <2>1 DEF Loops
<1>a. ASSUME NEW i \in Instruments, NEW f \in [Instruments -> TickSeq], NEW t \in Ticks
      PROVE  [f EXCEPT ![i] = Append(@, t)] \in [Instruments -> TickSeq]
  <2>1. Append(f[i], t) \in TickSeq
    BY <1>a DEF TickSeq
  <2>2. QED
    BY <2>1
<1>f. FirstStep \in {"submit", "prices"} /\ (FirstStep = "prices" => 1 \in DOMAIN Pipelines)
      /\ (FirstStep = "submit" => Len(Pipelines) = 0)
  BY PipelinesHaveInstruments DEF FirstStep
<1>1. CASE TimePasses
  BY <1>1, <1>p, <1>l DEF TimePasses, FeedTypes, LoopInv, store
<1>2. ASSUME NEW i \in Instruments, AddPrice(i) PROVE FeedTypes' /\ LoopInv'
  <2>1. /\ ticks' = Append(ticks, <<i, now>>) /\ adding' = Len(ticks) + 1
        /\ prices' = [prices EXCEPT ![i] = Append(@, Len(ticks) + 1)]
        /\ UNCHANGED <<now, volumes, last, loop, bars, submitted>>
    BY <1>2 DEF AddPrice, store
  <2>2. ticks' \in Seq(Instruments \X Nat) /\ Len(ticks') = Len(ticks) + 1
    BY <1>p, <2>1
  <2>3. prices' \in [Instruments -> TickSeq]
    BY <1>p, <1>l, <1>a, <2>1 DEF Ticks
  <2>4. QED
    BY <1>p, <2>1, <2>2, <2>3 DEF FeedTypes, LoopInv
<1>3. CASE AddVolume
  <2>1. adding \in Ticks /\ adding \in DOMAIN ticks /\ adding' = 0
    BY <1>3, <1>p, <1>l DEF AddVolume, Ticks
  <2>2. ticks[adding][1] \in Instruments
    BY <1>p, <2>1
  <2>3. volumes' \in [Instruments -> TickSeq]
    BY <1>3, <1>p, <1>a, <2>1, <2>2 DEF AddVolume
  <2>4. UNCHANGED <<now, ticks, prices, last, loop, bars, submitted>>
    BY <1>3 DEF AddVolume, store
  <2>5. QED
    BY <1>p, <2>1, <2>3, <2>4 DEF FeedTypes, LoopInv
<1>4. CASE StartTick
  <2>1. UNCHANGED <<now, ticks, prices, volumes, adding, bars, submitted>>
    BY <1>4 DEF StartTick, store
  <2>2. CASE last = -1
    BY <1>4, <1>p, <2>1, <2>2 DEF StartTick, FeedTypes, LoopInv
  <2>3. CASE last # -1
    <3>1. /\ loop' = [loop EXCEPT !.at = FirstStep, !.boundary = now, !.pipeline = 1]
          /\ UNCHANGED last
      BY <1>4, <2>3 DEF StartTick
    <3>2. /\ loop' \in Loops /\ loop'.at = FirstStep /\ loop'.boundary = now
          /\ loop'.pipeline = 1
      <4>1. FirstStep \in LoopAt
        BY <1>f DEF LoopAt
      <4>2. QED
        BY <1>p, <1>b, <3>1, <4>1
    <3>3. FeedTypes'
      BY <1>p, <2>1, <3>1, <3>2 DEF FeedTypes
    <3>4. LoopInv'
      BY <1>4, <1>p, <1>l, <1>f, <2>1, <2>3, <3>1, <3>2, PipelinesHaveInstruments
         DEF LoopInv, StartTick
    <3>5. QED
      BY <3>3, <3>4
  <2>4. QED
    BY <2>2, <2>3
<1>5. CASE SwapPrices
  <2>1. /\ UNCHANGED <<now, ticks, volumes, adding, last, bars, submitted>> /\ loop.at = "prices"
        /\ loop' = [loop EXCEPT !.at = "volumes", !.prices = prices[Flushed]]
        /\ prices' = [prices EXCEPT ![Flushed] = <<>>]
    BY <1>5 DEF SwapPrices, store
  <2>2. Flushed \in Instruments
    BY <2>1, PipelinesHaveInstruments DEF LoopInv, Flushed
  <2>3. loop' \in Loops /\ loop'.at = "volumes" /\ UNCHANGED <<loop.boundary, loop.pipeline>>
    <3>1. "volumes" \in LoopAt /\ prices[Flushed] \in TickSeq
      BY <1>p, <2>2 DEF LoopAt
    <3>2. QED
      BY <1>s, <2>1, <3>1
  <2>4. prices' \in [Instruments -> TickSeq]
    BY <1>p, <1>e, <2>1
  <2>5. FeedTypes'
    BY <1>p, <2>1, <2>3, <2>4 DEF FeedTypes
  <2>6. LoopInv'
    BY <1>p, <2>1, <2>3 DEF LoopInv
  <2>7. QED
    BY <2>5, <2>6
<1>6. CASE SwapVolumes
  <2>1. /\ UNCHANGED <<now, ticks, prices, adding, last, bars, submitted>> /\ loop.at = "volumes"
        /\ loop' = [loop EXCEPT !.at = "publish", !.volumes = volumes[Flushed]]
        /\ volumes' = [volumes EXCEPT ![Flushed] = <<>>]
    BY <1>6 DEF SwapVolumes, store
  <2>2. Flushed \in Instruments
    BY <2>1, PipelinesHaveInstruments DEF LoopInv, Flushed
  <2>3. loop' \in Loops /\ loop'.at = "publish" /\ UNCHANGED <<loop.boundary, loop.pipeline>>
    <3>1. "publish" \in LoopAt /\ volumes[Flushed] \in TickSeq
      BY <1>p, <2>2 DEF LoopAt
    <3>2. QED
      BY <1>v, <2>1, <3>1
  <2>4. volumes' \in [Instruments -> TickSeq]
    BY <1>p, <1>e, <2>1
  <2>5. FeedTypes'
    BY <1>p, <2>1, <2>3, <2>4 DEF FeedTypes
  <2>6. LoopInv'
    BY <1>p, <2>1, <2>3 DEF LoopInv
  <2>7. QED
    BY <2>5, <2>6
<1>7. CASE Publish
  <2>1. /\ UNCHANGED <<now, ticks, prices, volumes, adding, last, submitted>>
        /\ loop.at = "publish" /\ bars' = Append(bars, FlushedBar)
        /\ loop' = IF loop.pipeline < Len(Pipelines)
                   THEN [loop EXCEPT !.at = "prices", !.pipeline = loop.pipeline + 1]
                   ELSE [loop EXCEPT !.at = "submit"]
    BY <1>7 DEF Publish, store
  <2>2. Flushed \in Instruments /\ last \in Nat /\ loop.pipeline \in 1 .. Len(Pipelines)
    BY <1>p, <2>1, PipelinesHaveInstruments DEF LoopInv, Flushed
  <2>3. FlushedBar \in Bars
    BY <1>l, <1>e, <2>2 DEF FlushedBar, Bars
  <2>4. bars' \in Seq(Bars) /\ Len(bars') = Len(bars) + 1
    BY <1>p, <2>1, <2>3
  <2>8. /\ last < loop.boundary /\ loop.boundary <= now /\ last <= now /\ last # -1
        /\ Len(bars) < Len(Pipelines) => Len(bars) = loop.pipeline - 1
    BY <1>p, <2>1, <2>2 DEF LoopInv
  <2>9. Len(Pipelines) \in Nat /\ DOMAIN Pipelines = 1 .. Len(Pipelines)
    BY PipelinesHaveInstruments
  <2>5. CASE loop.pipeline < Len(Pipelines)
    <3>1. /\ loop' \in Loops /\ loop'.at = "prices" /\ loop'.boundary = loop.boundary
          /\ loop'.pipeline = loop.pipeline + 1
      <4>1. "prices" \in LoopAt /\ loop.pipeline + 1 \in Nat \ {0}
        BY <1>l DEF LoopAt
      <4>2. QED
        BY <1>k, <2>1, <2>5, <4>1
    <3>2. FeedTypes'
      BY <1>p, <2>1, <2>4, <3>1 DEF FeedTypes
    <3>3. LoopInv'
      BY <1>p, <1>l, <2>1, <2>2, <2>4, <2>5, <2>8, <2>9, <3>1 DEF LoopInv
    <3>4. QED
      BY <3>2, <3>3
  <2>6. CASE ~ (loop.pipeline < Len(Pipelines))
    <3>1. /\ loop' \in Loops /\ loop'.at = "submit" /\ loop'.boundary = loop.boundary
          /\ loop'.pipeline = loop.pipeline
      <4>1. "submit" \in LoopAt
        BY DEF LoopAt
      <4>2. QED
        BY <1>i, <2>1, <2>6, <4>1
    <3>2. FeedTypes'
      BY <1>p, <2>1, <2>4, <3>1 DEF FeedTypes
    <3>3. LoopInv'
      <4>1. ~ (Len(bars') < Len(Pipelines))
        BY <1>p, <1>l, <2>1, <2>2, <2>4, <2>6, <2>8, <2>9
      <4>2. QED
        BY <2>1, <2>8, <3>1, <4>1 DEF LoopInv
    <3>4. QED
      BY <3>2, <3>3
  <2>7. QED
    BY <2>5, <2>6
<1>8. CASE SubmitBatch
  <2>1. /\ UNCHANGED <<now, ticks, prices, volumes, adding, bars>>
        /\ loop.at = "submit" /\ last' = last + 1
        /\ loop' = IF last + 1 < loop.boundary
                   THEN [loop EXCEPT !.at = FirstStep, !.pipeline = 1]
                   ELSE Resting
    BY <1>8 DEF SubmitBatch
  <2>2. last \in Nat /\ last < loop.boundary /\ loop.boundary <= now /\ last' <= now /\ last' # -1
    BY <1>p, <1>l, <2>1 DEF LoopInv
  <2>3. ~ (Len(bars) < Len(Pipelines))
    BY <2>1 DEF LoopInv
  <2>4. CASE last + 1 < loop.boundary
    <3>1. /\ loop' \in Loops /\ loop'.at = FirstStep /\ loop'.boundary = loop.boundary
          /\ loop'.pipeline = 1
      <4>1. FirstStep \in LoopAt /\ 1 \in Nat \ {0}
        BY <1>f DEF LoopAt
      <4>2. QED
        BY <1>k, <2>1, <2>4, <4>1
    <3>2. FeedTypes'
      BY <1>p, <2>1, <2>2, <3>1 DEF FeedTypes
    <3>3. LoopInv'
      BY <1>f, <2>1, <2>2, <2>3, <2>4, <3>1 DEF LoopInv
    <3>4. QED
      BY <3>2, <3>3
  <2>5. CASE ~ (last + 1 < loop.boundary)
    <3>1. loop' \in Loops /\ loop'.at = "tick"
      BY <1>e, <2>1, <2>5
    <3>2. FeedTypes'
      BY <1>p, <2>1, <2>2, <3>1 DEF FeedTypes
    <3>3. LoopInv'
      BY <2>1, <2>2, <2>3, <3>1 DEF LoopInv
    <3>4. QED
      BY <3>2, <3>3
  <2>6. QED
    BY <2>4, <2>5
<1>9. CASE LoopEnds
  <2>1. /\ UNCHANGED <<now, ticks, prices, volumes, adding, last, bars, submitted>>
        /\ loop' = [loop EXCEPT !.at = "done"]
    BY <1>9 DEF LoopEnds, store
  <2>2. loop' \in Loops /\ loop'.at = "done"
    <3>1. "done" \in LoopAt
      BY DEF LoopAt
    <3>2. QED
      BY <1>i, <2>1, <3>1
  <2>3. QED
    BY <1>p, <2>1, <2>2 DEF FeedTypes, LoopInv
<1>10. CASE UNCHANGED <<feed, submitted>>
  BY <1>10, <1>p DEF feed, FeedTypes, LoopInv
<1>11. QED
  BY <1>1, <1>2, <1>3, <1>4, <1>5, <1>6, <1>7, <1>8, <1>9, <1>10
     DEF Next, MainLoop, Aggregate, Writer, GetJob, RunJob, WriterLeaves, StopLoop, StopWriter,
         Log, KeepRecord, FlushLog, LogWorkerDies, TakeRecord, vars, store

(***************************************************************************)
(* The batches of bars and db_writer.                                      *)
(***************************************************************************)
StoreTypes ==
  /\ jobs \in Seq(Nat) /\ submitted \in Seq(Nat) /\ stored \in Seq(Nat) /\ failed \in Seq(Nat)
  /\ writer \in [at : {"get", "run", "left"}, job : Nat]

\* The next interval to submit is later than all those submitted.
StoreInv ==
  /\ StoreTypes
  /\ \A k \in DOMAIN submitted : submitted[k] < last
  /\ BatchesInOrder

LEMMA UndoneIs ==
  ASSUME StoreTypes
  PROVE  /\ Undone \in Seq(Nat)
         /\ writer.at # "run" => Undone = jobs
         /\ writer.at = "run" => /\ Len(Undone) = Len(jobs) + 1 /\ Undone[1] = writer.job
                                 /\ \A k \in DOMAIN jobs : Undone[k + 1] = jobs[k]
<1>1. jobs \in Seq(Nat) /\ writer.job \in Nat /\ <<writer.job>> \in Seq(Nat)
  BY DEF StoreTypes
<1>2. CASE writer.at # "run"
  BY <1>1, <1>2 DEF Undone
<1>3. CASE writer.at = "run"
  BY <1>1, <1>3 DEF Undone
<1>4. QED
  BY <1>2, <1>3

\* One more at the end of an ascending list.
LEMMA AscendingAppend ==
  ASSUME NEW s \in Seq(Nat), NEW m \in Nat, Ascending(s), \A k \in DOMAIN s : s[k] < m
  PROVE  /\ Append(s, m) \in Seq(Nat) /\ Ascending(Append(s, m))
         /\ Range(Append(s, m)) = Range(s) \cup {m}
         /\ Len(Append(s, m)) = Len(s) + 1 /\ Append(s, m)[Len(s) + 1] = m
         /\ \A k \in DOMAIN s : Append(s, m)[k] = s[k]
<1>1. /\ Append(s, m) \in Seq(Nat) /\ Len(Append(s, m)) = Len(s) + 1
      /\ Append(s, m)[Len(s) + 1] = m /\ \A k \in DOMAIN s : Append(s, m)[k] = s[k]
  OBVIOUS
<1>2. DOMAIN Append(s, m) = DOMAIN s \cup {Len(s) + 1} /\ DOMAIN s = 1 .. Len(s) /\ Len(s) \in Nat
  OBVIOUS
<1>3. ASSUME NEW j \in DOMAIN Append(s, m), NEW k \in DOMAIN Append(s, m), j < k
      PROVE  Append(s, m)[j] < Append(s, m)[k]
  <2>1. CASE k \in DOMAIN s
    <3>1. j \in DOMAIN s
      BY <1>2, <1>3, <2>1
    <3>2. QED
      BY <1>1, <1>3, <2>1, <3>1 DEF Ascending
  <2>2. CASE k = Len(s) + 1
    <3>1. j \in DOMAIN s
      BY <1>2, <1>3, <2>2
    <3>2. QED
      BY <1>1, <2>2, <3>1
  <2>3. QED
    BY <1>2, <2>1, <2>2
<1>4. Ascending(Append(s, m))
  BY <1>3 DEF Ascending
<1>5. Range(Append(s, m)) = Range(s) \cup {m}
  BY <1>1, <1>2 DEF Range
<1>6. QED
  BY <1>1, <1>4, <1>5

LEMMA StoreInit == Init => StoreInv
<1> SUFFICES ASSUME Init PROVE StoreInv
  OBVIOUS
<1>1. StoreTypes
  BY DEF Init, StoreTypes
<1>2. Undone = <<>>
  BY <1>1, UndoneIs DEF Init
<1>3. Ascending(submitted) /\ Ascending(stored) /\ Ascending(failed)
  BY DEF Init, Ascending
<1>4. Range(stored) = {} /\ Range(failed) = {} /\ submitted = <<>>
  BY DEF Init, Range
<1>5. BatchesInOrder
  BY <1>2, <1>3, <1>4 DEF BatchesInOrder, Handled
<1>6. QED
  BY <1>1, <1>4, <1>5 DEF StoreInv

LEMMA StoreNext == FeedTypes /\ LoopInv /\ StoreInv /\ [Next]_vars => StoreInv'
<1> SUFFICES ASSUME FeedTypes, LoopInv, StoreInv, [Next]_vars PROVE StoreInv'
  OBVIOUS
<1>1. /\ jobs \in Seq(Nat) /\ submitted \in Seq(Nat) /\ stored \in Seq(Nat) /\ failed \in Seq(Nat)
      /\ writer \in [at : {"get", "run", "left"}, job : Nat]
      /\ StoreTypes
  BY DEF StoreInv, StoreTypes
<1> DEFINE done == Len(submitted) - Len(Undone)
<1>2. /\ done >= 0 /\ \A k \in DOMAIN Undone : Undone[k] = submitted[done + k]
      /\ Handled = {submitted[k] : k \in 1 .. done}
      /\ Range(stored) \cap Range(failed) = {}
      /\ Ascending(submitted) /\ Ascending(stored) /\ Ascending(failed)
      /\ \A k \in DOMAIN submitted : submitted[k] < last
  BY DEF StoreInv, BatchesInOrder
<1>3. /\ Undone \in Seq(Nat) /\ Len(Undone) \in Nat /\ DOMAIN Undone = 1 .. Len(Undone)
      /\ DOMAIN submitted = 1 .. Len(submitted) /\ Len(submitted) \in Nat /\ done \in Nat
      /\ done + Len(Undone) = Len(submitted)
  <2>1. Undone \in Seq(Nat)
    BY <1>1, UndoneIs
  <2>2. QED
    BY <1>1, <1>2, <2>1
<1>4. last \in Nat \cup {-1} /\ now \in Nat
  BY DEF FeedTypes
<1>5. CASE SubmitBatch
  <2>1. /\ jobs' = Append(jobs, last) /\ submitted' = Append(submitted, last) /\ last' = last + 1
        /\ UNCHANGED <<writer, stored, failed>> /\ loop.at = "submit"
    BY <1>5 DEF SubmitBatch
  <2>2. last \in Nat
    BY <1>4, <2>1 DEF LoopInv
  <2>3. StoreTypes'
    BY <1>1, <2>1, <2>2 DEF StoreTypes
  <2>4. /\ Ascending(submitted') /\ Len(submitted') = Len(submitted) + 1
        /\ submitted'[Len(submitted) + 1] = last
        /\ \A k \in DOMAIN submitted : submitted'[k] = submitted[k]
    BY <1>1, <1>2, <2>1, <2>2, AscendingAppend
  <2>5. Undone' = Append(Undone, last)
    <3>1. ASSUME NEW w \in Seq(Nat) PROVE w \o Append(jobs, last) = Append(w \o jobs, last)
      BY <1>1, <2>2
    <3>2. (IF writer.at = "run" THEN <<writer.job>> ELSE <<>>) \in Seq(Nat)
      BY <1>1
    <3>3. QED
      BY <2>1, <3>1, <3>2 DEF Undone
  <2>6. /\ Len(Undone') = Len(Undone) + 1 /\ Undone'[Len(Undone) + 1] = last
        /\ \A k \in DOMAIN Undone : Undone'[k] = Undone[k]
        /\ DOMAIN Undone' = 1 .. Len(Undone) + 1
    BY <1>3, <2>2, <2>5
  <2>7. Len(submitted') - Len(Undone') = done
    BY <1>3, <2>4, <2>6
  <2>8. ASSUME NEW k \in DOMAIN Undone' PROVE Undone'[k] = submitted'[done + k]
    <3>1. CASE k = Len(Undone) + 1
      BY <1>3, <2>4, <2>6, <3>1
    <3>2. CASE k \in DOMAIN Undone
      <4>1. done + k \in DOMAIN submitted
        BY <1>3, <3>2
      <4>2. QED
        BY <1>2, <2>4, <2>6, <3>2, <4>1
    <3>3. QED
      BY <1>3, <2>6, <3>1, <3>2
  <2>9. \A k \in 1 .. done : submitted'[k] = submitted[k]
    BY <1>3, <2>4
  <2>10. Handled' = {submitted'[k] : k \in 1 .. done}
    BY <1>2, <2>1, <2>9 DEF Handled
  <2>11. BatchesInOrder'
    <3>1. Range(stored') \cap Range(failed') = {} /\ Ascending(stored') /\ Ascending(failed')
      BY <1>2, <2>1
    <3> HIDE DEF done
    <3>2. QED
      BY <1>3, <2>4, <2>7, <2>8, <2>10, <3>1 DEF BatchesInOrder
  <2>12. \A k \in DOMAIN submitted' : submitted'[k] < last'
    <3>1. DOMAIN submitted' = DOMAIN submitted \cup {Len(submitted) + 1}
      BY <1>1, <2>1, <2>2
    <3>2. \A k \in DOMAIN submitted : submitted[k] \in Nat
      BY <1>1
    <3>3. QED
      BY <1>2, <2>1, <2>2, <2>4, <3>1, <3>2
  <2>13. QED
    BY <2>3, <2>11, <2>12 DEF StoreInv
<1>6. CASE GetJob
  <2>1. /\ writer.at = "get" /\ jobs # <<>> /\ jobs' = Tail(jobs)
        /\ writer' = [at |-> "run", job |-> Head(jobs)]
        /\ UNCHANGED <<submitted, stored, failed, last>>
    BY <1>6 DEF GetJob, feed
  <2>2. StoreTypes'
    BY <1>1, <2>1 DEF StoreTypes
  <2>3. Undone' = Undone
    <3>1. Undone = jobs
      BY <1>1, <2>1, UndoneIs
    <3>2. writer'.at = "run" /\ writer'.job = Head(jobs)
      BY <2>1
    <3>3. Undone' = <<Head(jobs)>> \o Tail(jobs)
      BY <2>1, <3>2 DEF Undone
    <3>4. QED
      BY <1>1, <2>1, <3>1, <3>3
  <2>4. QED
    BY <2>1, <2>2, <2>3 DEF StoreInv, BatchesInOrder, Handled
<1>7. CASE RunJob
  <2> DEFINE m == writer.job
  <2>1. /\ writer.at = "run" /\ writer' = [at |-> "get", job |-> 0]
        /\ \/ stored' = Append(stored, m) /\ UNCHANGED failed
           \/ failed' = Append(failed, m) /\ UNCHANGED stored
        /\ UNCHANGED <<jobs, submitted, last>>
    BY <1>7 DEF RunJob, feed
  <2>2. m \in Nat
    BY <1>1
  <2>3. StoreTypes'
    <3>1. writer' \in [at : {"get", "run", "left"}, job : Nat]
      BY <2>1
    <3> HIDE DEF m
    <3>4. Append(stored, m) \in Seq(Nat) /\ Append(failed, m) \in Seq(Nat)
      BY <1>1, <2>2
    <3>2. stored' \in Seq(Nat) /\ failed' \in Seq(Nat)
      BY <1>1, <2>1, <3>4
    <3>3. QED
      BY <1>1, <2>1, <3>1, <3>2 DEF StoreTypes
  <2>4. Undone' = jobs
    <3>1. writer'.at = "get"
      BY <2>1
    <3>2. Undone' = <<>> \o jobs
      BY <2>1, <3>1 DEF Undone
    <3>3. QED
      BY <1>1, <3>2
  <2>5. /\ Len(Undone) = Len(jobs) + 1 /\ Undone[1] = m
        /\ \A k \in DOMAIN jobs : Undone[k + 1] = jobs[k]
    BY <1>1, <2>1, UndoneIs
  <2>6. Len(jobs) \in Nat /\ DOMAIN jobs = 1 .. Len(jobs)
    BY <1>1
  <2>7. Len(submitted') - Len(Undone') = done + 1
    BY <1>3, <2>1, <2>4, <2>5, <2>6
  <2>8. m = submitted[done + 1] /\ done + 1 \in DOMAIN submitted
    <3>1. 1 \in DOMAIN Undone /\ done + 1 \in DOMAIN submitted
      BY <1>3, <2>5, <2>6
    <3>2. Undone[1] = submitted[done + 1]
      BY <1>2, <3>1
    <3>3. QED
      BY <2>5, <3>1, <3>2
  <2>9. ASSUME NEW k \in DOMAIN Undone' PROVE Undone'[k] = submitted'[done + 1 + k]
    <3>1. k \in DOMAIN jobs /\ k + 1 \in DOMAIN Undone
      BY <1>3, <2>4, <2>5, <2>6
    <3>2. Undone'[k] = submitted[done + (k + 1)]
      BY <1>2, <2>4, <2>5, <3>1
    <3>3. done + (k + 1) = done + 1 + k
      BY <1>3, <2>6, <3>1
    <3>4. QED
      BY <2>1, <3>2, <3>3
  <2>10. \A k \in 1 .. done : submitted[k] < m
    <3>1. \A k \in 1 .. done : k \in DOMAIN submitted /\ k < done + 1
      BY <1>3
    <3>2. QED
      BY <1>2, <2>8, <3>1 DEF Ascending
  <2>11. \A x \in Handled : x < m
    BY <1>2, <2>10
  <2>12. /\ Range(stored') \cup Range(failed') = Handled \cup {m}
         /\ Range(stored') \cap Range(failed') = {}
         /\ Ascending(stored') /\ Ascending(failed')
    <3>1. m \notin Handled
      BY <2>2, <2>11
    <3>2. /\ \A k \in DOMAIN stored : stored[k] < m
          /\ \A k \in DOMAIN failed : failed[k] < m
      BY <2>11 DEF Handled, Range
    <3> HIDE DEF m
    <3>3. CASE stored' = Append(stored, m) /\ UNCHANGED failed
      <4>1. Ascending(Append(stored, m)) /\ Range(Append(stored, m)) = Range(stored) \cup {m}
        BY <1>1, <1>2, <2>2, <3>2, AscendingAppend
      <4>2. QED
        BY <1>2, <3>1, <3>3, <4>1 DEF Handled
    <3>4. CASE failed' = Append(failed, m) /\ UNCHANGED stored
      <4>1. Ascending(Append(failed, m)) /\ Range(Append(failed, m)) = Range(failed) \cup {m}
        BY <1>1, <1>2, <2>2, <3>2, AscendingAppend
      <4>2. QED
        BY <1>2, <3>1, <3>4, <4>1 DEF Handled
    <3>5. QED
      BY <2>1, <3>3, <3>4
  <2>13. Handled' = {submitted'[k] : k \in 1 .. done + 1}
    <3>1. 1 .. done + 1 = (1 .. done) \cup {done + 1}
      BY <1>3
    <3>2. {submitted[k] : k \in 1 .. done + 1} = {submitted[k] : k \in 1 .. done} \cup {m}
      BY <2>8, <3>1
    <3> HIDE DEF done, m
    <3>3. {submitted'[k] : k \in 1 .. done + 1} = {submitted[k] : k \in 1 .. done + 1}
      BY <2>1
    <3>4. Handled' = Handled \cup {m}
      BY <2>12 DEF Handled
    <3>5. QED
      BY <1>2, <3>2, <3>3, <3>4
  <2>14. done + 1 >= 0
    BY <1>3
  <2> HIDE DEF done, m
  <2>15. Ascending(submitted')
    BY <1>2, <2>1
  <2>16. BatchesInOrder'
    BY <2>7, <2>9, <2>12, <2>13, <2>14, <2>15 DEF BatchesInOrder
  <2>17. QED
    BY <1>2, <2>1, <2>3, <2>16 DEF StoreInv
<1>8. CASE WriterLeaves
  <2>1. /\ writer.at = "get" /\ writer' = [at |-> "left", job |-> 0]
        /\ UNCHANGED <<jobs, submitted, stored, failed, last>>
    BY <1>8 DEF WriterLeaves, feed
  <2>2. StoreTypes'
    BY <1>1, <2>1 DEF StoreTypes
  <2>3. Undone' = Undone
    BY <2>1 DEF Undone
  <2>4. QED
    BY <2>1, <2>2, <2>3 DEF StoreInv, BatchesInOrder, Handled
<1>9. CASE StartTick
  <2>1. UNCHANGED <<jobs, writer, submitted, stored, failed>>
        /\ (last' = last \/ last = -1)
    BY <1>9 DEF StartTick, store
  <2>2. \A k \in DOMAIN submitted' : submitted'[k] < last'
    <3>1. CASE last' = last
      BY <1>2, <2>1, <3>1
    <3>2. CASE last = -1
      <4>1. submitted' = <<>>
        BY <2>1, <3>2 DEF LoopInv
      <4>2. QED
        BY <4>1
    <3>3. QED
      BY <2>1, <3>1, <3>2
  <2>3. StoreTypes'
    BY <1>1, <2>1 DEF StoreTypes
  <2>4. BatchesInOrder'
    BY <2>1 DEF StoreInv, BatchesInOrder, Handled, Undone
  <2>5. QED
    BY <2>2, <2>3, <2>4 DEF StoreInv
<1>10. CASE UNCHANGED <<store, last>>
  <2>1. UNCHANGED <<jobs, writer, submitted, stored, failed, last>>
    BY <1>10 DEF store
  <2>2. StoreTypes'
    BY <1>1, <2>1 DEF StoreTypes
  <2>3. BatchesInOrder'
    BY <2>1 DEF StoreInv, BatchesInOrder, Handled, Undone
  <2>4. QED
    BY <1>2, <2>1, <2>2, <2>3 DEF StoreInv
<1>11. QED
  BY <1>5, <1>6, <1>7, <1>8, <1>9, <1>10
     DEF Next, TimePasses, MainLoop, AddPrice, AddVolume, Aggregate, SwapPrices, SwapVolumes,
         Publish, LoopEnds, Writer, StopLoop, StopWriter, Log, KeepRecord, FlushLog,
         LogWorkerDies, TakeRecord, feed, vars

\* db_writer and LogWorker skip and reorder nothing, whatever fails and whenever they are
\* stopped (ManagedThread._run, LogWorker._run).
THEOREM StoreKeepsOrder == Spec => []StoredInOrder
<1> DEFINE Inv == FeedTypes /\ LoopInv /\ StoreInv /\ LogInv
<1>1. Init => Inv
  BY LoopInit, StoreInit, LogInit
<1>2. Inv /\ [Next]_vars => Inv'
  <2>1. FeedTypes /\ LoopInv /\ [Next]_vars => FeedTypes' /\ LoopInv'
    BY LoopNext
  <2>2. FeedTypes /\ LoopInv /\ StoreInv /\ [Next]_vars => StoreInv'
    BY StoreNext
  <2>3. LogInv /\ [Next]_vars => LogInv'
    BY LogNext
  <2>4. QED
    BY <2>1, <2>2, <2>3
<1>3. Inv => StoredInOrder
  BY DEF StoreInv, LogInv, StoredInOrder
<1>4. QED
  BY <1>1, <1>2, <1>3, PTL DEF Spec

(***************************************************************************)
(* The prices: every list they pass through, in the order of the places.   *)
(***************************************************************************)
\* The prices of the flush at hand.
Snapshot(i) == PricesIn(i, Len(bars) + 1)

Pooled(f) == UNION {Range(f[b]) : b \in DOMAIN f}
InOrder(f) ==
  \A a, b \in DOMAIN f : \A j \in DOMAIN f[a], k \in DOMAIN f[b] :
    a < b \/ (a = b /\ j < k) => f[a][j] < f[b][k]

PricesOf(i) == [b \in Places |-> PricesIn(i, b)]
TicksOf(i) == {t \in DOMAIN ticks : ticks[t][1] = i}

LEMMA PricesConservedIs ==
  PricesConserved <=>
    \A i \in Instruments : Pooled(PricesOf(i)) = TicksOf(i) /\ InOrder(PricesOf(i))
<1>1. ASSUME NEW i \in Instruments
      PROVE  /\ Pooled(PricesOf(i)) = UNION {Range(PricesIn(i, b)) : b \in Places}
             /\ InOrder(PricesOf(i)) <=>
                  \A a, b \in Places : \A j \in DOMAIN PricesIn(i, a), k \in DOMAIN PricesIn(i, b) :
                    a < b \/ (a = b /\ j < k) => PricesIn(i, a)[j] < PricesIn(i, b)[k]
  <2>1. DOMAIN PricesOf(i) = Places /\ \A b \in Places : PricesOf(i)[b] = PricesIn(i, b)
    BY DEF PricesOf
  <2>2. Pooled(PricesOf(i)) = UNION {Range(PricesIn(i, b)) : b \in Places}
    BY <2>1 DEF Pooled
  <2>3. InOrder(PricesOf(i)) <=>
          \A a, b \in Places : \A j \in DOMAIN PricesIn(i, a), k \in DOMAIN PricesIn(i, b) :
            a < b \/ (a = b /\ j < k) => PricesIn(i, a)[j] < PricesIn(i, b)[k]
    BY <2>1 DEF InOrder
  <2>4. QED
    BY <2>2, <2>3
<1>2. QED
  BY <1>1 DEF PricesConserved, TicksOf

PlacesHold ==
  /\ Len(bars) \in Nat /\ DOMAIN bars = 1 .. Len(bars)
  /\ \A i \in Instruments :
       /\ DOMAIN PricesOf(i) = 1 .. Len(bars) + 2
       /\ \A b \in DOMAIN bars :
            /\ bars[b].prices \in TickSeq
            /\ PricesOf(i)[b] = IF bars[b].instrument = i THEN bars[b].prices ELSE <<>>
       /\ PricesOf(i)[Len(bars) + 1] = Snapshot(i)
       /\ PricesOf(i)[Len(bars) + 2] = prices[i]
       /\ Snapshot(i) = IF InFlight(i, {"volumes", "publish"}) THEN loop.prices ELSE <<>>
       /\ Snapshot(i) \in TickSeq /\ prices[i] \in TickSeq

LEMMA PlacesAre == FeedTypes => PlacesHold
<1> SUFFICES ASSUME FeedTypes PROVE PlacesHold
  OBVIOUS
<1>1. bars \in Seq(Bars) /\ loop.prices \in TickSeq /\ <<>> \in TickSeq
      /\ prices \in [Instruments -> TickSeq]
  BY DEF FeedTypes, Loops, TickSeq
<1>2. Len(bars) \in Nat /\ DOMAIN bars = 1 .. Len(bars)
  BY <1>1
<1>3. Len(bars) + 1 \notin DOMAIN bars /\ Len(bars) + 2 \notin DOMAIN bars
      /\ Len(bars) + 1 # Len(bars) + 2
  BY <1>2
<1>4. \A b \in DOMAIN bars : bars[b].prices \in TickSeq
  <2>1. \A b \in DOMAIN bars : bars[b] \in Bars
    BY <1>1
  <2>2. QED
    BY <2>1 DEF Bars
<1>5. ASSUME NEW i \in Instruments
      PROVE  /\ \A b \in DOMAIN bars :
                  PricesIn(i, b) = IF bars[b].instrument = i THEN bars[b].prices ELSE <<>>
             /\ Snapshot(i) = IF InFlight(i, {"volumes", "publish"}) THEN loop.prices ELSE <<>>
             /\ PricesIn(i, Len(bars) + 2) = prices[i]
  BY <1>3 DEF PricesIn, Snapshot
<1>6. \A i \in Instruments : Snapshot(i) \in TickSeq /\ prices[i] \in TickSeq
  BY <1>1, <1>5
<1>7. Places = 1 .. Len(bars) + 2 /\ DOMAIN bars \subseteq Places
      /\ Len(bars) + 1 \in Places /\ Len(bars) + 2 \in Places
  BY <1>2 DEF Places
<1>8. ASSUME NEW i \in Instruments
      PROVE  /\ DOMAIN PricesOf(i) = Places
             /\ \A b \in DOMAIN bars : PricesOf(i)[b] = PricesIn(i, b)
             /\ PricesOf(i)[Len(bars) + 1] = Snapshot(i)
             /\ PricesOf(i)[Len(bars) + 2] = prices[i]
  BY <1>5, <1>7 DEF PricesOf, Snapshot
<1>9. QED
  BY <1>2, <1>4, <1>5, <1>6, <1>7, <1>8 DEF PlacesHold

\* The lists of h are those of f, each from its place in g, and none has passed another.
Moved(f, g, h) ==
  /\ g \in [DOMAIN h -> DOMAIN f]
  /\ \A b \in DOMAIN h : h[b] = <<>> \/ h[b] = f[g[b]]
  /\ \A a \in DOMAIN f : f[a] = <<>> \/ \E b \in DOMAIN h : h[b] = f[a]
  /\ \A a, b \in DOMAIN h : a < b /\ h[a] # <<>> /\ h[b] # <<>> => g[a] < g[b]

LEMMA Rearranged ==
  ASSUME NEW f, NEW g, NEW h, Moved(f, g, h)
  PROVE  Pooled(h) = Pooled(f) /\ (InOrder(f) => InOrder(h))
<1> USE DEF Moved
<1>1. Range(<<>>) = {} /\ DOMAIN <<>> = {}
  BY DEF Range
<1>2. ASSUME NEW x \in Pooled(h) PROVE x \in Pooled(f)
  <2>1. PICK b \in DOMAIN h : x \in Range(h[b])
    BY DEF Pooled
  <2>2. h[b] # <<>>
    BY <1>1, <2>1
  <2>3. x \in Range(f[g[b]]) /\ g[b] \in DOMAIN f
    BY <2>1, <2>2
  <2>4. QED
    BY <2>3 DEF Pooled
<1>3. ASSUME NEW x \in Pooled(f) PROVE x \in Pooled(h)
  <2>1. PICK a \in DOMAIN f : x \in Range(f[a])
    BY DEF Pooled
  <2>2. f[a] # <<>>
    BY <1>1, <2>1
  <2>3. PICK b \in DOMAIN h : h[b] = f[a]
    BY <2>2
  <2>4. QED
    BY <2>1, <2>3 DEF Pooled
<1>4. ASSUME InOrder(f), NEW a \in DOMAIN h, NEW b \in DOMAIN h,
             NEW j \in DOMAIN h[a], NEW k \in DOMAIN h[b], a < b \/ (a = b /\ j < k)
      PROVE  h[a][j] < h[b][k]
  <2>1. h[a] # <<>> /\ h[b] # <<>>
    BY <1>1
  <2>2. h[a] = f[g[a]] /\ h[b] = f[g[b]] /\ g[a] \in DOMAIN f /\ g[b] \in DOMAIN f
    BY <2>1
  <2>3. g[a] < g[b] \/ (g[a] = g[b] /\ j < k)
    BY <1>4, <2>1
  <2>4. QED
    BY <1>4, <2>2, <2>3 DEF InOrder
<1>5. InOrder(f) => InOrder(h)
  BY <1>4 DEF InOrder
<1>6. QED
  BY <1>2, <1>3, <1>5

\* What the flush of the instrument at hand and the other threads may do to the lists of an
\* interval, outside of the steps that swap them and publish them.
LEMMA PlacesKept ==
  ASSUME FeedTypes, UNCHANGED <<bars, prices>>,
         \/ UNCHANGED loop
         \/ /\ loop.at \notin {"volumes", "publish"}
            /\ loop'.at \notin {"volumes", "publish"}
  PROVE  \A i \in Instruments :
           PricesOf(i)' = PricesOf(i) /\ Snapshot(i)' = Snapshot(i)
<1> SUFFICES ASSUME NEW i \in Instruments
             PROVE  PricesOf(i)' = PricesOf(i) /\ Snapshot(i)' = Snapshot(i)
  OBVIOUS
<1>1. CASE UNCHANGED loop
  BY <1>1 DEF PricesOf, Places, PricesIn, InFlight, Flushed, Snapshot
<1>2. CASE /\ loop.at \notin {"volumes", "publish"}
           /\ loop'.at \notin {"volumes", "publish"}
  <2>1. ~ InFlight(i, {"volumes", "publish"}) /\ ~ InFlight(i, {"volumes", "publish"})'
    BY <1>2 DEF InFlight
  <2>2. \A b : PricesIn(i, b)' = PricesIn(i, b)
    BY <2>1 DEF PricesIn
  <2>3. QED
    BY <2>2 DEF PricesOf, Places, Snapshot
<1>3. QED
  BY <1>1, <1>2

LEMMA SwapMoves ==
  ASSUME FeedTypes, LoopInv, FeedTypes', SwapPrices
  PROVE  /\ Flushed \in Instruments
         /\ \A i \in Instruments :
              /\ \A b \in DOMAIN bars : PricesOf(i)'[b] = PricesOf(i)[b]
              /\ Snapshot(i) = <<>>
              /\ Snapshot(i)' = IF i = Flushed THEN prices[i] ELSE <<>>
              /\ prices'[i] = IF i = Flushed THEN <<>> ELSE prices[i]
<1>1. /\ loop.at = "prices" /\ loop' = [loop EXCEPT !.at = "volumes", !.prices = prices[Flushed]]
      /\ prices' = [prices EXCEPT ![Flushed] = <<>>] /\ UNCHANGED bars
  BY DEF SwapPrices
<1>2. Flushed \in Instruments
  BY <1>1, PipelinesHaveInstruments DEF LoopInv, Flushed
<1>3. loop'.at = "volumes" /\ loop'.prices = prices[Flushed] /\ Flushed' = Flushed
  BY <1>1 DEF FeedTypes, Loops, Flushed
<1>4. prices \in [Instruments -> TickSeq]
  BY DEF FeedTypes
<1>5. \A i : ~ InFlight(i, {"volumes", "publish"})
             /\ (InFlight(i, {"volumes", "publish"})' <=> i = Flushed)
  BY <1>1, <1>3 DEF InFlight
<1>6. \A i \in Instruments :
        /\ Snapshot(i) = <<>> /\ Snapshot(i)' = IF i = Flushed THEN prices[i] ELSE <<>>
        /\ \A b \in DOMAIN bars : PricesOf(i)'[b] = PricesOf(i)[b]
  <2>1. PlacesHold
    BY PlacesAre
  <2>2. PlacesHold'
    BY PlacesAre, PTL
  <2>3. QED
    BY <1>1, <1>3, <1>5, <2>1, <2>2 DEF PlacesHold
<1>7. QED
  BY <1>1, <1>2, <1>4, <1>6

LEMMA PublishMoves ==
  ASSUME FeedTypes, LoopInv, FeedTypes', Publish
  PROVE  /\ Flushed \in Instruments /\ Len(bars') = Len(bars) + 1
         /\ \A b \in DOMAIN bars : bars'[b] = bars[b]
         /\ bars'[Len(bars) + 1] = FlushedBar
         /\ Snapshot(Flushed) = loop.prices /\ UNCHANGED prices
         /\ \A i \in Instruments :
              /\ \A b \in DOMAIN bars : PricesOf(i)'[b] = PricesOf(i)[b]
              /\ PricesOf(i)'[Len(bars) + 1] = Snapshot(i)
              /\ Snapshot(i)' = <<>>
              /\ i # Flushed => Snapshot(i) = <<>>
<1>1. /\ loop.at = "publish" /\ bars' = Append(bars, FlushedBar)
      /\ loop' = IF loop.pipeline < Len(Pipelines)
                 THEN [loop EXCEPT !.at = "prices", !.pipeline = loop.pipeline + 1]
                 ELSE [loop EXCEPT !.at = "submit"]
      /\ UNCHANGED prices
  BY DEF Publish
<1>2. Flushed \in Instruments
  BY <1>1, PipelinesHaveInstruments DEF LoopInv, Flushed
<1>3. loop'.at \in {"prices", "submit"}
  BY <1>1 DEF FeedTypes, Loops
<1>4. /\ Len(bars) \in Nat /\ DOMAIN bars = 1 .. Len(bars) /\ Len(bars') = Len(bars) + 1
      /\ \A b \in DOMAIN bars : bars'[b] = bars[b]
      /\ bars'[Len(bars) + 1] = FlushedBar
      /\ DOMAIN bars' = DOMAIN bars \cup {Len(bars) + 1}
  BY <1>1 DEF FeedTypes
<1>5. \A i : (InFlight(i, {"volumes", "publish"}) <=> i = Flushed)
             /\ ~ InFlight(i, {"volumes", "publish"})'
  BY <1>1, <1>3 DEF InFlight
<1>6. FlushedBar.instrument = Flushed /\ FlushedBar.prices = loop.prices
  BY DEF FlushedBar
<1>7. \A i \in Instruments :
        /\ \A b \in DOMAIN bars : PricesOf(i)'[b] = PricesOf(i)[b]
        /\ PricesOf(i)'[Len(bars) + 1] = Snapshot(i)
        /\ Snapshot(i)' = <<>>
        /\ Snapshot(i) = IF i = Flushed THEN loop.prices ELSE <<>>
  <2>1. PlacesHold
    BY PlacesAre
  <2>2. PlacesHold'
    BY PlacesAre, PTL
  <2>3. ASSUME NEW i \in Instruments
        PROVE  PricesOf(i)'[Len(bars) + 1] = Snapshot(i)
    <3>1. Snapshot(i) = IF i = Flushed THEN loop.prices ELSE <<>>
      BY <1>5, <2>1 DEF PlacesHold
    <3>2. Len(bars) + 1 \in DOMAIN bars'
      BY <1>4
    <3>3. PricesOf(i)'[Len(bars) + 1] = IF bars'[Len(bars) + 1].instrument = i
                                        THEN bars'[Len(bars) + 1].prices ELSE <<>>
      BY <2>2, <3>2 DEF PlacesHold
    <3>4. QED
      BY <1>4, <1>6, <3>1, <3>3
  <2>4. QED
    BY <1>4, <1>5, <2>1, <2>2, <2>3 DEF PlacesHold
<1>8. QED
  BY <1>1, <1>2, <1>4, <1>7

\* One more price at the end of the last list.
LEMMA Lengthened ==
  ASSUME NEW n \in Nat, n >= 1, NEW t \in Nat, NEW f, NEW h, DOMAIN f = 1 .. n, DOMAIN h = 1 .. n,
         \A b \in 1 .. n : f[b] \in Seq(Nat), \A b \in 1 .. n : b # n => h[b] = f[b],
         h[n] = Append(f[n], t), InOrder(f), \A x \in Pooled(f) : x < t
  PROVE  Pooled(h) = Pooled(f) \cup {t} /\ InOrder(h)
<1>1. n \in 1 .. n /\ f[n] \in Seq(Nat)
  OBVIOUS
<1>2. /\ Len(f[n]) \in Nat /\ DOMAIN f[n] = 1 .. Len(f[n])
      /\ DOMAIN h[n] = DOMAIN f[n] \cup {Len(f[n]) + 1} /\ h[n][Len(f[n]) + 1] = t
      /\ \A k \in DOMAIN f[n] : h[n][k] = f[n][k]
  BY <1>1
<1>3. Range(h[n]) = Range(f[n]) \cup {t}
  BY <1>2 DEF Range
<1>4. Pooled(h) = Pooled(f) \cup {t}
  <2>1. \A b \in 1 .. n : Range(h[b]) = IF b = n THEN Range(f[b]) \cup {t} ELSE Range(f[b])
    BY <1>3
  <2>2. QED
    BY <1>1, <2>1 DEF Pooled
<1>5. ASSUME NEW a \in 1 .. n, NEW j \in DOMAIN f[a]
      PROVE  f[a][j] < t
  <2>1. f[a][j] \in Pooled(f)
    BY DEF Pooled, Range
  <2>2. QED
    BY <2>1
<1>6. ASSUME NEW a \in 1 .. n, NEW b \in 1 .. n, NEW j \in DOMAIN h[a], NEW k \in DOMAIN h[b],
             a < b \/ (a = b /\ j < k)
      PROVE  h[a][j] < h[b][k]
  <2>1. j \in DOMAIN f[a]
    <3>1. CASE a = n
      <4>1. a = b /\ j < k
        BY <1>6, <3>1
      <4>2. QED
        BY <1>2, <3>1, <4>1
    <3>2. CASE a # n
      BY <3>2
    <3>3. QED
      BY <3>1, <3>2
  <2>2. h[a][j] = f[a][j]
    BY <1>2, <2>1
  <2>3. CASE b = n /\ k = Len(f[n]) + 1
    BY <1>2, <1>5, <2>1, <2>2, <2>3
  <2>4. CASE ~ (b = n /\ k = Len(f[n]) + 1)
    <3>1. k \in DOMAIN f[b] /\ h[b][k] = f[b][k]
      BY <1>2, <2>4
    <3>2. QED
      BY <1>6, <2>1, <2>2, <3>1 DEF InOrder
  <2>5. QED
    BY <2>3, <2>4
<1>7. InOrder(h)
  BY <1>6 DEF InOrder
<1>8. QED
  BY <1>4, <1>7

\* The other steps of the loop are not in a flush.
LEMMA LoopElsewhere ==
  ASSUME FeedTypes, StartTick \/ SubmitBatch \/ LoopEnds
  PROVE  UNCHANGED loop \/ /\ loop.at \notin {"volumes", "publish"}
                           /\ loop'.at \notin {"volumes", "publish"}
<1>1. loop \in Loops
  BY DEF FeedTypes
<1>2. Resting.at = "tick"
  BY DEF Resting
<1>3. CASE StartTick
  BY <1>1, <1>3 DEF StartTick, FirstStep, Loops
<1>4. CASE SubmitBatch
  BY <1>1, <1>2, <1>4 DEF SubmitBatch, FirstStep, Loops
<1>5. CASE LoopEnds
  BY <1>1, <1>5 DEF LoopEnds, Loops
<1>6. QED
  BY <1>3, <1>4, <1>5

LEMMA PricesInit == Init => PricesConserved
<1> SUFFICES ASSUME Init PROVE PricesConserved
  OBVIOUS
<1>1. ticks = <<>> /\ bars = <<>> /\ loop.at = "tick"
  BY DEF Init, Resting
<1>2. \A i \in Instruments : \A b : PricesIn(i, b) = <<>>
  <2>1. \A i \in Instruments : prices[i] = <<>>
    BY DEF Init, Empty
  <2>2. ~ (\E b : b \in DOMAIN bars)
    BY <1>1
  <2>3. QED
    BY <1>1, <2>1, <2>2 DEF PricesIn, InFlight
<1>3. Range(<<>>) = {} /\ DOMAIN <<>> = {}
  BY DEF Range
<1>4. QED
  BY <1>1, <1>2, <1>3 DEF PricesConserved

LEMMA PricesNext ==
  FeedTypes /\ LoopInv /\ PricesConserved /\ [Next]_vars /\ FeedTypes' => PricesConserved'
<1> SUFFICES ASSUME FeedTypes, LoopInv, PricesConserved, [Next]_vars, FeedTypes'
             PROVE  PricesConserved'
  OBVIOUS
<1>1. PlacesHold /\ PlacesHold'
  <2>1. PlacesHold
    BY PlacesAre
  <2>2. PlacesHold'
    BY PlacesAre, PTL
  <2>3. QED
    BY <2>1, <2>2
<1> DEFINE L == Len(bars)
<1>2. /\ L \in Nat /\ DOMAIN bars = 1 .. L
      /\ \A i \in Instruments :
           /\ DOMAIN PricesOf(i) = 1 .. L + 2
           /\ PricesOf(i)[L + 1] = Snapshot(i) /\ PricesOf(i)[L + 2] = prices[i]
           /\ Snapshot(i) \in TickSeq /\ prices[i] \in TickSeq
           /\ \A b \in DOMAIN bars :
                /\ bars[b].prices \in TickSeq
                /\ PricesOf(i)[b] = IF bars[b].instrument = i THEN bars[b].prices ELSE <<>>
  BY <1>1 DEF PlacesHold
<1>3. /\ \A i \in Instruments :
           /\ DOMAIN PricesOf(i)' = 1 .. Len(bars') + 2
           /\ PricesOf(i)'[Len(bars') + 1] = Snapshot(i)'
           /\ PricesOf(i)'[Len(bars') + 2] = prices'[i]
  BY <1>1 DEF PlacesHold
<1>4. \A i \in Instruments : Pooled(PricesOf(i)) = TicksOf(i) /\ InOrder(PricesOf(i))
  BY PricesConservedIs
<1>5. SUFFICES \A i \in Instruments :
                 Pooled(PricesOf(i)') = TicksOf(i)' /\ InOrder(PricesOf(i)')
  <2>1. PricesConserved' <=>
          \A i \in Instruments : Pooled(PricesOf(i)') = TicksOf(i)' /\ InOrder(PricesOf(i)')
    <3>1. (PricesConserved <=> \A i \in Instruments :
              Pooled(PricesOf(i)) = TicksOf(i) /\ InOrder(PricesOf(i)))'
      BY PricesConservedIs, PTL
    <3>2. QED
      BY <3>1 DEF Pooled, InOrder
  <2>2. QED
    BY <1>5, <2>1
<1>6. CASE UNCHANGED <<ticks, bars, prices>>
           /\ \/ UNCHANGED loop
              \/ /\ loop.at \notin {"volumes", "publish"}
                 /\ loop'.at \notin {"volumes", "publish"}
  <2>1. \A i \in Instruments : PricesOf(i)' = PricesOf(i)
    BY <1>6, PlacesKept
  <2>2. \A i \in Instruments : TicksOf(i)' = TicksOf(i)
    BY <1>6 DEF TicksOf
  <2>3. QED
    BY <1>4, <2>1, <2>2
<1>7. ASSUME NEW i \in Instruments, AddPrice(i)
      PROVE  \A k \in Instruments : Pooled(PricesOf(k)') = TicksOf(k)' /\ InOrder(PricesOf(k)')
  <2> DEFINE t == Len(ticks) + 1
  <2>1. /\ ticks' = Append(ticks, <<i, now>>) /\ prices' = [prices EXCEPT ![i] = Append(@, t)]
        /\ UNCHANGED <<loop, bars>>
    BY <1>7 DEF AddPrice
  <2>2. /\ ticks \in Seq(Instruments \X Nat) /\ Len(ticks) \in Nat /\ t \in Nat
        /\ prices \in [Instruments -> TickSeq] /\ now \in Nat
    BY DEF FeedTypes
  <2>3. /\ DOMAIN ticks' = DOMAIN ticks \cup {t} /\ t \notin DOMAIN ticks /\ ticks'[t][1] = i
        /\ \A x \in DOMAIN ticks : ticks'[x] = ticks[x]
    BY <2>1, <2>2
  <2>4. \A k \in Instruments : TicksOf(k)' = IF k = i THEN TicksOf(k) \cup {t} ELSE TicksOf(k)
    BY <2>3 DEF TicksOf
  <2>5. \A k \in Instruments :
          /\ \A b \in 1 .. L + 2 : b # L + 2 => PricesOf(k)'[b] = PricesOf(k)[b]
          /\ Snapshot(k)' = Snapshot(k)
    <3>1. \A k \in Instruments : Snapshot(k)' = Snapshot(k)
      BY <1>1, <2>1 DEF PlacesHold, InFlight, Flushed
    <3>2. \A b \in 1 .. L + 2 : b # L + 2 => b \in DOMAIN bars \/ b = L + 1
      BY <1>2
    <3>3. ASSUME NEW k \in Instruments, NEW b \in DOMAIN bars
          PROVE  PricesOf(k)'[b] = PricesOf(k)[b]
      BY <1>1, <2>1 DEF PlacesHold
    <3>4. QED
      BY <1>2, <1>3, <2>1, <3>1, <3>2, <3>3
  <2>6. ASSUME NEW k \in Instruments, k # i PROVE PricesOf(k)' = PricesOf(k)
    <3>1. prices'[k] = prices[k]
      BY <2>1, <2>2, <2>6
    <3>2. \A b \in 1 .. L + 2 : PricesOf(k)'[b] = PricesOf(k)[b]
      BY <1>2, <1>3, <2>1, <2>5, <3>1
    <3>3. DOMAIN PricesOf(k)' = DOMAIN PricesOf(k)
      BY <1>2, <1>3, <2>1
    <3>4. QED
      BY <1>2, <3>2, <3>3 DEF PricesOf
  <2>7. Pooled(PricesOf(i)') = Pooled(PricesOf(i)) \cup {t} /\ InOrder(PricesOf(i)')
    <3> DEFINE n == L + 2
               f == PricesOf(i)
               h == PricesOf(i)'
    <3>1. n \in Nat /\ n >= 1 /\ DOMAIN f = 1 .. n /\ DOMAIN h = 1 .. n
      BY <1>2, <1>3, <2>1
    <3>2. \A b \in 1 .. n : f[b] \in Seq(Nat)
      <4>1. \A s \in TickSeq : s \in Seq(Nat)
        BY DEF TickSeq, Ticks
      <4>2. \A b \in 1 .. n : b \in DOMAIN bars \/ b = L + 1 \/ b = L + 2
        BY <1>2
      <4>3. f[L + 1] \in TickSeq /\ f[L + 2] \in TickSeq
        BY <1>2
      <4>4. \A b \in DOMAIN bars : f[b] \in TickSeq
        <5>1. <<>> \in TickSeq
          BY DEF TickSeq
        <5>2. QED
          BY <1>2, <5>1
      <4> HIDE DEF f, n
      <4>5. QED
        BY <4>1, <4>2, <4>3, <4>4 DEF n
    <3>3. \A b \in 1 .. n : b # n => h[b] = f[b]
      BY <2>5
    <3>4. h[n] = Append(f[n], t)
      BY <1>2, <1>3, <2>1, <2>2
    <3>5. InOrder(f) /\ \A x \in Pooled(f) : x < t
      BY <1>4, <2>2 DEF TicksOf
    <3> HIDE DEF n, f, h, t
    <3>6. t \in Nat
      BY <2>2
    <3>7. Pooled(h) = Pooled(f) \cup {t} /\ InOrder(h)
      BY <3>1, <3>2, <3>3, <3>4, <3>5, <3>6, Lengthened
    <3>8. QED
      BY <3>7 DEF f, h
  <2>8. QED
    BY <1>4, <2>4, <2>6, <2>7
<1>8. CASE SwapPrices
  <2>1. UNCHANGED <<ticks, bars>>
    BY <1>8 DEF SwapPrices
  <2>2. \A i \in Instruments : TicksOf(i)' = TicksOf(i)
    BY <2>1 DEF TicksOf
  <2>3. ASSUME NEW i \in Instruments
        PROVE  Pooled(PricesOf(i)') = Pooled(PricesOf(i)) /\ InOrder(PricesOf(i)')
    <3> DEFINE n == L + 2
               f == PricesOf(i)
               h == PricesOf(i)'
               g == [b \in 1 .. n |-> IF b = L + 1 THEN IF i = Flushed THEN L + 2 ELSE L + 1
                                      ELSE b]
    <3>1. n \in Nat /\ DOMAIN f = 1 .. n /\ DOMAIN h = 1 .. n /\ g \in [1 .. n -> 1 .. n]
      BY <1>2, <1>3, <2>1
    <3>2. \A b \in 1 .. n : b \in DOMAIN bars \/ b = L + 1 \/ b = L + 2
      BY <1>2
    <3>3. /\ \A b \in DOMAIN bars : h[b] = f[b]
          /\ f[L + 1] = <<>> /\ f[L + 2] = prices[i]
          /\ h[L + 1] = IF i = Flushed THEN prices[i] ELSE <<>>
          /\ h[L + 2] = IF i = Flushed THEN <<>> ELSE prices[i]
      BY <1>2, <1>3, <1>8, <2>1, SwapMoves
    <3>4. L + 1 \in 1 .. n /\ L + 2 \in 1 .. n /\ \A b \in DOMAIN bars : b \in 1 .. n /\ g[b] = b
      BY <1>2
    <3>5. g[L + 1] = (IF i = Flushed THEN L + 2 ELSE L + 1) /\ g[L + 2] = L + 2
      BY <1>2
    <3>6. \A b \in 1 .. n : h[b] = <<>> \/ h[b] = f[g[b]]
      BY <3>2, <3>3, <3>4, <3>5
    <3>7. \A a \in 1 .. n : f[a] = <<>> \/ \E b \in 1 .. n : h[b] = f[a]
      BY <3>2, <3>3, <3>4
    <3>8. \A a, b \in 1 .. n : a < b /\ h[a] # <<>> /\ h[b] # <<>> => g[a] < g[b]
      BY <1>2, <3>2, <3>3, <3>4, <3>5
    <3>9. InOrder(f)
      BY <1>4
    <3> HIDE DEF n, f, h, g
    <3>10. Moved(f, g, h)
      BY <3>1, <3>6, <3>7, <3>8 DEF Moved
    <3>11. Pooled(h) = Pooled(f) /\ (InOrder(f) => InOrder(h))
      BY <3>10, Rearranged
    <3>12. QED
      BY <3>9, <3>11 DEF f, h
  <2>4. QED
    BY <1>4, <2>2, <2>3
<1>9. CASE Publish
  <2>1. UNCHANGED ticks /\ Len(bars') = L + 1
    BY <1>9, PublishMoves DEF Publish
  <2>2. \A i \in Instruments : TicksOf(i)' = TicksOf(i)
    BY <2>1 DEF TicksOf
  <2>3. ASSUME NEW i \in Instruments
        PROVE  Pooled(PricesOf(i)') = Pooled(PricesOf(i)) /\ InOrder(PricesOf(i)')
    <3> DEFINE n == L + 2
               m == L + 3
               f == PricesOf(i)
               h == PricesOf(i)'
               g == [b \in 1 .. m |-> IF b = L + 3 THEN L + 2 ELSE b]
    <3>1. /\ n \in Nat /\ m \in Nat /\ DOMAIN f = 1 .. n /\ DOMAIN h = 1 .. m
          /\ g \in [1 .. m -> 1 .. n]
      BY <1>2, <1>3, <2>1
    <3>2. \A b \in 1 .. m : b \in DOMAIN bars \/ b = L + 1 \/ b = L + 2 \/ b = L + 3
      BY <1>2
    <3>3. /\ \A b \in DOMAIN bars : h[b] = f[b]
          /\ f[L + 1] = Snapshot(i) /\ f[L + 2] = prices[i]
          /\ h[L + 1] = Snapshot(i) /\ h[L + 2] = <<>> /\ h[L + 3] = prices[i]
      <4>1. /\ \A b \in DOMAIN bars : h[b] = f[b]
            /\ h[L + 1] = Snapshot(i) /\ Snapshot(i)' = <<>> /\ prices'[i] = prices[i]
        BY <1>9, PublishMoves
      <4>2. L + 1 + 1 = L + 2 /\ L + 1 + 2 = L + 3
        BY <1>2
      <4>3. h[L + 2] = Snapshot(i)' /\ h[L + 3] = prices'[i]
        BY <1>3, <2>1, <4>2
      <4>4. QED
        BY <1>2, <4>1, <4>3
    <3>4. /\ L + 1 \in 1 .. n /\ L + 2 \in 1 .. n /\ \A b \in DOMAIN bars : b \in 1 .. n
          /\ L + 1 \in 1 .. m /\ L + 2 \in 1 .. m /\ L + 3 \in 1 .. m
          /\ \A b \in DOMAIN bars : b \in 1 .. m /\ g[b] = b
          /\ g[L + 1] = L + 1 /\ g[L + 2] = L + 2 /\ g[L + 3] = L + 2
      BY <1>2
    <3>5. \A a \in 1 .. n : a \in DOMAIN bars \/ a = L + 1 \/ a = L + 2
      BY <1>2
    <3>6. \A b \in 1 .. m : h[b] = <<>> \/ h[b] = f[g[b]]
      BY <3>2, <3>3, <3>4
    <3>7. \A a \in 1 .. n : f[a] = <<>> \/ \E b \in 1 .. m : h[b] = f[a]
      BY <3>3, <3>4, <3>5
    <3>8. \A a, b \in 1 .. m : a < b /\ h[a] # <<>> /\ h[b] # <<>> => g[a] < g[b]
      BY <1>2, <3>2, <3>3, <3>4
    <3>9. InOrder(f)
      BY <1>4
    <3> HIDE DEF n, m, f, h, g
    <3>10. Moved(f, g, h)
      BY <3>1, <3>6, <3>7, <3>8 DEF Moved
    <3>11. Pooled(h) = Pooled(f) /\ (InOrder(f) => InOrder(h))
      BY <3>10, Rearranged
    <3>12. QED
      BY <3>9, <3>11 DEF f, h
  <2>4. QED
    BY <1>4, <2>2, <2>3
<1>10. CASE SwapVolumes
  <2>1. /\ loop.at = "volumes" /\ UNCHANGED <<ticks, bars, prices>>
        /\ loop' = [loop EXCEPT !.at = "publish", !.volumes = volumes[Flushed]]
    BY <1>10 DEF SwapVolumes
  <2>2. loop'.at = "publish" /\ loop'.prices = loop.prices /\ Flushed' = Flushed
    BY <2>1 DEF FeedTypes, Loops, Flushed
  <2>3. \A i : InFlight(i, {"volumes", "publish"})' <=> InFlight(i, {"volumes", "publish"})
    BY <2>1, <2>2 DEF InFlight
  <2>4. \A i \in Instruments : PricesOf(i)' = PricesOf(i) /\ TicksOf(i)' = TicksOf(i)
    BY <2>1, <2>2, <2>3 DEF PricesOf, Places, PricesIn, TicksOf
  <2>5. QED
    BY <1>4, <2>4
<1>11. CASE StartTick \/ SubmitBatch \/ LoopEnds
  <2>1. UNCHANGED <<ticks, bars, prices>>
    BY <1>11 DEF StartTick, SubmitBatch, LoopEnds
  <2>2. UNCHANGED loop \/ /\ loop.at \notin {"volumes", "publish"}
                          /\ loop'.at \notin {"volumes", "publish"}
    BY <1>11, LoopElsewhere
  <2>3. QED
    BY <1>6, <2>1, <2>2
<1>12. CASE UNCHANGED <<ticks, bars, prices, loop>>
  BY <1>6, <1>12
<1>13. QED
  BY <1>7, <1>8, <1>9, <1>10, <1>11, <1>12
     DEF Next, TimePasses, MainLoop, AddVolume, Aggregate, Writer, GetJob, RunJob, WriterLeaves,
         StopLoop, StopWriter, Log, KeepRecord, FlushLog, LogWorkerDies, TakeRecord, feed, vars

(***************************************************************************)
(* The volumes: where the volume of a tick is, against its price.          *)
(***************************************************************************)
Of(t) == ticks[t][1]

VolumeWaits(t) ==
  \/ t = adding
  \/ t \in Range(volumes[Of(t)])
  \/ InFlight(Of(t), {"publish"}) /\ t \in Range(loop.volumes)

PriceWaits(t) == t \in Range(Snapshot(Of(t))) \cup Range(prices[Of(t)])

PriceInNewest(t) ==
  \E b \in DOMAIN bars :
    bars[b].instrument = Of(t) /\ NewestBar(b) /\ t \in Range(bars[b].prices)

\* The volume of a tick is on its way, and its price in no older bar than the newest.
OnItsWay(t) == VolumeWaits(t) /\ (PriceWaits(t) \/ PriceInNewest(t))

\* The prices of i that the next bar of i will hold.
FirstWaiting(i) == IF Snapshot(i) # <<>> THEN Range(Snapshot(i)) ELSE Range(prices[i])

ZeroBar(c, i) == c \in DOMAIN bars /\ bars[c].instrument = i /\ bars[c].prices = <<>>

Booked(t) == \E b \in DOMAIN bars : t \in Range(bars[b].volumes)
NextToZero(t) ==
  \E c \in DOMAIN bars : ZeroBar(c, Of(t)) /\ \E b \in DOMAIN bars :
    t \in Range(bars[b].prices) /\ (NextBar(b, c) \/ NextBar(c, b))
AfterZero(t) ==
  \E c \in DOMAIN bars : ZeroBar(c, Of(t)) /\ NewestBar(c) /\ t \in FirstWaiting(Of(t))

\* The volume of a tick is in a bar, or was dropped by a flush that found no price.
Settled(t) == Booked(t) \/ NextToZero(t) \/ AfterZero(t)

\* Once a flush has taken both lists, what is left of the volumes is of ticks that are not
\* older than the prices it took.
LeftAreNewer ==
  loop.at = "publish" => \A k \in DOMAIN loop.prices :
    /\ adding # NoTick => loop.prices[k] <= adding
    /\ \A j \in DOMAIN volumes[Flushed] : loop.prices[k] <= volumes[Flushed][j]

VolumesInv == (\A t \in DOMAIN ticks : OnItsWay(t) \/ Settled(t)) /\ LeftAreNewer

LEMMA VolumesImplies == FeedTypes /\ VolumesInv => VolumesConserved
<1> SUFFICES ASSUME FeedTypes, VolumesInv, NEW t \in DOMAIN ticks
             PROVE  \/ VolumeWaits(t) \/ Booked(t) \/ Split(t)
  BY DEF VolumesConserved, VolumeWaits, Booked, Of
<1>1. CASE OnItsWay(t)
  BY <1>1 DEF OnItsWay
<1>2. CASE NextToZero(t)
  BY <1>2 DEF NextToZero, Split, ZeroBar, Of
<1>3. CASE AfterZero(t)
  <2>1. PICK c \in DOMAIN bars : ZeroBar(c, Of(t)) /\ NewestBar(c) /\ t \in FirstWaiting(Of(t))
    BY <1>3 DEF AfterZero
  <2>3. PricesIn(Of(t), Len(bars) + 2) = prices[Of(t)]
    BY DEF FeedTypes, PricesIn
  <2>4. \E b \in {Len(bars) + 1, Len(bars) + 2} : t \in Range(PricesIn(Of(t), b))
    BY <2>1, <2>3 DEF FirstWaiting, Snapshot
  <2>5. QED
    BY <2>1, <2>4 DEF Split, ZeroBar, Of
<1>4. QED
  BY <1>1, <1>2, <1>3 DEF VolumesInv, Settled

LEMMA VolumesInit == Init => VolumesInv
<1> SUFFICES ASSUME Init PROVE VolumesInv
  OBVIOUS
<1>1. ticks = <<>> /\ loop.at = "tick"
  BY DEF Init, Resting
<1>2. QED
  BY <1>1 DEF VolumesInv, LeftAreNewer

\* A step that publishes no bar keeps the place of a tick, if the lists do.
LEMMA TickKept ==
  ASSUME NEW t, UNCHANGED bars, UNCHANGED Of(t), OnItsWay(t) \/ Settled(t),
         VolumeWaits(t) => VolumeWaits(t)', PriceWaits(t) => PriceWaits(t)',
         t \in FirstWaiting(Of(t)) => (t \in FirstWaiting(Of(t)))'
  PROVE  OnItsWay(t)' \/ Settled(t)'
<1>1. PriceInNewest(t) => PriceInNewest(t)'
  BY DEF PriceInNewest, NewestBar
<1>2. Booked(t) => Booked(t)'
  BY DEF Booked
<1>3. NextToZero(t) => NextToZero(t)'
  BY DEF NextToZero, ZeroBar, NextBar
<1>4. AfterZero(t) => AfterZero(t)'
  BY DEF AfterZero, ZeroBar, NewestBar
<1>5. QED
  BY <1>1, <1>2, <1>3, <1>4 DEF OnItsWay, Settled

LEMMA PublishBars ==
  ASSUME FeedTypes, LoopInv, FeedTypes', Publish, NEW n, n = Len(bars) + 1
  PROVE  /\ n \in DOMAIN bars' /\ bars'[n] = FlushedBar /\ NewestBar(n)'
         /\ \A b \in DOMAIN bars : b \in DOMAIN bars' /\ bars'[b] = bars[b]
         /\ \A b, c \in DOMAIN bars : NextBar(b, c) => NextBar(b, c)'
         /\ \A b \in DOMAIN bars : NewestBar(b) =>
              IF bars[b].instrument = Flushed THEN NextBar(b, n)' ELSE NewestBar(b)'
<1>1. /\ Len(bars) \in Nat /\ DOMAIN bars = 1 .. Len(bars) /\ n \in Nat
      /\ DOMAIN bars' = 1 .. n /\ Len(bars') = n
  BY PublishMoves DEF FeedTypes
<1>2. bars'[n] = FlushedBar /\ \A b \in DOMAIN bars : bars'[b] = bars[b]
  BY PublishMoves
<1>3. n \in DOMAIN bars' /\ \A b \in DOMAIN bars : b \in DOMAIN bars' /\ b # n
  BY <1>1
<1>4. NewestBar(n)'
  BY <1>1 DEF NewestBar
<1>5. ASSUME NEW b \in DOMAIN bars, NEW c \in DOMAIN bars, NextBar(b, c) PROVE NextBar(b, c)'
  <2>1. \A d \in b + 1 .. c - 1 : d \in DOMAIN bars
    BY <1>1
  <2>2. QED
    BY <1>2, <1>5, <2>1 DEF NextBar
<1>6. ASSUME NEW b \in DOMAIN bars, NewestBar(b)
      PROVE  IF bars[b].instrument = Flushed THEN NextBar(b, n)' ELSE NewestBar(b)'
  <2>1. bars'[n].instrument = Flushed
    BY <1>2 DEF FlushedBar
  <2>2. \A d \in b + 1 .. Len(bars) : bars'[d].instrument # bars'[b].instrument
    <3>1. \A d \in b + 1 .. Len(bars) : d \in DOMAIN bars
      BY <1>1
    <3>2. QED
      BY <1>2, <1>6, <3>1 DEF NewestBar
  <2>3. n - 1 = Len(bars) /\ b < n
    BY <1>1
  <2>4. CASE bars[b].instrument = Flushed
    BY <1>2, <2>1, <2>2, <2>3, <2>4 DEF NextBar
  <2>5. CASE bars[b].instrument # Flushed
    <3>1. \A d \in b + 1 .. Len(bars') : d \in b + 1 .. Len(bars) \/ d = n
      BY <1>1
    <3>2. QED
      BY <1>2, <2>1, <2>2, <2>5, <3>1 DEF NewestBar
  <2>6. QED
    BY <2>4, <2>5
<1>7. QED
  BY <1>2, <1>3, <1>4, <1>5, <1>6

\* The ticks of a flush are ticks, newer than those of the bars.
LEMMA SnapshotIsNewer ==
  ASSUME FeedTypes, PricesConserved, NEW i \in Instruments
  PROVE  \A k \in DOMAIN Snapshot(i) :
           /\ Snapshot(i)[k] \in DOMAIN ticks
           /\ \A b \in DOMAIN bars : bars[b].instrument = i =>
                \A x \in Range(bars[b].prices) : x < Snapshot(i)[k]
<1>1. PlacesHold
  BY PlacesAre
<1>2. Pooled(PricesOf(i)) = TicksOf(i) /\ InOrder(PricesOf(i))
  BY PricesConservedIs
<1> DEFINE L == Len(bars)
           f == PricesOf(i)
<1>3. /\ L \in Nat /\ DOMAIN bars = 1 .. L /\ DOMAIN f = 1 .. L + 2 /\ f[L + 1] = Snapshot(i)
      /\ \A b \in DOMAIN bars : bars[b].instrument = i => f[b] = bars[b].prices
  BY <1>1 DEF PlacesHold
<1>4. L + 1 \in DOMAIN f /\ \A b \in DOMAIN bars : b \in DOMAIN f /\ b < L + 1
  BY <1>3
<1> HIDE DEF L, f
<1> SUFFICES ASSUME NEW k \in DOMAIN f[L + 1]
             PROVE  /\ f[L + 1][k] \in DOMAIN ticks
                    /\ \A b \in DOMAIN bars : bars[b].instrument = i =>
                         \A x \in Range(bars[b].prices) : x < f[L + 1][k]
  BY <1>3
<1>5. f[L + 1][k] \in Pooled(f)
  BY <1>4 DEF Pooled, Range
<1>6. f[L + 1][k] \in DOMAIN ticks
  BY <1>2, <1>5 DEF TicksOf, f
<1>7. ASSUME NEW b \in DOMAIN bars, bars[b].instrument = i, NEW x \in Range(bars[b].prices)
      PROVE  x < f[L + 1][k]
  <2>1. PICK j \in DOMAIN f[b] : x = f[b][j]
    BY <1>3, <1>7 DEF Range
  <2>2. InOrder(f)
    BY <1>2 DEF f
  <2>3. QED
    BY <1>4, <2>1, <2>2 DEF InOrder
<1>8. QED
  BY <1>6, <1>7

\* A volume that was left when the flush took both lists is not of a tick of an older bar,
\* unless the flush took no price.
LEMMA PublishKeepsTick ==
  ASSUME FeedTypes, LoopInv, PricesConserved, LeftAreNewer, FeedTypes', Publish,
         NEW t \in DOMAIN ticks, OnItsWay(t) \/ Settled(t)
  PROVE  OnItsWay(t)' \/ Settled(t)'
<1> DEFINE i == Of(t)
<1>1. PICK n : n = Len(bars) + 1
  OBVIOUS
<1>2. /\ n \in DOMAIN bars' /\ bars'[n] = FlushedBar /\ NewestBar(n)'
      /\ \A b \in DOMAIN bars : b \in DOMAIN bars' /\ bars'[b] = bars[b]
      /\ \A b, c \in DOMAIN bars : NextBar(b, c) => NextBar(b, c)'
      /\ \A b \in DOMAIN bars : NewestBar(b) =>
           IF bars[b].instrument = Flushed THEN NextBar(b, n)' ELSE NewestBar(b)'
  BY <1>1, PublishBars
<1>3. /\ loop.at = "publish" /\ UNCHANGED <<ticks, prices, volumes, adding>>
      /\ loop'.at # "publish"
  <2>1. loop \in Loops
    BY DEF FeedTypes
  <2>2. QED
    BY <2>1 DEF Publish, Loops
<1>4. i \in Instruments /\ Of(t)' = i
  BY <1>3 DEF FeedTypes, Of
<1>5. /\ Snapshot(i)' = <<>> /\ (i # Flushed => Snapshot(i) = <<>>)
      /\ Snapshot(Flushed) = loop.prices /\ Flushed \in Instruments
      /\ loop.prices \in TickSeq /\ prices[i] \in TickSeq
  BY <1>4, PublishMoves DEF FeedTypes, Loops
<1>6. /\ FlushedBar.instrument = Flushed /\ FlushedBar.prices = loop.prices
      /\ loop.prices # <<>> => FlushedBar.volumes = loop.volumes
  BY DEF FlushedBar
<1>7. (FirstWaiting(i) = IF Snapshot(i) # <<>> THEN Range(Snapshot(i)) ELSE Range(prices[i]))
      /\ FirstWaiting(Of(t))' = Range(prices[i])
  BY <1>3, <1>4, <1>5 DEF FirstWaiting
<1> HIDE DEF i
<1>8. ASSUME Booked(t) PROVE Booked(t)'
  BY <1>2, <1>8 DEF Booked
<1>9. ASSUME NextToZero(t) PROVE NextToZero(t)'
  BY <1>2, <1>4, <1>9 DEF NextToZero, ZeroBar, i
<1>10. ASSUME NEW b \in DOMAIN bars, bars[b].instrument = i, NewestBar(b), i = Flushed,
              t \in Range(bars[b].prices), loop.prices = <<>>
       PROVE  NextToZero(t)'
  <2>1. ZeroBar(n, Of(t))'
    BY <1>2, <1>4, <1>6, <1>10 DEF ZeroBar
  <2>2. NextBar(b, n)' /\ b \in DOMAIN bars' /\ t \in Range(bars'[b].prices)
    BY <1>2, <1>10
  <2>3. QED
    BY <1>2, <2>1, <2>2 DEF NextToZero
<1>11. ASSUME i = Flushed, loop.prices = <<>>, t \in Range(prices[i]) PROVE AfterZero(t)'
  <2>1. ZeroBar(n, Of(t))'
    BY <1>2, <1>4, <1>6, <1>11 DEF ZeroBar
  <2>2. QED
    BY <1>2, <1>7, <1>11, <2>1 DEF AfterZero
<1>12. ASSUME AfterZero(t) PROVE Settled(t)'
  <2>1. PICK c \in DOMAIN bars : ZeroBar(c, i) /\ NewestBar(c) /\ t \in FirstWaiting(i)
    BY <1>12 DEF AfterZero, i
  <2>2. bars[c].instrument = i /\ ZeroBar(c, Of(t))'
    BY <1>2, <1>4, <2>1 DEF ZeroBar
  <2>3. CASE i # Flushed
    <3>1. NewestBar(c)' /\ t \in Range(prices[i])
      BY <1>2, <1>5, <1>7, <2>1, <2>2, <2>3
    <3>2. AfterZero(t)'
      BY <1>2, <1>7, <2>2, <3>1 DEF AfterZero
    <3>3. QED
      BY <3>2 DEF Settled
  <2>4. CASE i = Flushed /\ loop.prices # <<>>
    <3>1. t \in Range(bars'[n].prices)
      BY <1>2, <1>5, <1>6, <1>7, <2>1, <2>4
    <3>2. NextBar(c, n)'
      BY <1>2, <2>1, <2>2, <2>4
    <3>3. NextToZero(t)'
      BY <1>2, <2>2, <3>1, <3>2 DEF NextToZero
    <3>4. QED
      BY <3>3 DEF Settled
  <2>5. CASE i = Flushed /\ loop.prices = <<>>
    <3>1. t \in Range(prices[i])
      BY <1>5, <1>7, <2>1, <2>5
    <3>2. QED
      BY <1>11, <2>5, <3>1 DEF Settled
  <2>6. QED
    BY <2>3, <2>4, <2>5
<1>13. CASE i # Flushed /\ OnItsWay(t)
  <2>1. VolumeWaits(t)'
    <3>1. ~ InFlight(Of(t), {"publish"})
      BY <1>13 DEF InFlight, i
    <3>2. QED
      BY <1>3, <1>4, <1>13, <3>1 DEF OnItsWay, VolumeWaits, i
  <2>2. PriceWaits(t) => PriceWaits(t)'
    BY <1>3, <1>4, <1>5, <1>13 DEF PriceWaits, i
  <2>3. PriceInNewest(t) => PriceInNewest(t)'
    BY <1>2, <1>4, <1>13 DEF PriceInNewest, i
  <2>4. QED
    BY <1>13, <2>1, <2>2, <2>3 DEF OnItsWay
<1>14. CASE i = Flushed /\ OnItsWay(t) /\ loop.prices = <<>>
  <2>1. Snapshot(i) = <<>> /\ Range(<<>>) = {}
    BY <1>5, <1>14 DEF Range
  <2>3. CASE t \in Range(prices[i])
    BY <1>11, <1>14, <2>3 DEF Settled
  <2>4. CASE PriceInNewest(t)
    BY <1>10, <1>14, <2>4 DEF PriceInNewest, Settled, i
  <2>5. QED
    BY <1>14, <2>1, <2>3, <2>4 DEF OnItsWay, PriceWaits, i
<1>15. CASE i = Flushed /\ OnItsWay(t) /\ loop.prices # <<>>
  <2>1. CASE InFlight(Of(t), {"publish"}) /\ t \in Range(loop.volumes)
    <3>1. t \in Range(bars'[n].volumes)
      BY <1>2, <1>6, <1>15, <2>1
    <3>2. QED
      BY <1>2, <3>1 DEF Booked, Settled
  <2>2. CASE t = adding \/ t \in Range(volumes[i])
    <3>1. VolumeWaits(t)'
      BY <1>3, <1>4, <2>2 DEF VolumeWaits
    <3>2. CASE t \in Range(Snapshot(i))
      <4>1. t \in Range(bars'[n].prices) /\ bars'[n].instrument = i
        BY <1>2, <1>5, <1>6, <1>15, <3>2
      <4>2. PriceInNewest(t)'
        BY <1>2, <1>4, <4>1 DEF PriceInNewest
      <4>3. QED
        BY <3>1, <4>2 DEF OnItsWay
    <3>3. CASE t \in Range(prices[i])
      BY <1>3, <1>4, <3>1, <3>3 DEF OnItsWay, PriceWaits
    <3>4. CASE PriceInNewest(t)
      <4>1. PICK b \in DOMAIN bars : bars[b].instrument = i /\ t \in Range(bars[b].prices)
        BY <3>4 DEF PriceInNewest, i
      <4>2. 1 \in DOMAIN loop.prices
        BY <1>5, <1>15 DEF TickSeq
      <4>3. t < loop.prices[1] /\ loop.prices[1] \in DOMAIN ticks
        BY <1>4, <1>5, <1>15, <4>1, <4>2, SnapshotIsNewer
      <4>4. t \in Nat \ {0} /\ loop.prices[1] \in Nat
        BY <4>3 DEF FeedTypes
      <4>5. loop.prices[1] <= t
        <5>1. CASE t = adding
          BY <1>3, <4>2, <4>4, <5>1 DEF LeftAreNewer, NoTick
        <5>2. CASE t \in Range(volumes[i])
          BY <1>3, <1>15, <4>2, <5>2 DEF LeftAreNewer, Range
        <5>3. QED
          BY <2>2, <5>1, <5>2
      <4>6. QED
        BY <4>3, <4>4, <4>5
    <3>5. QED
      BY <1>15, <3>2, <3>3, <3>4 DEF OnItsWay, PriceWaits, i
  <2>3. QED
    BY <1>15, <2>1, <2>2 DEF OnItsWay, VolumeWaits, i
<1>16. QED
  BY <1>8, <1>9, <1>12, <1>13, <1>14, <1>15 DEF Settled

LEMMA VolumesNext ==
  /\ FeedTypes /\ LoopInv /\ PricesConserved /\ VolumesInv
  /\ [Next]_vars /\ FeedTypes'
  => VolumesInv'
<1> SUFFICES ASSUME FeedTypes, LoopInv, PricesConserved, VolumesInv, [Next]_vars, FeedTypes'
             PROVE  VolumesInv'
  OBVIOUS
<1> USE DEF NoTick
<1>1. PlacesHold /\ PlacesHold'
  <2>1. PlacesHold
    BY PlacesAre
  <2>2. PlacesHold'
    BY PlacesAre, PTL
  <2>3. QED
    BY <2>1, <2>2
<1>2. /\ ticks \in Seq(Instruments \X Nat) /\ Len(ticks) \in Nat
      /\ DOMAIN ticks = 1 .. Len(ticks) /\ adding \in {0, Len(ticks)}
      /\ prices \in [Instruments -> TickSeq] /\ volumes \in [Instruments -> TickSeq]
      /\ loop \in Loops
      /\ \A t \in DOMAIN ticks : Of(t) \in Instruments
  BY DEF FeedTypes, Of
<1>3. (\A t \in DOMAIN ticks : OnItsWay(t) \/ Settled(t)) /\ LeftAreNewer
  BY DEF VolumesInv
\* The steps that change nothing of it.
<1>4. CASE /\ UNCHANGED <<ticks, bars, prices, volumes, adding>>
           /\ \/ UNCHANGED loop
              \/ /\ loop.at \notin {"volumes", "publish"}
                 /\ loop'.at \notin {"volumes", "publish"}
  <2>1. \A i \in Instruments : Snapshot(i)' = Snapshot(i)
    BY <1>4, PlacesKept
  <2>2. \A i : \/ InFlight(i, {"publish"})' /\ UNCHANGED loop.volumes
               \/ ~ InFlight(i, {"publish"})
    BY <1>4 DEF InFlight, Flushed
  <2>3. ASSUME NEW t \in DOMAIN ticks PROVE OnItsWay(t)' \/ Settled(t)'
    <3>1. Of(t)' = Of(t) /\ Of(t) \in Instruments
      BY <1>2, <1>4 DEF Of
    <3>2. Snapshot(Of(t))' = Snapshot(Of(t))
      BY <2>1, <3>1
    <3>3. VolumeWaits(t) => VolumeWaits(t)'
      BY <1>4, <2>2, <3>1 DEF VolumeWaits
    <3>4. PriceWaits(t) => PriceWaits(t)'
      BY <1>4, <3>1, <3>2 DEF PriceWaits
    <3>5. t \in FirstWaiting(Of(t)) => (t \in FirstWaiting(Of(t)))'
      BY <1>4, <3>1, <3>2 DEF FirstWaiting
    <3>6. QED
      BY <1>3, <1>4, <3>1, <3>3, <3>4, <3>5, TickKept
  <2>4. LeftAreNewer'
    <3>1. CASE UNCHANGED loop
      BY <1>3, <1>4, <3>1 DEF LeftAreNewer, Flushed
    <3>2. CASE loop'.at \notin {"volumes", "publish"}
      BY <3>2 DEF LeftAreNewer
    <3>3. QED
      BY <1>4, <3>1, <3>2
  <2>5. QED
    BY <1>4, <2>3, <2>4 DEF VolumesInv
<1>5. ASSUME NEW i \in Instruments, AddPrice(i) PROVE VolumesInv'
  <2> DEFINE m == Len(ticks) + 1
  <2>1. /\ adding = 0 /\ adding' = m
        /\ ticks' = Append(ticks, <<i, now>>) /\ prices' = [prices EXCEPT ![i] = Append(@, m)]
        /\ UNCHANGED <<volumes, loop, bars>>
    BY <1>5 DEF AddPrice
  <2>2. /\ m \in Nat /\ m \notin DOMAIN ticks /\ ticks'[m][1] = i /\ m # 0
        /\ \A t \in DOMAIN ticks : ticks'[t] = ticks[t]
        /\ DOMAIN ticks' = DOMAIN ticks \cup {m}
    BY <1>2, <2>1 DEF FeedTypes
  <2>3. \A k \in Instruments : Snapshot(k)' = Snapshot(k)
    BY <1>1, <2>1 DEF PlacesHold, InFlight, Flushed
  <2>4. \A k \in Instruments : Range(prices[k]) \subseteq Range(prices'[k])
    <3>1. ASSUME NEW k \in Instruments PROVE Range(prices[k]) \subseteq Range(prices'[k])
      <4>1. CASE k = i
        <5>1. prices'[i] = Append(prices[i], m) /\ prices[i] \in TickSeq
          BY <1>2, <2>1
        <5>2. \A j \in DOMAIN prices[i] : j \in DOMAIN prices'[i] /\ prices'[i][j] = prices[i][j]
          BY <5>1 DEF TickSeq
        <5>3. QED
          BY <4>1, <5>2 DEF Range
      <4>2. CASE k # i
        BY <1>2, <2>1, <4>2
      <4>3. QED
        BY <4>1, <4>2
    <3>2. QED
      BY <3>1
  <2>5. m \in Range(prices'[i])
    <3>1. prices'[i] = Append(prices[i], m) /\ prices[i] \in TickSeq
      BY <1>2, <2>1
    <3>2. Len(prices[i]) + 1 \in DOMAIN prices'[i] /\ prices'[i][Len(prices[i]) + 1] = m
      BY <3>1 DEF TickSeq
    <3>3. QED
      BY <3>2 DEF Range
  <2>6. ASSUME NEW t \in DOMAIN ticks PROVE OnItsWay(t)' \/ Settled(t)'
    <3>1. Of(t)' = Of(t) /\ Of(t) \in Instruments
      BY <1>2, <2>2 DEF Of
    <3>2. Snapshot(Of(t))' = Snapshot(Of(t)) /\ Range(prices[Of(t)]) \subseteq Range(prices'[Of(t)])
      BY <2>3, <2>4, <3>1
    <3>3. VolumeWaits(t) => VolumeWaits(t)'
      <4>1. t # adding
        BY <1>2, <2>1
      <4>2. QED
        BY <2>1, <3>1, <4>1 DEF VolumeWaits, InFlight, Flushed
    <3>4. PriceWaits(t) => PriceWaits(t)'
      BY <3>1, <3>2 DEF PriceWaits
    <3>5. t \in FirstWaiting(Of(t)) => (t \in FirstWaiting(Of(t)))'
      BY <3>1, <3>2 DEF FirstWaiting
    <3>6. QED
      BY <1>3, <2>1, <3>1, <3>3, <3>4, <3>5, TickKept
  <2>7. \A t : t = m => OnItsWay(t)'
    <3>1. ASSUME NEW t, t = m PROVE OnItsWay(t)'
      <4>1. Of(t)' = i /\ adding' = t
        BY <2>1, <2>2, <3>1 DEF Of
      <4>2. t \in Range(prices'[i])
        BY <2>5, <3>1
      <4>3. QED
        BY <4>1, <4>2 DEF OnItsWay, VolumeWaits, PriceWaits
    <3>2. QED
      BY <3>1
  <2>8. LeftAreNewer'
    <3>1. SUFFICES ASSUME loop.at = "publish", NEW k \in DOMAIN loop.prices
                   PROVE  /\ loop.prices[k] <= m
                          /\ \A j \in DOMAIN volumes[Flushed] : loop.prices[k] <= volumes[Flushed][j]
      BY <2>1 DEF LeftAreNewer, Flushed
    <3>2. Flushed \in Instruments
      BY <3>1, PipelinesHaveInstruments DEF LoopInv, Flushed
    <3>3. Snapshot(Flushed) = loop.prices
      BY <1>1, <3>1, <3>2 DEF PlacesHold, InFlight
    <3>4. loop.prices[k] \in DOMAIN ticks
      BY <3>2, <3>3, SnapshotIsNewer
    <3>5. loop.prices[k] \in 1 .. Len(ticks) /\ Len(ticks) \in Nat
      BY <1>2, <3>4
    <3>6. loop.prices[k] <= m
      BY <3>5
    <3>7. \A j \in DOMAIN volumes[Flushed] : loop.prices[k] <= volumes[Flushed][j]
      BY <1>3, <3>1 DEF LeftAreNewer
    <3>8. QED
      BY <3>6, <3>7
  <2> HIDE DEF m
  <2>9. QED
    BY <2>2, <2>6, <2>7, <2>8 DEF VolumesInv
<1>6. CASE AddVolume
  <2> DEFINE F == ticks[adding][1]
  <2>1. /\ adding # 0 /\ volumes' = [volumes EXCEPT ![F] = Append(@, adding)]
        /\ adding' = 0 /\ UNCHANGED <<ticks, prices, loop, bars>>
    BY <1>6 DEF AddVolume
  <2>2. adding \in DOMAIN ticks /\ adding = Len(ticks) /\ F \in Instruments
    BY <1>2, <2>1
  <2>3. volumes'[F] = Append(volumes[F], adding) /\ volumes[F] \in TickSeq
        /\ \A k \in Instruments \ {F} : volumes'[k] = volumes[k]
    BY <1>2, <2>1, <2>2
  <2>4. Range(volumes'[F]) = Range(volumes[F]) \cup {adding}
    <3>1. /\ DOMAIN volumes'[F] = DOMAIN volumes[F] \cup {Len(volumes[F]) + 1}
          /\ volumes'[F][Len(volumes[F]) + 1] = adding
          /\ \A j \in DOMAIN volumes[F] : volumes'[F][j] = volumes[F][j]
      BY <2>3 DEF TickSeq
    <3>2. QED
      BY <3>1 DEF Range
  <2>5. \A k \in Instruments : Snapshot(k)' = Snapshot(k)
    BY <2>1, PlacesKept
  <2>6. ASSUME NEW t \in DOMAIN ticks PROVE OnItsWay(t)' \/ Settled(t)'
    <3>1. Of(t)' = Of(t) /\ Of(t) \in Instruments
      BY <1>2, <2>1 DEF Of
    <3>2. Snapshot(Of(t))' = Snapshot(Of(t)) /\ prices' = prices
      BY <2>1, <2>5, <3>1
    <3>3. VolumeWaits(t) => VolumeWaits(t)'
      <4>1. CASE t = adding
        BY <2>4, <3>1, <4>1 DEF VolumeWaits, Of
      <4>2. CASE t \in Range(volumes[Of(t)])
        <5>1. t \in Range(volumes'[Of(t)])
          BY <2>3, <2>4, <3>1, <4>2
        <5>2. QED
          BY <3>1, <5>1 DEF VolumeWaits
      <4>3. CASE InFlight(Of(t), {"publish"}) /\ t \in Range(loop.volumes)
        BY <2>1, <3>1, <4>3 DEF VolumeWaits, InFlight, Flushed
      <4>4. QED
        BY <4>1, <4>2, <4>3 DEF VolumeWaits
    <3>4. PriceWaits(t) => PriceWaits(t)'
      BY <3>1, <3>2 DEF PriceWaits
    <3>5. t \in FirstWaiting(Of(t)) => (t \in FirstWaiting(Of(t)))'
      BY <3>1, <3>2 DEF FirstWaiting
    <3>6. QED
      BY <1>3, <2>1, <3>1, <3>3, <3>4, <3>5, TickKept
  <2>7. LeftAreNewer'
    <3>1. SUFFICES ASSUME loop.at = "publish", NEW k \in DOMAIN loop.prices,
                          NEW j \in DOMAIN volumes'[Flushed]
                   PROVE  loop.prices[k] <= volumes'[Flushed][j]
      BY <2>1 DEF LeftAreNewer, Flushed
    <3>2. Flushed \in Instruments
      BY <3>1, PipelinesHaveInstruments DEF LoopInv, Flushed
    <3>3. volumes'[Flushed][j] \in Range(volumes[Flushed]) \cup {adding}
      <4>1. CASE Flushed = F
        BY <2>4, <4>1 DEF Range
      <4>2. CASE Flushed # F
        BY <2>3, <3>2, <4>2 DEF Range
      <4>3. QED
        BY <4>1, <4>2
    <3>4. QED
      BY <1>3, <2>1, <3>1, <3>3 DEF LeftAreNewer, Range
  <2> HIDE DEF F
  <2>8. QED
    BY <2>1, <2>6, <2>7 DEF VolumesInv
<1>7. CASE SwapPrices
  <2>1. /\ loop.at = "prices" /\ UNCHANGED <<ticks, bars, volumes, adding>>
        /\ loop'.at = "volumes"
    BY <1>2, <1>7 DEF SwapPrices, Loops
  <2>2. \A i \in Instruments :
          /\ Snapshot(i) = <<>>
          /\ Snapshot(i)' = IF i = Flushed THEN prices[i] ELSE <<>>
          /\ prices'[i] = IF i = Flushed THEN <<>> ELSE prices[i]
    BY <1>7, SwapMoves
  <2>3. ASSUME NEW t \in DOMAIN ticks PROVE OnItsWay(t)' \/ Settled(t)'
    <3>1. Of(t)' = Of(t) /\ Of(t) \in Instruments
      BY <1>2, <2>1 DEF Of
    <3> DEFINE i == Of(t)
    <3>2. /\ Snapshot(i) = <<>>
          /\ Snapshot(Of(t))' = IF i = Flushed THEN prices[i] ELSE <<>>
          /\ prices'[i] = IF i = Flushed THEN <<>> ELSE prices[i]
      BY <2>2, <3>1
    <3>3. VolumeWaits(t) => VolumeWaits(t)'
      BY <2>1, <3>1 DEF VolumeWaits, InFlight
    <3>4. PriceWaits(t) => PriceWaits(t)'
      BY <3>1, <3>2 DEF PriceWaits, Range
    <3>5. t \in FirstWaiting(Of(t)) => (t \in FirstWaiting(Of(t)))'
      <4>1. FirstWaiting(i) = Range(prices[i])
        BY <3>2 DEF FirstWaiting
      <4>2. Range(<<>>) = {}
        BY DEF Range
      <4>3. QED
        BY <3>1, <3>2, <4>1, <4>2 DEF FirstWaiting
    <3>6. QED
      BY <1>3, <2>1, <3>1, <3>3, <3>4, <3>5, TickKept
  <2>4. LeftAreNewer'
    BY <2>1 DEF LeftAreNewer
  <2>5. QED
    BY <2>1, <2>3, <2>4 DEF VolumesInv
<1>8. CASE SwapVolumes
  <2>1. /\ loop.at = "volumes" /\ UNCHANGED <<ticks, bars, prices, adding>>
        /\ loop' = [loop EXCEPT !.at = "publish", !.volumes = volumes[Flushed]]
        /\ volumes' = [volumes EXCEPT ![Flushed] = <<>>]
    BY <1>8 DEF SwapVolumes
  <2>2. /\ loop'.at = "publish" /\ loop'.prices = loop.prices /\ Flushed' = Flushed
        /\ loop'.volumes = volumes[Flushed]
    BY <1>2, <2>1 DEF Loops, Flushed
  <2>3. Flushed \in Instruments
    BY <2>1, PipelinesHaveInstruments DEF LoopInv, Flushed
  <2>4. volumes'[Flushed] = <<>> /\ \A k \in Instruments \ {Flushed} : volumes'[k] = volumes[k]
    BY <1>2, <2>1, <2>3
  <2>5. \A i \in Instruments : Snapshot(i)' = Snapshot(i)
    BY <1>1, <2>1, <2>2 DEF PlacesHold, InFlight
  <2>6. ASSUME NEW t \in DOMAIN ticks PROVE OnItsWay(t)' \/ Settled(t)'
    <3>1. Of(t)' = Of(t) /\ Of(t) \in Instruments
      BY <1>2, <2>1 DEF Of
    <3>2. Snapshot(Of(t))' = Snapshot(Of(t)) /\ prices' = prices
      BY <2>1, <2>5, <3>1
    <3>3. VolumeWaits(t) => VolumeWaits(t)'
      <4>1. CASE t = adding
        BY <2>1, <4>1 DEF VolumeWaits
      <4>2. CASE t \in Range(volumes[Of(t)]) /\ Of(t) = Flushed
        BY <2>2, <3>1, <4>2 DEF VolumeWaits, InFlight
      <4>3. CASE t \in Range(volumes[Of(t)]) /\ Of(t) # Flushed
        BY <2>4, <3>1, <4>3 DEF VolumeWaits
      <4>4. ~ InFlight(Of(t), {"publish"})
        BY <2>1 DEF InFlight
      <4>5. QED
        BY <4>1, <4>2, <4>3, <4>4 DEF VolumeWaits
    <3>4. PriceWaits(t) => PriceWaits(t)'
      BY <3>1, <3>2 DEF PriceWaits
    <3>5. t \in FirstWaiting(Of(t)) => (t \in FirstWaiting(Of(t)))'
      BY <3>1, <3>2 DEF FirstWaiting
    <3>6. QED
      BY <1>3, <2>1, <3>1, <3>3, <3>4, <3>5, TickKept
  <2>7. LeftAreNewer'
    <3>1. ASSUME NEW k \in DOMAIN loop.prices, adding # 0 PROVE loop.prices[k] <= adding
      <4>1. Snapshot(Flushed) = loop.prices
        BY <1>1, <2>1, <2>3 DEF PlacesHold, InFlight
      <4>2. loop.prices[k] \in DOMAIN ticks
        BY <2>3, <4>1, SnapshotIsNewer
      <4>3. adding = Len(ticks) /\ Len(ticks) \in Nat /\ loop.prices[k] \in 1 .. Len(ticks)
        BY <1>2, <3>1, <4>2
      <4>4. QED
        BY <4>3
    <3>2. DOMAIN volumes'[Flushed] = {}
      BY <2>4
    <3>3. QED
      BY <2>1, <2>2, <3>1, <3>2 DEF LeftAreNewer
  <2>8. QED
    BY <2>1, <2>6, <2>7 DEF VolumesInv
<1>9. CASE Publish
  <2>1. \A t \in DOMAIN ticks : OnItsWay(t)' \/ Settled(t)'
    BY <1>3, <1>9, PublishKeepsTick
  <2>2. UNCHANGED ticks /\ loop'.at # "publish"
    BY <1>2, <1>9 DEF Publish, Loops
  <2>3. QED
    BY <2>1, <2>2 DEF VolumesInv, LeftAreNewer
<1>10. CASE StartTick \/ SubmitBatch \/ LoopEnds
  <2>1. UNCHANGED <<ticks, bars, prices, volumes, adding>>
    BY <1>10 DEF StartTick, SubmitBatch, LoopEnds
  <2>2. UNCHANGED loop \/ /\ loop.at \notin {"volumes", "publish"}
                          /\ loop'.at \notin {"volumes", "publish"}
    BY <1>10, LoopElsewhere
  <2>3. QED
    BY <1>4, <2>1, <2>2
<1>11. CASE UNCHANGED <<ticks, bars, prices, volumes, adding, loop>>
  BY <1>4, <1>11
<1>12. QED
  BY <1>5, <1>6, <1>7, <1>8, <1>9, <1>10, <1>11
     DEF Next, TimePasses, MainLoop, Aggregate, Writer, GetJob, RunJob, WriterLeaves,
         StopLoop, StopWriter, Log, KeepRecord, FlushLog, LogWorkerDies, TakeRecord, feed, vars

(***************************************************************************)
(* The age of the ticks of a bar.                                          *)
(***************************************************************************)
\* The lists of i have been swapped out in the interval at hand.
Swapped(i) ==
  /\ loop.at \in {"prices", "volumes", "publish", "submit"}
  /\ \E p \in DOMAIN Pipelines :
       /\ Pipelines[p] = i
       /\ p < loop.pipeline \/ loop.at = "submit"
          \/ (p = loop.pipeline /\ loop.at \in {"volumes", "publish"})

\* The ticks of a list are not older than interval m.
NotOlder(list, m) == \A k \in DOMAIN list : ticks[list[k]][2] >= m

\* From the first batch on, no list holds a tick that is older than the interval at hand; a
\* list that was swapped out in this tick of the loop holds none older than its boundary.
FreshInv ==
  /\ FreshBars
  /\ \A i \in Instruments : Swapped(i) => NotOlder(prices[i], loop.boundary)
  /\ Len(bars) >= Len(Pipelines) => \A i \in Instruments :
       NotOlder(prices[i], last) /\ NotOlder(Snapshot(i), last)

LEMMA FreshInit == Init => FreshInv
<1> SUFFICES ASSUME Init PROVE FreshInv
  OBVIOUS
<1>1. loop.at = "tick" /\ bars = <<>>
  BY DEF Init, Resting
<1>2. \A i \in Instruments : prices[i] = <<>> /\ Snapshot(i) = <<>>
  BY <1>1 DEF Init, Empty, Snapshot, PricesIn, InFlight
<1>3. \A m : NotOlder(<<>>, m)
  BY DEF NotOlder
<1>4. QED
  BY <1>1, <1>2, <1>3 DEF FreshInv, FreshBars, Swapped

\* The ticks of the lists and of the bars are ticks.
LEMMA PricesAreTicks ==
  ASSUME FeedTypes, PricesConserved
  PROVE  /\ \A i \in Instruments :
              /\ \A k \in DOMAIN prices[i] : prices[i][k] \in DOMAIN ticks
              /\ \A k \in DOMAIN Snapshot(i) : Snapshot(i)[k] \in DOMAIN ticks
         /\ \A b \in DOMAIN bars : \A k \in DOMAIN bars[b].prices :
              bars[b].prices[k] \in DOMAIN ticks
<1>1. PlacesHold
  BY PlacesAre
<1>2. \A i \in Instruments : Pooled(PricesOf(i)) \subseteq DOMAIN ticks
  BY PricesConservedIs DEF TicksOf
<1>3. ASSUME NEW i \in Instruments, NEW b \in DOMAIN PricesOf(i), NEW k \in DOMAIN PricesOf(i)[b]
      PROVE  PricesOf(i)[b][k] \in DOMAIN ticks
  <2>1. PricesOf(i)[b][k] \in Pooled(PricesOf(i))
    BY DEF Pooled, Range
  <2>2. QED
    BY <1>2, <2>1
<1>4. ASSUME NEW i \in Instruments
      PROVE  /\ Len(bars) + 1 \in DOMAIN PricesOf(i) /\ PricesOf(i)[Len(bars) + 1] = Snapshot(i)
             /\ Len(bars) + 2 \in DOMAIN PricesOf(i) /\ PricesOf(i)[Len(bars) + 2] = prices[i]
  BY <1>1 DEF PlacesHold
<1>5. ASSUME NEW b \in DOMAIN bars, NEW k \in DOMAIN bars[b].prices
      PROVE  bars[b].prices[k] \in DOMAIN ticks
  <2>1. bars[b].instrument \in Instruments
    <3>1. bars[b] \in Bars
      BY DEF FeedTypes
    <3>2. QED
      BY <3>1 DEF Bars
  <2>2. b \in DOMAIN PricesOf(bars[b].instrument)
        /\ PricesOf(bars[b].instrument)[b] = bars[b].prices
    BY <1>1, <2>1 DEF PlacesHold
  <2>3. QED
    BY <1>3, <2>1, <2>2
<1>6. QED
  BY <1>3, <1>4, <1>5

\* At the first step of an interval no list has been swapped.
LEMMA NoneSwapped ==
  ASSUME loop'.at = FirstStep, loop'.pipeline = 1, NEW i \in Instruments
  PROVE  ~ Swapped(i)'
<1>1. /\ DOMAIN Pipelines = 1 .. Len(Pipelines)
      /\ \E p \in DOMAIN Pipelines : Pipelines[p] = i
  BY PipelinesHaveInstruments
<1>2. Pipelines # <<>>
  BY <1>1
<1>3. loop'.at = "prices"
  BY <1>2 DEF FirstStep
<1>4. \A p \in DOMAIN Pipelines : ~ (p < 1)
  BY <1>1
<1>5. QED
  BY <1>3, <1>4 DEF Swapped

LEMMA FreshNext ==
  /\ FeedTypes /\ LoopInv /\ PricesConserved /\ FreshInv
  /\ [Next]_vars /\ FeedTypes'
  => FreshInv'
<1> SUFFICES ASSUME FeedTypes, LoopInv, PricesConserved, FreshInv, [Next]_vars, FeedTypes'
             PROVE  FreshInv'
  OBVIOUS
<1>1. PlacesHold /\ PlacesHold'
  <2>1. PlacesHold
    BY PlacesAre
  <2>2. PlacesHold'
    BY PlacesAre, PTL
  <2>3. QED
    BY <2>1, <2>2
<1>2. /\ now \in Nat /\ ticks \in Seq(Instruments \X Nat) /\ Len(ticks) \in Nat
      /\ prices \in [Instruments -> TickSeq] /\ loop \in Loops /\ last \in Nat \cup {-1}
      /\ Len(bars) \in Nat /\ DOMAIN bars = 1 .. Len(bars) /\ loop.boundary \in Nat
      /\ loop.pipeline \in Nat \ {0}
  BY DEF FeedTypes, Loops
<1>3. /\ FreshBars
      /\ \A i \in Instruments : Swapped(i) => NotOlder(prices[i], loop.boundary)
      /\ Len(bars) >= Len(Pipelines) => \A i \in Instruments :
           NotOlder(prices[i], last) /\ NotOlder(Snapshot(i), last)
  BY DEF FreshInv
<1>4. /\ Len(Pipelines) \in Nat /\ DOMAIN Pipelines = 1 .. Len(Pipelines)
      /\ \A i \in Instruments : \E p \in DOMAIN Pipelines : Pipelines[p] = i
  BY PipelinesHaveInstruments
<1>5. \A m : NotOlder(<<>>, m)
  BY DEF NotOlder
<1>6. /\ \A i \in Instruments :
           /\ \A k \in DOMAIN prices[i] : prices[i][k] \in DOMAIN ticks
           /\ \A k \in DOMAIN Snapshot(i) : Snapshot(i)[k] \in DOMAIN ticks
      /\ \A b \in DOMAIN bars : \A k \in DOMAIN bars[b].prices : bars[b].prices[k] \in DOMAIN ticks
  BY PricesAreTicks
<1>t. \A t \in DOMAIN ticks : ticks[t][2] \in Nat
  BY <1>2
<1>7. CASE UNCHANGED <<ticks, bars, prices, loop, last>>
  <2>1. \A i \in Instruments : Snapshot(i)' = Snapshot(i)
    BY <1>7, PlacesKept
  <2>2. \A i \in Instruments : Swapped(i)' <=> Swapped(i)
    BY <1>7 DEF Swapped
  <2>3. QED
    BY <1>3, <1>7, <2>1, <2>2 DEF FreshInv, FreshBars, NotOlder
<1>8. ASSUME NEW i \in Instruments, AddPrice(i) PROVE FreshInv'
  <2> DEFINE m == Len(ticks) + 1
  <2>1. /\ ticks' = Append(ticks, <<i, now>>) /\ prices' = [prices EXCEPT ![i] = Append(@, m)]
        /\ UNCHANGED <<loop, bars, last>>
    BY <1>8 DEF AddPrice
  <2>2. ticks'[m][2] = now /\ \A t \in DOMAIN ticks : ticks'[t] = ticks[t]
    BY <1>2, <2>1
  <2>3. \A k \in Instruments : Snapshot(k)' = Snapshot(k)
    BY <1>1, <2>1 DEF PlacesHold, InFlight, Flushed
  <2>4. FreshBars'
    BY <1>3, <1>6, <2>1, <2>2 DEF FreshBars
  <2>5. ASSUME NEW k \in Instruments, NEW x \in Int, x <= now, NotOlder(prices[k], x)
        PROVE  NotOlder(prices[k], x)'
    <3>1. SUFFICES ASSUME NEW j \in DOMAIN prices'[k] PROVE ticks'[prices'[k][j]][2] >= x
      BY DEF NotOlder
    <3>2. CASE j \in DOMAIN prices[k] /\ prices'[k][j] = prices[k][j]
      BY <1>6, <2>2, <2>5, <3>2 DEF NotOlder
    <3>3. CASE prices'[k][j] = m
      BY <1>2, <2>2, <2>5, <3>3
    <3>4. \/ j \in DOMAIN prices[k] /\ prices'[k][j] = prices[k][j]
          \/ prices'[k][j] = m
      <4>1. CASE k = i
        <5>1. prices'[k] = Append(prices[k], m) /\ prices[k] \in TickSeq
          BY <1>2, <2>1, <4>1
        <5>2. QED
          BY <5>1 DEF TickSeq
      <4>2. CASE k # i
        BY <1>2, <2>1, <4>2
      <4>3. QED
        BY <4>1, <4>2
    <3>5. QED
      BY <3>2, <3>3, <3>4
  <2>6. ASSUME NEW k \in Instruments, Swapped(k)' PROVE (NotOlder(prices[k], loop.boundary))'
    <3>1. Swapped(k) /\ loop.boundary <= now
      BY <2>1, <2>6 DEF Swapped, LoopInv
    <3>2. NotOlder(prices[k], loop.boundary)
      BY <1>3, <3>1
    <3>3. PICK x \in Int : x = loop.boundary
      BY <1>2
    <3>4. NotOlder(prices[k], x)'
      BY <2>5, <3>1, <3>2, <3>3
    <3>5. QED
      BY <2>1, <3>3, <3>4 DEF NotOlder
  <2>7. ASSUME Len(bars') >= Len(Pipelines), NEW k \in Instruments
        PROVE  (NotOlder(prices[k], last))' /\ (NotOlder(Snapshot(k), last))'
    <3>1. NotOlder(prices[k], last) /\ NotOlder(Snapshot(k), last)
      BY <1>3, <2>1, <2>7
    <3>2. last <= now /\ last \in Int
      BY <1>2 DEF LoopInv
    <3>3. \A x \in Int : x <= now /\ NotOlder(prices[k], x) => NotOlder(prices[k], x)'
      BY <2>5
    <3>4. (NotOlder(prices[k], last))'
      BY <2>1, <3>1, <3>2, <3>3 DEF NotOlder
    <3>5. (NotOlder(Snapshot(k), last))'
      BY <1>6, <2>1, <2>2, <2>3, <3>1 DEF NotOlder
    <3>6. QED
      BY <3>4, <3>5
  <2>8. QED
    BY <2>4, <2>6, <2>7 DEF FreshInv
<1>9. CASE SwapPrices
  <2>1. /\ loop.at = "prices" /\ UNCHANGED <<ticks, bars, last>> /\ loop'.at = "volumes"
        /\ loop'.boundary = loop.boundary /\ loop'.pipeline = loop.pipeline
    BY <1>2, <1>9 DEF SwapPrices, Loops
  <2>2. \A i \in Instruments :
          /\ Snapshot(i) = <<>>
          /\ Snapshot(i)' = IF i = Flushed THEN prices[i] ELSE <<>>
          /\ prices'[i] = IF i = Flushed THEN <<>> ELSE prices[i]
    BY <1>9, SwapMoves
  <2>3. FreshBars'
    BY <1>3, <2>1 DEF FreshBars
  <2>4. ASSUME NEW i \in Instruments, Swapped(i)' PROVE (NotOlder(prices[i], loop.boundary))'
    <3>1. CASE i = Flushed
      BY <2>2, <3>1 DEF NotOlder
    <3>2. CASE i # Flushed
      <4>1. Swapped(i)
        BY <2>1, <2>4, <3>2 DEF Swapped, Flushed
      <4>2. QED
        BY <1>3, <2>1, <2>2, <3>2, <4>1 DEF NotOlder
    <3>3. QED
      BY <3>1, <3>2
  <2>5. ASSUME Len(bars') >= Len(Pipelines), NEW i \in Instruments
        PROVE  (NotOlder(prices[i], last))' /\ (NotOlder(Snapshot(i), last))'
    BY <1>3, <1>5, <2>1, <2>2, <2>5 DEF NotOlder
  <2>6. QED
    BY <2>3, <2>4, <2>5 DEF FreshInv
<1>10. CASE SwapVolumes
  <2>1. /\ loop.at = "volumes" /\ UNCHANGED <<ticks, bars, prices, last>>
        /\ loop' = [loop EXCEPT !.at = "publish", !.volumes = volumes[Flushed]]
    BY <1>10 DEF SwapVolumes
  <2>2. /\ loop'.at = "publish" /\ loop'.prices = loop.prices /\ Flushed' = Flushed
        /\ loop'.boundary = loop.boundary /\ loop'.pipeline = loop.pipeline
    BY <1>2, <2>1 DEF Loops, Flushed
  <2>3. \A i \in Instruments : Snapshot(i)' = Snapshot(i)
    BY <1>1, <2>1, <2>2 DEF PlacesHold, InFlight
  <2>4. \A i \in Instruments : Swapped(i)' => Swapped(i)
    BY <2>1, <2>2 DEF Swapped
  <2>5. QED
    BY <1>3, <2>1, <2>2, <2>3, <2>4 DEF FreshInv, FreshBars, NotOlder
<1>11. CASE Publish
  <2>1. PICK n : n = Len(bars) + 1
    OBVIOUS
  <2>2. /\ loop.at = "publish" /\ UNCHANGED <<ticks, prices, last>>
        /\ loop'.boundary = loop.boundary
        /\ \/ /\ loop.pipeline < Len(Pipelines) /\ loop'.at = "prices"
              /\ loop'.pipeline = loop.pipeline + 1
           \/ loop.pipeline >= Len(Pipelines) /\ loop'.at = "submit"
              /\ loop'.pipeline = loop.pipeline
    BY <1>2, <1>4, <1>11 DEF Publish, Loops
  <2>3. loop.pipeline \in 1 .. Len(Pipelines) /\ last < loop.boundary /\ last \in Nat
    BY <1>2, <1>4, <2>2 DEF LoopInv
  <2>4. /\ Flushed \in Instruments /\ DOMAIN bars' = DOMAIN bars \cup {n} /\ Len(bars') = n
        /\ \A b \in DOMAIN bars : bars'[b] = bars[b]
        /\ bars'[n] = FlushedBar /\ Snapshot(Flushed) = loop.prices
        /\ \A i \in Instruments : Snapshot(i)' = <<>>
    <3>1. DOMAIN bars' = 1 .. Len(bars')
      BY <1>1 DEF PlacesHold
    <3>2. Len(bars') = n
      BY <1>11, <2>1, PublishMoves
    <3>3. QED
      BY <1>2, <1>11, <2>1, <3>1, <3>2, PublishMoves
  <2>5. FreshBars'
    <3>1. SUFFICES ASSUME NEW b \in DOMAIN bars', NEW k \in DOMAIN bars'[b].prices,
                          ~ (b <= Len(Pipelines))
                   PROVE  ticks[bars'[b].prices[k]][2] >= bars'[b].start
      BY <2>2 DEF FreshBars
    <3>2. CASE b \in DOMAIN bars
      BY <1>3, <2>4, <3>1, <3>2 DEF FreshBars
    <3>3. CASE b = n
      <4>1. Len(bars) >= Len(Pipelines)
        BY <1>2, <1>4, <2>1, <3>1, <3>3
      <4>2. NotOlder(loop.prices, last)
        BY <1>3, <2>4, <4>1
      <4>3. bars'[b].prices = loop.prices /\ bars'[b].start = last
        BY <2>4, <3>3 DEF FlushedBar
      <4>4. QED
        BY <3>1, <4>2, <4>3 DEF NotOlder
    <3>4. QED
      BY <2>4, <3>2, <3>3
  <2>6. \A i \in Instruments : Swapped(i)' => Swapped(i)
    <3>1. ASSUME NEW p \in DOMAIN Pipelines, p < loop'.pipeline \/ loop'.at = "submit"
          PROVE  p < loop.pipeline \/ p = loop.pipeline
      BY <1>2, <1>4, <2>2, <3>1
    <3>2. ASSUME NEW i \in Instruments, Swapped(i)' PROVE Swapped(i)
      <4>1. PICK p \in DOMAIN Pipelines : /\ Pipelines[p] = i
                                          /\ p < loop'.pipeline \/ loop'.at = "submit"
        BY <2>2, <3>2 DEF Swapped
      <4>2. QED
        BY <2>2, <3>1, <4>1 DEF Swapped
    <3>3. QED
      BY <3>2
  <2>7. ASSUME Len(bars') >= Len(Pipelines), NEW i \in Instruments
        PROVE  (NotOlder(prices[i], last))' /\ (NotOlder(Snapshot(i), last))'
    <3>1. CASE Len(bars) >= Len(Pipelines)
      BY <1>3, <1>5, <2>2, <2>4, <3>1 DEF NotOlder
    <3>2. CASE Len(bars) < Len(Pipelines)
      <4>1. Len(bars) = loop.pipeline - 1
        BY <2>2, <3>2 DEF LoopInv
      <4>2. loop.pipeline = Len(Pipelines)
        BY <1>2, <1>4, <2>1, <2>3, <2>4, <2>7, <4>1
      <4>3. PICK p \in DOMAIN Pipelines : Pipelines[p] = i
        BY <1>4
      <4>4. p < loop.pipeline \/ p = loop.pipeline
        BY <1>4, <4>2
      <4>5. Swapped(i)
        BY <2>2, <4>3, <4>4 DEF Swapped
      <4>6. NotOlder(prices[i], loop.boundary)
        BY <1>3, <4>5
      <4>7. NotOlder(prices[i], last)
        BY <1>2, <1>6, <1>t, <2>3, <4>6 DEF NotOlder
      <4>8. QED
        BY <1>5, <2>2, <2>4, <4>7 DEF NotOlder
    <3>3. QED
      BY <1>2, <1>4, <3>1, <3>2
  <2>8. \A i \in Instruments : Swapped(i)' => (NotOlder(prices[i], loop.boundary))'
    BY <1>3, <2>2, <2>6 DEF NotOlder
  <2>9. QED
    BY <2>5, <2>7, <2>8 DEF FreshInv
<1>12. CASE StartTick
  <2>1. UNCHANGED <<ticks, bars, prices>> /\ loop.at = "tick"
    BY <1>12 DEF StartTick
  <2>2. \A i \in Instruments : Snapshot(i)' = Snapshot(i)
    BY <1>12, <2>1, PlacesKept, LoopElsewhere
  <2>3. FreshBars'
    BY <1>3, <2>1 DEF FreshBars
  <2>4. CASE last = -1
    <3>1. loop' = loop /\ bars = <<>>
      BY <1>12, <2>4 DEF StartTick, LoopInv
    <3>2. \A i \in Instruments : ~ Swapped(i)'
      BY <2>1, <3>1 DEF Swapped
    <3>3. \A i \in Instruments : ~ (Len(bars') >= Len(Pipelines))
      BY <1>4, <2>1, <3>1
    <3>4. QED
      BY <2>3, <3>2, <3>3 DEF FreshInv
  <2>5. CASE last # -1
    <3>1. last' = last /\ loop'.at = FirstStep /\ loop'.pipeline = 1
      BY <1>2, <1>12, <2>5 DEF StartTick, Loops
    <3>2. \A i \in Instruments : ~ Swapped(i)'
      BY <3>1, NoneSwapped
    <3>3. QED
      BY <1>3, <2>1, <2>2, <2>3, <3>1, <3>2 DEF FreshInv, NotOlder
  <2>6. QED
    BY <2>4, <2>5
<1>13. CASE SubmitBatch
  <2>1. /\ UNCHANGED <<ticks, bars, prices>> /\ loop.at = "submit" /\ last' = last + 1
        /\ loop' = IF last + 1 < loop.boundary
                   THEN [loop EXCEPT !.at = FirstStep, !.pipeline = 1]
                   ELSE Resting
    BY <1>13 DEF SubmitBatch
  <2>2. last < loop.boundary /\ last \in Nat
    BY <1>2, <2>1 DEF LoopInv
  <2>3. \A i \in Instruments : Snapshot(i) = <<>> /\ Snapshot(i)' = <<>>
    <3>1. \A i \in Instruments : Snapshot(i)' = Snapshot(i)
      BY <1>13, <2>1, PlacesKept, LoopElsewhere
    <3>2. QED
      BY <1>1, <2>1, <3>1 DEF PlacesHold, InFlight
  <2>4. FreshBars'
    BY <1>3, <2>1 DEF FreshBars
  <2>5. \A i \in Instruments : ~ Swapped(i)'
    <3>1. CASE last + 1 < loop.boundary
      <4>1. loop'.at = FirstStep /\ loop'.pipeline = 1
        BY <1>2, <2>1, <3>1 DEF Loops
      <4>2. QED
        BY <4>1, NoneSwapped
    <3>2. CASE ~ (last + 1 < loop.boundary)
      BY <2>1, <3>2 DEF Swapped, Resting
    <3>3. QED
      BY <3>1, <3>2
  <2>6. ASSUME NEW i \in Instruments PROVE NotOlder(prices[i], last + 1)
    <3>1. Swapped(i)
      BY <1>4, <2>1 DEF Swapped
    <3>2. NotOlder(prices[i], loop.boundary)
      BY <1>3, <3>1
    <3>3. QED
      BY <1>2, <1>6, <1>t, <2>2, <3>2 DEF NotOlder
  <2>7. QED
    BY <1>5, <2>1, <2>3, <2>4, <2>5, <2>6 DEF FreshInv, NotOlder
<1>14. CASE LoopEnds
  <2>1. UNCHANGED <<ticks, bars, prices, last>> /\ loop'.at = "done"
    BY <1>2, <1>14 DEF LoopEnds, Loops
  <2>2. \A i \in Instruments : Snapshot(i)' = Snapshot(i)
    BY <1>14, <2>1, PlacesKept, LoopElsewhere
  <2>3. \A i \in Instruments : ~ Swapped(i)'
    BY <2>1 DEF Swapped
  <2>4. QED
    BY <1>3, <2>1, <2>2, <2>3 DEF FreshInv, FreshBars, NotOlder
<1>15. QED
  BY <1>7, <1>8, <1>9, <1>10, <1>11, <1>12, <1>13, <1>14
     DEF Next, TimePasses, MainLoop, AddVolume, Aggregate, Writer, GetJob, RunJob, WriterLeaves,
         StopLoop, StopWriter, Log, KeepRecord, FlushLog, LogWorkerDies, TakeRecord, feed, vars

\* The main loop and runtime_loop, which share the lists without a lock, lose, repeat and
\* reorder no price, lose a volume only to a flush between the two appends of add that finds
\* no price beside it, and put no old tick into a later bar (OHLCAggregator.add and flush).
THEOREM FeedConserves == Spec => []TicksConserved
<1> DEFINE Inv == FeedTypes /\ LoopInv /\ PricesConserved /\ VolumesInv /\ FreshInv
<1>1. Init => Inv
  BY LoopInit, PricesInit, VolumesInit, FreshInit
<1>2. Inv /\ [Next]_vars => Inv'
  <2>1. FeedTypes /\ LoopInv /\ [Next]_vars => FeedTypes' /\ LoopInv'
    BY LoopNext
  <2>2. FeedTypes /\ LoopInv /\ PricesConserved /\ [Next]_vars /\ FeedTypes' => PricesConserved'
    BY PricesNext
  <2>3. /\ FeedTypes /\ LoopInv /\ PricesConserved /\ VolumesInv /\ [Next]_vars /\ FeedTypes'
        => VolumesInv'
    BY VolumesNext
  <2>4. /\ FeedTypes /\ LoopInv /\ PricesConserved /\ FreshInv /\ [Next]_vars /\ FeedTypes'
        => FreshInv'
    BY FreshNext
  <2>5. QED
    BY <2>1, <2>2, <2>3, <2>4
<1>3. Inv => TicksConserved
  BY VolumesImplies DEF TicksConserved, FreshInv
<1>4. QED
  BY <1>1, <1>2, <1>3, PTL DEF Spec
=============================================================================
