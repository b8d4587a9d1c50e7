-------------------------- MODULE TradingDayProofs --------------------------
(***************************************************************************)
(* Proofs about TradingDay, for any number of days, faults and crashes.    *)
(*                                                                         *)
(* PointInv ties the point a process has reached to the row of its session *)
(* in the database; it is what survives a crash, and why a restart cannot  *)
(* set a session back.  LoadInv says that a session has loaded nothing     *)
(* while its row is in the strategic phase or its first market process has *)
(* not come to the load.  ResumeInv, at the end, says that a recovery that *)
(* waits in trading hours has its event among those scheduled.             *)
(***************************************************************************)
EXTENDS TradingDay, TLAPS

RowStates == {"INITIALIZATION", "STAND_BY", "RUNNING", "SETTLING", "SHUTDOWN"}

BootPoints == {"boot", "strategic_setup", "strategic_running", "market_setup",
               "market_setup_recovery"}

PointInv ==
  /\ pc \in {"strategic_setup", "strategic_running"} => Progress(row[session]) = 1
  /\ pc = "market_setup" => Progress(row[session]) = 2
  /\ pc \in AwaitPoints \cup {"market_setup_recovery", "hung"} => Progress(row[session]) = 3
  /\ pc \in BootPoints => threads = "none"
  /\ closing => pc \in AwaitPoints

LoadInv == \A d \in Days : loads[d] <= 1 /\ (Progress(row[d]) <= 2 => loads[d] = 0)

BeforeLoadInv == pc \in AwaitPoints \ {"running"} /\ ~recovery => loads[session] = 0

\* With the breaker open the launcher has stopped.
BreakerInv == launcher # "stopped" => crashes < CircuitBreakerMax

\* A session that stands by in recovery and was not told to go on will be: the notice of the
\* pre-market is still to be handled, perhaps behind others.
ResumeInv ==
  pc = "stand_by" /\ recovery /\ ~preEvent /\ phase \in {"PRE", "OPEN"}
    => \E i \in DOMAIN events : events[i] = "PRE"

KernelInv == TypeOK /\ PointInv /\ LoadInv /\ BeforeLoadInv

Inv == KernelInv /\ BreakerInv

(***************************************************************************)
(* Rows.                                                                   *)
(***************************************************************************)
LEMMA ProgressFacts ==
  ASSUME NEW s \in Row
  PROVE  /\ s # NoRow
         /\ Progress(s) \in 1 .. 4
         /\ Progress(s) = 1 <=> s.status = "IN_PROGRESS" /\ s.phase = "STRATEGIC_SETUP"
         /\ Progress(s) = 2 <=> s.status = "COMPLETED" /\ s.phase = "STRATEGIC_SETUP"
         /\ Progress(s) = 3 <=> s.status = "IN_PROGRESS" /\ s.phase = "MARKET_SETUP"
         /\ Progress(s) = 4 <=> s.status = "COMPLETED" /\ s.phase = "MARKET_SETUP"
<1>1. s # NoRow
  BY NoRowAssumption
<1>2. s.status \in {"IN_PROGRESS", "COMPLETED"} /\ s.phase \in {"STRATEGIC_SETUP", "MARKET_SETUP"}
  BY DEF Row
<1>3. QED
  BY <1>1, <1>2 DEF Progress

LEMMA NoRowProgress == Progress(NoRow) = 0
BY DEF Progress

LEMMA PlanFacts ==
  ASSUME NEW s \in Row
  PROVE  /\ BuildBootPlan(s) \in {"strategic_setup", "market_setup", "market_setup_recovery",
                                  "ValueError"}
         /\ BuildBootPlan(s) = "strategic_setup" => Progress(s) = 1
         /\ BuildBootPlan(s) = "market_setup" => Progress(s) = 2
         /\ BuildBootPlan(s) = "market_setup_recovery" => Progress(s) = 3
<1>1. s.status \in {"IN_PROGRESS", "COMPLETED"} /\ s.phase \in {"STRATEGIC_SETUP", "MARKET_SETUP"}
  BY DEF Row
<1>2. QED
  BY <1>1, ProgressFacts DEF BuildBootPlan

\* A row whose state, and perhaps whose error flag, is overwritten.
LEMMA SameProgress ==
  ASSUME NEW s \in Row, NEW t \in Row, t.status = s.status, t.phase = s.phase
  PROVE  Progress(t) = Progress(s)
<1>1. s # NoRow /\ t # NoRow
  BY NoRowAssumption
<1>2. QED
  BY <1>1 DEF Progress

\* What UpdateSession does to the table when it writes t.
LEMMA UpdateFacts ==
  ASSUME TypeOK, NEW t \in Row, UpdateSession(t)
  PROVE  /\ row' \in [Days -> Row \cup {NoRow}]
         /\ row'[session] = t
         /\ \A d \in Days : d # session => row'[d] = row[d]
BY DEF UpdateSession, TypeOK, KernelTypeOK

LEMMA HeldRow ==
  ASSUME TypeOK, Progress(row[session]) # 0
  PROVE  row[session] \in Row
BY NoRowProgress DEF TypeOK, KernelTypeOK

(***************************************************************************)
(* Type correctness.                                                       *)
(***************************************************************************)
LEMMA ShutdownType ==
  ASSUME NEW code \in ExitCodes, exit \in ExitCodes, Shutdown(code)
  PROVE  pc' \in Points /\ exit' \in ExitCodes /\ closing' \in BOOLEAN
BY DEF Shutdown, Points, ExitCodes

LEMMA LoadType ==
  ASSUME TypeOK, LoadPortfolioOrders \/ UNCHANGED history
  PROVE  loads' \in [Days -> Nat] /\ loaded' \subseteq Days
<1>1. CASE UNCHANGED history
  BY <1>1 DEF history, TypeOK, KernelTypeOK
<1>2. CASE LoadPortfolioOrders
  BY <1>1, <1>2 DEF LoadPortfolioOrders, TypeOK, KernelTypeOK
<1>3. QED
  BY <1>1, <1>2

\* What the writes of the procedures do to the row of a session.
LEMMA WrittenRows ==
  ASSUME NEW s \in Row
  PROVE  /\ \A x \in RowStates : /\ [s EXCEPT !.state = x] \in Row
                                 /\ Progress([s EXCEPT !.state = x]) = Progress(s)
         /\ [s EXCEPT !.error = TRUE] \in Row
         /\ Progress([s EXCEPT !.error = TRUE]) = Progress(s)
         /\ [s EXCEPT !.state = "SHUTDOWN", !.status = "COMPLETED"] \in Row
         /\ Progress(s) = 1 => Progress([s EXCEPT !.state = "SHUTDOWN", !.status = "COMPLETED"]) = 2
         /\ Progress(s) = 3 => Progress([s EXCEPT !.state = "SHUTDOWN", !.status = "COMPLETED"]) = 4
         /\ [s EXCEPT !.state = "INITIALIZATION", !.status = "IN_PROGRESS",
                !.phase = "MARKET_SETUP"] \in Row
         /\ Progress([s EXCEPT !.state = "INITIALIZATION", !.status = "IN_PROGRESS",
                !.phase = "MARKET_SETUP"]) = 3
         /\ [status |-> "IN_PROGRESS", error |-> FALSE, phase |-> "MARKET_SETUP",
             state |-> "INITIALIZATION"] \in Row
         /\ Progress([status |-> "IN_PROGRESS", error |-> FALSE, phase |-> "MARKET_SETUP",
             state |-> "INITIALIZATION"]) = 3
<1>1. \A x \in RowStates : /\ [s EXCEPT !.state = x] \in Row
                           /\ Progress([s EXCEPT !.state = x]) = Progress(s)
  <2> TAKE x \in RowStates
  <2> DEFINE t == [s EXCEPT !.state = x]
  <2>1. t \in Row /\ t.status = s.status /\ t.phase = s.phase
    BY DEF Row, RowStates
  <2> HIDE DEF t
  <2>2. Progress(t) = Progress(s)
    BY <2>1, SameProgress
  <2>3. QED
    BY <2>1, <2>2 DEF t
<1>2. [s EXCEPT !.error = TRUE] \in Row /\ Progress([s EXCEPT !.error = TRUE]) = Progress(s)
  <2> DEFINE t == [s EXCEPT !.error = TRUE]
  <2>1. t \in Row /\ t.status = s.status /\ t.phase = s.phase
    BY DEF Row
  <2> HIDE DEF t
  <2>2. Progress(t) = Progress(s)
    BY <2>1, SameProgress
  <2>3. QED
    BY <2>1, <2>2 DEF t
<1>3. LET t == [s EXCEPT !.state = "SHUTDOWN", !.status = "COMPLETED"]
      IN  t \in Row /\ (Progress(s) = 1 => Progress(t) = 2) /\ (Progress(s) = 3 => Progress(t) = 4)
  <2> DEFINE t == [s EXCEPT !.state = "SHUTDOWN", !.status = "COMPLETED"]
  <2>1. t \in Row /\ t.status = "COMPLETED" /\ t.phase = s.phase
    BY DEF Row
  <2> HIDE DEF t
  <2>2. (Progress(s) = 1 => Progress(t) = 2) /\ (Progress(s) = 3 => Progress(t) = 4)
    BY <2>1, ProgressFacts
  <2>3. QED
    BY <2>1, <2>2 DEF t
<1>4. LET t == [s EXCEPT !.state = "INITIALIZATION", !.status = "IN_PROGRESS",
                  !.phase = "MARKET_SETUP"]
      IN  t \in Row /\ Progress(t) = 3
  <2> DEFINE t == [s EXCEPT !.state = "INITIALIZATION", !.status = "IN_PROGRESS",
                      !.phase = "MARKET_SETUP"]
  <2>1. t \in Row /\ t.status = "IN_PROGRESS" /\ t.phase = "MARKET_SETUP"
    BY DEF Row
  <2> HIDE DEF t
  <2>2. Progress(t) = 3
    BY <2>1, ProgressFacts
  <2>3. QED
    BY <2>1, <2>2 DEF t
<1>5. LET t == [status |-> "IN_PROGRESS", error |-> FALSE, phase |-> "MARKET_SETUP",
                state |-> "INITIALIZATION"]
      IN  t \in Row /\ Progress(t) = 3
  <2> DEFINE t == [status |-> "IN_PROGRESS", error |-> FALSE, phase |-> "MARKET_SETUP",
                   state |-> "INITIALIZATION"]
  <2>1. t \in Row /\ t.status = "IN_PROGRESS" /\ t.phase = "MARKET_SETUP"
    BY DEF Row
  <2> HIDE DEF t
  <2>2. Progress(t) = 3
    BY <2>1, ProgressFacts
  <2>3. QED
    BY <2>1, <2>2 DEF t
<1>6. QED
  BY <1>1, <1>2, <1>3, <1>4, <1>5

LEMMA FirstRow == NewSession \in Row /\ Progress(NewSession) = 1
<1>1. NewSession \in Row
  BY DEF NewSession, Row
<1>2. QED
  BY <1>1, ProgressFacts DEF NewSession

LEMMA TailType ==
  ASSUME NEW S, NEW q \in Seq(S), q # << >>
  PROVE  Head(q) \in S /\ Tail(q) \in Seq(S)
OBVIOUS

LEMMA AppendType ==
  ASSUME NEW S, NEW q \in Seq(S), NEW e \in S
  PROVE  Append(q, e) \in Seq(S)
OBVIOUS

LEMMA InitType ==
  ASSUME Init
  PROVE  TypeOK
<1>1. 1 \in Days /\ 1 \in 1 .. MaxDay + 1
  BY DaysAssumption DEF Days
<1>2. events \in Seq({"PRE", "OPEN", "POST", "CLOSED"})
  BY DEF Init, KernelInit
<1>3. faults \in 0 .. MaxFaults
  BY FaultsAssumption DEF Init, KernelInit
<1>4. row \in [Days -> Row \cup {NoRow}] /\ loads \in [Days -> Nat]
  BY DEF Init, KernelInit
<1>5. crashes \in 0 .. CircuitBreakerMax
  BY BreakerAssumption DEF Init
<1>6. pc \in Points /\ exit \in ExitCodes
  BY DEF Init, KernelInit, Points, ExitCodes
<1>7. KernelTypeOK
  BY <1>1, <1>2, <1>3, <1>4, <1>6 DEF Init, KernelInit, KernelTypeOK
<1>8. QED
  BY <1>1, <1>5, <1>7 DEF Init, TypeOK

(***************************************************************************)
(* One lemma for each action of the kernel: the row it leaves, from the    *)
(* row it found.  A row that an action writes belongs to its session.      *)
(***************************************************************************)
Advances == \A d \in Days : Progress(row[d]') \in {Progress(row[d]), Progress(row[d]) + 1}

LEMMA SameRowAdvances ==
  ASSUME TypeOK, UNCHANGED row
  PROVE  Advances
<1>1. \A d \in Days : row[d]' = row[d]
  OBVIOUS
<1>2. QED
  BY <1>1 DEF Advances

LEMMA WriteAdvances ==
  ASSUME TypeOK, NEW t \in Row, UpdateSession(t),
         Progress(t) \in {Progress(row[session]), Progress(row[session]) + 1}
  PROVE  Advances
<1>1. session \in Days
  BY DEF TypeOK, KernelTypeOK
<1>2. \A d \in Days : row[d]' = row'[d]
  OBVIOUS
<1>3. QED
  BY <1>1, <1>2, UpdateFacts DEF Advances

LEMMA ProgressType ==
  ASSUME TypeOK, NEW d \in Days
  PROVE  Progress(row[d]) \in 0 .. 4
<1>1. row[d] \in Row \cup {NoRow}
  BY DEF TypeOK, KernelTypeOK
<1>2. QED
  BY <1>1, ProgressFacts, NoRowProgress

LEMMA LoadsKept ==
  ASSUME TypeOK, LoadInv, Advances, UNCHANGED loads
  PROVE  LoadInv'
<1> SUFFICES ASSUME NEW d \in Days
             PROVE  loads[d] <= 1 /\ (Progress(row[d]') <= 2 => loads[d] = 0)
  BY DEF LoadInv
<1>1. Progress(row[d]) \in Nat
  BY ProgressType
<1>2. Progress(row[d]') >= Progress(row[d])
  BY <1>1 DEF Advances
<1>3. QED
  BY <1>1, <1>2, ProgressType DEF LoadInv, Advances

LEMMA StartKernelStep ==
  ASSUME KernelInv, StartKernel, launcher' = "child", UNCHANGED <<crashes, wakeDay>>
  PROVE  KernelInv' /\ Advances
<1>1. Advances
  BY SameRowAdvances DEF StartKernel, KernelInv
<1>2. events' \in Seq({"PRE", "OPEN", "POST", "CLOSED"})
  <2>1. phase \in Phases
    BY DEF KernelInv, TypeOK, KernelTypeOK
  <2>2. ClockState(phase) \in {"PRE", "OPEN", "POST", "CLOSED"}
    BY <2>1 DEF ClockState, Phases
  <2>3. << >> \in Seq({"PRE", "OPEN", "POST", "CLOSED"})
    OBVIOUS
  <2>4. <<ClockState(phase)>> \in Seq({"PRE", "OPEN", "POST", "CLOSED"})
    BY <2>2
  <2>5. QED
    BY <2>3, <2>4 DEF StartKernel
<1>3. TypeOK'
  BY <1>2 DEF StartKernel, KernelInv, TypeOK, KernelTypeOK, time, history, Points
<1>4. PointInv'
  BY DEF StartKernel, PointInv, AwaitPoints
<1>5. LoadInv'
  BY <1>1, LoadsKept DEF StartKernel, KernelInv, history
<1>6. BeforeLoadInv'
  BY DEF StartKernel, BeforeLoadInv, AwaitPoints
<1>7. QED
  BY <1>1, <1>3, <1>4, <1>5, <1>6 DEF KernelInv

LEMMA BootstrapClosedStep ==
  ASSUME KernelInv, BootstrapClosed, UNCHANGED launcherVars
  PROVE  KernelInv' /\ Advances
<1>1. Advances
  BY SameRowAdvances DEF BootstrapClosed, KernelInv
<1>2. pc' = "absent" /\ exit' \in ExitCodes /\ closing' = FALSE
  BY DEF BootstrapClosed, Shutdown, KernelInv, PointInv, BootPoints, ExitCodes
<1>3. TypeOK'
  BY <1>2 DEF BootstrapClosed, KernelInv, TypeOK, KernelTypeOK, process, time, history,
              launcherVars, Points
<1>4. PointInv'
  BY <1>2 DEF PointInv, AwaitPoints, BootPoints
<1>5. LoadInv'
  BY <1>1, LoadsKept DEF BootstrapClosed, KernelInv, history
<1>6. BeforeLoadInv'
  BY <1>2 DEF BeforeLoadInv, AwaitPoints
<1>7. QED
  BY <1>1, <1>3, <1>4, <1>5, <1>6 DEF KernelInv

LEMMA BootstrapStep ==
  ASSUME KernelInv, Bootstrap, UNCHANGED launcherVars
  PROVE  KernelInv' /\ Advances
<1> DEFINE s == IF row[day] = NoRow THEN NewSession ELSE row[day]
           plan == BuildBootPlan(s)
<1>0. TypeOK /\ day \in Days /\ row \in [Days -> Row \cup {NoRow}]
  BY DEF KernelInv, TypeOK, KernelTypeOK
<1>1. s \in Row /\ Progress(s) \in {Progress(row[day]), Progress(row[day]) + 1}
  BY <1>0, FirstRow, NoRowProgress, ProgressType
<1>2. row' = [row EXCEPT ![day] = s] /\ session' = day
  BY DEF Bootstrap
<1>3. row'[day] = s /\ row' \in [Days -> Row \cup {NoRow}]
  BY <1>0, <1>1, <1>2
<1>4. Advances
  BY <1>0, <1>1, <1>2 DEF Advances
<1>5. /\ pc' \in BootPoints \cup {"absent"}
      /\ exit' \in ExitCodes /\ closing' \in BOOLEAN
      /\ pc' \in {"strategic_setup", "strategic_running"} => Progress(s) = 1
      /\ pc' = "market_setup" => Progress(s) = 2
      /\ pc' = "market_setup_recovery" => Progress(s) = 3
      /\ closing' = FALSE
      /\ pc' # "boot"
  <2>1. pc = "boot" /\ threads = "none" /\ closing = FALSE /\ exit \in ExitCodes
    BY DEF Bootstrap, KernelInv, PointInv, BootPoints, AwaitPoints, TypeOK, KernelTypeOK
  <2>2. CASE plan = "ValueError"
    <3>1. Shutdown("CRASH")
      BY <2>2 DEF Bootstrap
    <3>2. QED
      BY <2>1, <3>1 DEF Shutdown, ExitCodes
  <2>3. CASE plan # "ValueError"
    <3>1. pc' = plan /\ exit' = exit /\ closing' = closing
      BY <2>3 DEF Bootstrap
    <3> HIDE DEF s
    <3>2. QED
      BY <1>1, <2>1, <2>3, <3>1, PlanFacts DEF BootPoints
  <2>4. QED
    BY <2>2, <2>3
<1> HIDE DEF s, plan
<1>6. TypeOK'
  BY <1>3, <1>5, <1>0, <1>2 DEF Bootstrap, KernelInv, TypeOK, KernelTypeOK, process, time, history,
                    launcherVars, Points, BootPoints
<1>7. PointInv'
  <2>1. threads' = "none"
    BY DEF Bootstrap, process, KernelInv, PointInv, BootPoints
  <2>2. row'[session'] = s
    BY <1>2, <1>3
  <2>3. QED
    BY <1>5, <2>1, <2>2 DEF PointInv, AwaitPoints, BootPoints
<1>8. LoadInv'
  BY <1>4, LoadsKept DEF Bootstrap, KernelInv, history
<1>9. BeforeLoadInv'
  BY <1>5 DEF BeforeLoadInv, AwaitPoints, BootPoints
<1>10. QED
  BY <1>4, <1>6, <1>7, <1>8, <1>9 DEF KernelInv

(***************************************************************************)
(* Actions that write the row of the session.                              *)
(***************************************************************************)

LEMMA MarketSetupStep ==
  ASSUME KernelInv, MarketSetup, UNCHANGED launcherVars
  PROVE  KernelInv' /\ Advances
<1> DEFINE t == [row[session] EXCEPT !.state = "INITIALIZATION",
                  !.status = "IN_PROGRESS", !.phase = "MARKET_SETUP"]
<1>1. Progress(row[session]) = 2 /\ TypeOK /\ session \in Days
  BY DEF MarketSetup, KernelInv, PointInv, AwaitPoints, TypeOK, KernelTypeOK
<1>2. row[session] \in Row
  BY <1>1, HeldRow
<1>3. t \in Row /\ Progress(t) = 3
  BY <1>1, <1>2, WrittenRows DEF RowStates
<1>4. UpdateSession(t)
  BY DEF MarketSetup, Written
<1> HIDE DEF t
<1>5. Advances
  BY <1>1, <1>3, <1>4, WriteAdvances
<1>6. row' \in [Days -> Row \cup {NoRow}] /\ row'[session] = t
  BY <1>1, <1>3, <1>4, UpdateFacts
<1>7. TypeOK'
  BY <1>6 DEF MarketSetup, KernelInv, TypeOK, KernelTypeOK, process, time, history, launcherVars,
              Points, AwaitPoints
<1>8. PointInv'
  BY <1>1, <1>3, <1>6 DEF MarketSetup, KernelInv, PointInv, process, AwaitPoints, BootPoints
<1>9. LoadInv'
  BY <1>1, <1>5, LoadsKept DEF MarketSetup, KernelInv, history
<1>10. BeforeLoadInv'
  BY <1>1 DEF MarketSetup, KernelInv, LoadInv, BeforeLoadInv, process, history, AwaitPoints
<1>11. QED
  BY <1>5, <1>7, <1>8, <1>9, <1>10 DEF KernelInv

LEMMA MarketSetupRecoveryStep ==
  ASSUME KernelInv, MarketSetupRecovery, UNCHANGED launcherVars
  PROVE  KernelInv' /\ Advances
<1> DEFINE t == [status |-> "IN_PROGRESS", error |-> FALSE,
                  phase |-> "MARKET_SETUP", state |-> "INITIALIZATION"]
<1>1. Progress(row[session]) = 3 /\ TypeOK /\ session \in Days
  BY DEF MarketSetupRecovery, KernelInv, PointInv, AwaitPoints, TypeOK, KernelTypeOK
<1>2. row[session] \in Row
  BY <1>1, HeldRow
<1>3. t \in Row /\ Progress(t) = 3
  BY <1>1, <1>2, WrittenRows DEF RowStates
<1>4. UpdateSession(t)
  BY DEF MarketSetupRecovery, Written
<1> HIDE DEF t
<1>5. Advances
  BY <1>1, <1>3, <1>4, WriteAdvances
<1>6. row' \in [Days -> Row \cup {NoRow}] /\ row'[session] = t
  BY <1>1, <1>3, <1>4, UpdateFacts
<1>7. TypeOK'
  BY <1>6 DEF MarketSetupRecovery, KernelInv, TypeOK, KernelTypeOK, process, time, history, launcherVars,
              Points, AwaitPoints
<1>8. PointInv'
  BY <1>1, <1>3, <1>6 DEF MarketSetupRecovery, KernelInv, PointInv, process, AwaitPoints, BootPoints
<1>9. LoadInv'
  BY <1>1, <1>5, LoadsKept DEF MarketSetupRecovery, KernelInv, history
<1>10. BeforeLoadInv'
  BY <1>1 DEF MarketSetupRecovery, KernelInv, LoadInv, BeforeLoadInv, process, history, AwaitPoints
<1>11. QED
  BY <1>5, <1>7, <1>8, <1>9, <1>10 DEF KernelInv

LEMMA StandByStep ==
  ASSUME KernelInv, StandBy, UNCHANGED launcherVars
  PROVE  KernelInv' /\ Advances
<1> DEFINE t == [row[session] EXCEPT !.state = "STAND_BY"]
<1>1. Progress(row[session]) = 3 /\ TypeOK /\ session \in Days
  BY DEF StandBy, KernelInv, PointInv, AwaitPoints, TypeOK, KernelTypeOK
<1>2. row[session] \in Row
  BY <1>1, HeldRow
<1>3. t \in Row /\ Progress(t) = 3
  BY <1>1, <1>2, WrittenRows DEF RowStates
<1>4. UpdateSession(t)
  BY DEF StandBy, Written
<1> HIDE DEF t
<1>5. Advances
  BY <1>1, <1>3, <1>4, WriteAdvances
<1>6. row' \in [Days -> Row \cup {NoRow}] /\ row'[session] = t
  BY <1>1, <1>3, <1>4, UpdateFacts
<1>7. TypeOK'
  BY <1>6 DEF StandBy, KernelInv, TypeOK, KernelTypeOK, process, time, history, launcherVars,
              Points, AwaitPoints, ResumeAtOnce
<1>8. PointInv'
  BY <1>1, <1>3, <1>6 DEF StandBy, KernelInv, PointInv, process, AwaitPoints, BootPoints
<1>9. LoadInv'
  BY <1>1, <1>5, LoadsKept DEF StandBy, KernelInv, history
<1>10. BeforeLoadInv'
  BY <1>1 DEF StandBy, KernelInv, LoadInv, BeforeLoadInv, process, history, AwaitPoints
<1>11. QED
  BY <1>5, <1>7, <1>8, <1>9, <1>10 DEF KernelInv

LEMMA PreMarketReachedStep ==
  ASSUME KernelInv, PreMarketReached, UNCHANGED launcherVars
  PROVE  KernelInv' /\ Advances
<1> DEFINE t == [row[session] EXCEPT !.state = "RUNNING"]
<1>1. Progress(row[session]) = 3 /\ TypeOK /\ session \in Days
  BY DEF PreMarketReached, KernelInv, PointInv, AwaitPoints, TypeOK, KernelTypeOK
<1>2. row[session] \in Row
  BY <1>1, HeldRow
<1>3. t \in Row /\ Progress(t) = 3
  BY <1>1, <1>2, WrittenRows DEF RowStates
<1>4. UpdateSession(t)
  BY DEF PreMarketReached, Written
<1> HIDE DEF t
<1>5. Advances
  BY <1>1, <1>3, <1>4, WriteAdvances
<1>6. row' \in [Days -> Row \cup {NoRow}] /\ row'[session] = t
  BY <1>1, <1>3, <1>4, UpdateFacts
<1>7. TypeOK'
  BY <1>6 DEF PreMarketReached, KernelInv, TypeOK, KernelTypeOK, process, time, history, launcherVars,
              Points, AwaitPoints
<1>8. PointInv'
  BY <1>1, <1>3, <1>6 DEF PreMarketReached, KernelInv, PointInv, process, AwaitPoints, BootPoints
<1>9. LoadInv'
  BY <1>1, <1>5, LoadsKept DEF PreMarketReached, KernelInv, history
<1>10. BeforeLoadInv'
  BY <1>1 DEF PreMarketReached, KernelInv, LoadInv, BeforeLoadInv, process, history, AwaitPoints
<1>11. QED
  BY <1>5, <1>7, <1>8, <1>9, <1>10 DEF KernelInv

LEMMA OnMarketClosedStep ==
  ASSUME KernelInv, OnMarketClosed, UNCHANGED launcherVars
  PROVE  KernelInv' /\ Advances
<1> DEFINE t == [row[session] EXCEPT !.state = "SETTLING"]
<1>1. Progress(row[session]) = 3 /\ TypeOK /\ session \in Days
  BY DEF OnMarketClosed, HandlerRuns, KernelInv, PointInv, AwaitPoints, TypeOK, KernelTypeOK
<1>2. row[session] \in Row
  BY <1>1, HeldRow
<1>3. t \in Row /\ Progress(t) = 3
  BY <1>1, <1>2, WrittenRows DEF RowStates
<1>4. UpdateSession(t)
  BY DEF OnMarketClosed
<1> HIDE DEF t
<1>5. Advances
  BY <1>1, <1>3, <1>4, WriteAdvances
<1>6. row' \in [Days -> Row \cup {NoRow}] /\ row'[session] = t
  BY <1>1, <1>3, <1>4, UpdateFacts
<1>7. TypeOK'
  BY <1>6 DEF OnMarketClosed, KernelInv, TypeOK, KernelTypeOK, process, time, history, launcherVars,
              Points, AwaitPoints, HandlerRuns
<1>8. PointInv'
  BY <1>1, <1>3, <1>6 DEF OnMarketClosed, HandlerRuns, KernelInv, PointInv, process, AwaitPoints, BootPoints
<1>9. LoadInv'
  BY <1>1, <1>5, LoadsKept DEF OnMarketClosed, KernelInv, history
<1>10. BeforeLoadInv'
  BY <1>1 DEF OnMarketClosed, KernelInv, LoadInv, BeforeLoadInv, process, history, AwaitPoints
<1>11. QED
  BY <1>5, <1>7, <1>8, <1>9, <1>10 DEF KernelInv

LEMMA MarketCompletedStep ==
  ASSUME KernelInv, MarketCompleted, UNCHANGED launcherVars
  PROVE  KernelInv' /\ Advances
<1> DEFINE t == [row[session] EXCEPT !.state = "SHUTDOWN", !.status = "COMPLETED"]
<1>1. Progress(row[session]) = 3 /\ TypeOK /\ session \in Days
  BY DEF MarketCompleted, KernelInv, PointInv, AwaitPoints, TypeOK, KernelTypeOK
<1>2. row[session] \in Row
  BY <1>1, HeldRow
<1>3. t \in Row /\ Progress(t) = 4
  BY <1>1, <1>2, WrittenRows DEF RowStates
<1>4. UpdateSession(t)
  BY DEF MarketCompleted
<1> HIDE DEF t
<1>5. Advances
  BY <1>1, <1>3, <1>4, WriteAdvances
<1>6. row' \in [Days -> Row \cup {NoRow}] /\ row'[session] = t
  BY <1>1, <1>3, <1>4, UpdateFacts
<1>7. TypeOK'
  BY <1>6 DEF MarketCompleted, KernelInv, TypeOK, KernelTypeOK, process, time, history, launcherVars,
              Points, AwaitPoints, ExitCodes
<1>8. PointInv'
  BY <1>1, <1>3, <1>6 DEF MarketCompleted, KernelInv, PointInv, process, AwaitPoints, BootPoints
<1>9. LoadInv'
  BY <1>1, <1>5, LoadsKept DEF MarketCompleted, KernelInv, history
<1>10. BeforeLoadInv'
  BY <1>1 DEF MarketCompleted, KernelInv, LoadInv, BeforeLoadInv, process, history, AwaitPoints
<1>11. QED
  BY <1>5, <1>7, <1>8, <1>9, <1>10 DEF KernelInv

LEMMA StrategicSetupStep ==
  ASSUME KernelInv, StrategicSetup, UNCHANGED launcherVars
  PROVE  KernelInv' /\ Advances
<1>1. Progress(row[session]) = 1 /\ TypeOK /\ session \in Days /\ threads = "none"
      /\ exit \in ExitCodes /\ closing = FALSE
  BY DEF StrategicSetup, KernelInv, PointInv, BootPoints, AwaitPoints, TypeOK, KernelTypeOK
<1>2. row[session] \in Row
  BY <1>1, HeldRow
<1>3. PICK t \in Row : /\ UpdateSession(t)
                       /\ Progress(t) \in {1, 2}
                       /\ pc' = "strategic_running" => Progress(t) = 1
                       /\ pc' \in {"strategic_running", "absent"}
                       /\ exit' \in ExitCodes /\ closing' = FALSE
  <2>1. CASE pc = "strategic_setup"
    <3>1. [row[session] EXCEPT !.state = "RUNNING"] \in Row
          /\ Progress([row[session] EXCEPT !.state = "RUNNING"]) = 1
      BY <1>1, <1>2, WrittenRows DEF RowStates
    <3>2. UpdateSession([row[session] EXCEPT !.state = "RUNNING"])
          /\ pc' = "strategic_running" /\ exit' = exit /\ closing' = closing
      BY <2>1 DEF StrategicSetup, Written
    <3>3. QED
      BY <1>1, <3>1, <3>2
  <2>2. CASE pc = "strategic_running"
    <3> DEFINE t == [row[session] EXCEPT !.state = "SHUTDOWN", !.status = "COMPLETED"]
    <3>1. t \in Row /\ Progress(t) = 2
      BY <1>1, <1>2, WrittenRows
    <3>2. UpdateSession(t) /\ Shutdown("STRATEGIC_SETUP_COMPLETED")
      BY <2>2 DEF StrategicSetup, Written
    <3>3. pc' = "absent" /\ exit' \in ExitCodes /\ closing' = FALSE
      BY <1>1, <3>2 DEF Shutdown, ExitCodes
    <3> HIDE DEF t
    <3>4. QED
      BY <3>1, <3>2, <3>3
  <2>3. QED
    BY <2>1, <2>2 DEF StrategicSetup
<1>4. Advances
  BY <1>1, <1>3, WriteAdvances
<1>5. row' \in [Days -> Row \cup {NoRow}] /\ row'[session] = t
  BY <1>1, <1>3, UpdateFacts
<1>6. UNCHANGED <<time, session, process, history, faults, launcherVars>>
  BY DEF StrategicSetup
<1>7. TypeOK'
  BY <1>3, <1>5, <1>6 DEF KernelInv, TypeOK, KernelTypeOK, process, time, history, launcherVars, Points
<1>8. PointInv'
  BY <1>1, <1>3, <1>5, <1>6 DEF PointInv, process, AwaitPoints, BootPoints
<1>9. LoadInv'
  BY <1>1, <1>4, <1>6, LoadsKept DEF KernelInv, history
<1>10. BeforeLoadInv'
  BY <1>3 DEF BeforeLoadInv, AwaitPoints
<1>11. QED
  BY <1>4, <1>7, <1>8, <1>9, <1>10 DEF KernelInv

(***************************************************************************)
(* Actions that leave the table alone.                                     *)
(***************************************************************************)
LEMMA StartMarketThreadsStep ==
  ASSUME KernelInv, StartMarketThreads, UNCHANGED launcherVars
  PROVE  KernelInv' /\ Advances
<1>1. Advances
  BY SameRowAdvances DEF StartMarketThreads, KernelInv
<1>2. TypeOK'
  BY DEF StartMarketThreads, KernelInv, TypeOK, KernelTypeOK, time, history, launcherVars,
         Points, AwaitPoints
<1>3. PointInv'
  BY DEF StartMarketThreads, KernelInv, PointInv, AwaitPoints, BootPoints
<1>4. LoadInv'
  BY <1>1, LoadsKept DEF StartMarketThreads, KernelInv, history
<1>5. BeforeLoadInv'
  BY DEF StartMarketThreads, KernelInv, BeforeLoadInv, history, AwaitPoints
<1>6. QED
  BY <1>1, <1>2, <1>3, <1>4, <1>5 DEF KernelInv

\* Loading: the row of a market session cannot be in the strategic phase.
LEMMA LoadStep ==
  ASSUME KernelInv, Advances, pc = "starting", LoadPortfolioOrders \/ UNCHANGED history
  PROVE  LoadInv'
<1>1. CASE UNCHANGED history
  BY <1>1, LoadsKept DEF KernelInv, history
<1>2. CASE LoadPortfolioOrders /\ recovery
  BY <1>2, LoadsKept DEF KernelInv, LoadPortfolioOrders, history
<1>3. CASE LoadPortfolioOrders /\ ~recovery
  <2>1. /\ loads[session] = 0 /\ Progress(row[session]) = 3 /\ TypeOK
        /\ session \in Days /\ loads \in [Days -> Nat]
    BY <1>3 DEF KernelInv, BeforeLoadInv, PointInv, AwaitPoints, TypeOK, KernelTypeOK
  <2>2. loads' = [loads EXCEPT ![session] = @ + 1]
    BY <1>3 DEF LoadPortfolioOrders
  <2> SUFFICES ASSUME NEW d \in Days
               PROVE  loads'[d] <= 1 /\ (Progress(row[d]') <= 2 => loads'[d] = 0)
    BY DEF LoadInv
  <2>3. Progress(row[d]') >= Progress(row[d])
    BY <2>1, ProgressType DEF Advances
  <2>4. CASE d = session
    BY <2>1, <2>2, <2>3, <2>4 DEF Advances
  <2>5. CASE d # session
    <3>1. loads'[d] = loads[d] /\ Progress(row[d]) \in Nat /\ Progress(row[d]') \in Nat
      BY <2>1, <2>2, <2>5, ProgressType DEF Advances
    <3>2. QED
      BY <2>3, <3>1 DEF KernelInv, LoadInv
  <2>6. QED
    BY <2>4, <2>5
<1>4. QED
  BY <1>1, <1>2, <1>3

LEMMA StartMarketRuntimeStep ==
  ASSUME KernelInv, StartMarketRuntime, UNCHANGED launcherVars
  PROVE  KernelInv' /\ Advances
<1>1. Advances
  BY SameRowAdvances DEF StartMarketRuntime, KernelInv
<1>2. loads' \in [Days -> Nat] /\ loaded' \subseteq Days
  BY LoadType DEF StartMarketRuntime, KernelInv
<1>3. TypeOK'
  BY <1>2 DEF StartMarketRuntime, KernelInv, TypeOK, KernelTypeOK, time, process, launcherVars,
              Points, AwaitPoints
<1>4. PointInv'
  BY DEF StartMarketRuntime, KernelInv, PointInv, process, AwaitPoints, BootPoints
<1>5. LoadInv'
  BY <1>1, LoadStep DEF StartMarketRuntime
<1>6. BeforeLoadInv'
  BY DEF StartMarketRuntime, BeforeLoadInv
<1>7. QED
  BY <1>1, <1>3, <1>4, <1>5, <1>6 DEF KernelInv

\* A procedure writes a row of the same part of the session, or of the next.
LEMMA WrittenIs ==
  ASSUME KernelInv, pc \in RuntimePoints \cup WritingPoints
  PROVE  /\ Written \in Row
         /\ Progress(Written) \in {Progress(row[session]), Progress(row[session]) + 1}
         /\ pc \in AwaitPoints => Progress(Written) = 3
<1>1. /\ Progress(row[session]) \in {1, 2, 3} /\ TypeOK
      /\ pc = "strategic_running" => Progress(row[session]) = 1
      /\ pc = "market_setup" => Progress(row[session]) = 2
      /\ pc = "market_setup_recovery" => Progress(row[session]) = 3
      /\ pc \in AwaitPoints => Progress(row[session]) = 3
  BY DEF KernelInv, PointInv, AwaitPoints, RuntimePoints, WritingPoints
<1>2. row[session] \in Row
  BY <1>1, HeldRow
<1>3. CASE pc \in {"strategic_setup", "initialize", "stand_by"}
  <2>1. Written \in {[row[session] EXCEPT !.state = x] : x \in RowStates}
    BY <1>3 DEF Written, RowStates
  <2> QED BY <1>1, <1>2, <2>1, WrittenRows
<1>4. CASE pc = "strategic_running"
  <2>1. Written = [row[session] EXCEPT !.state = "SHUTDOWN", !.status = "COMPLETED"]
    BY <1>4 DEF Written
  <2> DEFINE t == [row[session] EXCEPT !.state = "SHUTDOWN", !.status = "COMPLETED"]
  <2>2. pc \notin AwaitPoints
    BY <1>4 DEF AwaitPoints
  <2>3. Progress(row[session]) = 1
    BY <1>1, <1>4
  <2>4. t \in Row /\ Progress(t) = 2
    BY <1>2, <2>3, WrittenRows
  <2>5. Written = t
    BY <2>1
  <2> HIDE DEF t
  <2> QED BY <2>2, <2>3, <2>4, <2>5
<1>5. CASE pc = "market_setup"
  <2>1. Written = [row[session] EXCEPT !.state = "INITIALIZATION", !.status = "IN_PROGRESS",
                                       !.phase = "MARKET_SETUP"]
    BY <1>5 DEF Written
  <2> DEFINE t == [row[session] EXCEPT !.state = "INITIALIZATION", !.status = "IN_PROGRESS",
                                       !.phase = "MARKET_SETUP"]
  <2>2. pc \notin AwaitPoints
    BY <1>5 DEF AwaitPoints
  <2>3. Progress(row[session]) = 2
    BY <1>1, <1>5
  <2>4. t \in Row /\ Progress(t) = 3
    BY <1>2, <2>3, WrittenRows
  <2>5. Written = t
    BY <2>1
  <2> HIDE DEF t
  <2> QED BY <2>2, <2>3, <2>4, <2>5
<1>6. CASE pc = "market_setup_recovery"
  <2>1. Written = [status |-> "IN_PROGRESS", error |-> FALSE, phase |-> "MARKET_SETUP",
                   state |-> "INITIALIZATION"]
    BY <1>6 DEF Written
  <2> QED BY <1>1, <1>2, <1>6, <2>1, WrittenRows
<1>7. CASE pc \in {"streaming", "starting"}
  <2>1. Written = row[session]
    BY <1>7 DEF Written
  <2> QED BY <1>1, <1>2, <2>1
<1> QED BY <1>3, <1>4, <1>5, <1>6, <1>7 DEF RuntimePoints, WritingPoints

LEMMA ProcedureFailsStep ==
  ASSUME KernelInv, ProcedureFails, UNCHANGED launcherVars
  PROVE  KernelInv' /\ Advances
<1>1. /\ TypeOK /\ session \in Days /\ exit \in ExitCodes
      /\ faults \in 0 .. MaxFaults /\ pc \in RuntimePoints \cup WritingPoints
      /\ Progress(row[session]) \in {1, 2, 3}
      /\ pc \in AwaitPoints => Progress(row[session]) = 3
      /\ pc \notin AwaitPoints => threads = "none"
  BY DEF ProcedureFails, KernelInv, PointInv, AwaitPoints, BootPoints, TypeOK, KernelTypeOK,
         RuntimePoints, WritingPoints
<1>2. row[session] \in Row
  BY <1>1, HeldRow
<1>3. /\ Advances
      /\ row' \in [Days -> Row \cup {NoRow}]
      /\ pc \in AwaitPoints => Progress(row'[session]) = 3
      /\ \E code \in {"BROKER_UNAVAILABLE", "ERROR", "CRASH"} : Shutdown(code)
  <2>1. ASSUME NEW s \in Row, Progress(s) \in {Progress(row[session]), Progress(row[session]) + 1},
               pc \in AwaitPoints => Progress(s) = 3,
               UpdateSession([s EXCEPT !.error = TRUE])
        PROVE  /\ Advances /\ row' \in [Days -> Row \cup {NoRow}]
               /\ pc \in AwaitPoints => Progress(row'[session]) = 3
    <3> DEFINE t == [s EXCEPT !.error = TRUE]
    <3>1. t \in Row /\ Progress(t) = Progress(s)
      BY WrittenRows
    <3>2. UpdateSession(t)
      BY <2>1
    <3> HIDE DEF t
    <3>3. Advances
      BY <1>1, <2>1, <3>1, <3>2, WriteAdvances
    <3> QED BY <1>1, <2>1, <3>1, <3>2, <3>3, UpdateFacts
  <2>2. CASE /\ UpdateSession([row[session] EXCEPT !.error = TRUE])
             /\ \E code \in {"BROKER_UNAVAILABLE", "ERROR"} : Shutdown(code)
    BY <1>1, <1>2, <2>1, <2>2
  <2>3. CASE UpdateSession([Written EXCEPT !.error = TRUE]) /\ Shutdown("ERROR")
    BY <1>1, <2>1, <2>3, WrittenIs
  <2>4. CASE UNCHANGED row /\ Shutdown("CRASH")
    BY <1>1, <2>4, SameRowAdvances DEF TypeOK, KernelTypeOK
  <2> QED BY <2>2, <2>3, <2>4 DEF ProcedureFails
<1>4. /\ pc' \in {"hung", "absent"} /\ exit' \in ExitCodes /\ closing' = FALSE
      /\ pc' = "hung" => pc \in AwaitPoints
  BY <1>1, <1>3 DEF Shutdown, ExitCodes
<1>5. LoadPortfolioOrders \/ UNCHANGED history
  BY DEF ProcedureFails
<1>6. UNCHANGED <<time, session, process, launcherVars>>
  BY DEF ProcedureFails
<1>7. faults' \in 0 .. MaxFaults
  BY <1>1, FaultsAssumption DEF ProcedureFails, Fault
<1>8. TypeOK'
  BY <1>3, <1>4, <1>5, <1>6, <1>7, LoadType
  DEF KernelInv, TypeOK, KernelTypeOK, time, process, launcherVars, Points
<1>9. PointInv'
  BY <1>3, <1>4, <1>6 DEF PointInv, AwaitPoints, BootPoints
<1>10. LoadInv'
  <2>1. CASE pc = "starting"
    BY <1>3, <1>5, <2>1, LoadStep
  <2>2. CASE pc # "starting"
    BY <1>1, <1>3, <2>2, LoadsKept DEF ProcedureFails, KernelInv, history
  <2>3. QED
    BY <2>1, <2>2
<1>11. BeforeLoadInv'
  BY <1>4 DEF BeforeLoadInv, AwaitPoints
<1>12. QED
  BY <1>3, <1>8, <1>9, <1>10, <1>11 DEF KernelInv

LEMMA KilledStep ==
  ASSUME KernelInv, Killed, UNCHANGED launcherVars
  PROVE  KernelInv' /\ Advances
<1>1. Advances
  BY SameRowAdvances DEF Killed, KernelInv
<1>0. faults' \in 0 .. MaxFaults
  BY FaultsAssumption DEF Killed, Fault, KernelInv, TypeOK, KernelTypeOK
<1>2. TypeOK'
  BY <1>0 DEF Killed, Points, ExitCodes, KernelInv, TypeOK, KernelTypeOK, time, process, history, launcherVars
<1>3. PointInv'
  BY DEF Killed, KernelInv, PointInv, process, AwaitPoints, BootPoints
<1>4. LoadInv'
  BY <1>1, LoadsKept DEF Killed, KernelInv, history
<1>5. BeforeLoadInv'
  BY DEF Killed, KernelInv, BeforeLoadInv, process, history, AwaitPoints
<1>6. QED
  BY <1>1, <1>2, <1>3, <1>4, <1>5 DEF KernelInv

LEMMA OnMarketStateStep ==
  ASSUME KernelInv, OnMarketState, UNCHANGED launcherVars
  PROVE  KernelInv' /\ Advances
<1>1. Advances
  BY SameRowAdvances DEF OnMarketState, KernelInv, HandlerRuns
<1>0. events' \in Seq({"PRE", "OPEN", "POST", "CLOSED"})
  BY TailType DEF OnMarketState, HandlerRuns, KernelInv, TypeOK, KernelTypeOK
<1>2. TypeOK'
  BY <1>0 DEF OnMarketState, KernelInv, TypeOK, KernelTypeOK, time, process, history, launcherVars
<1>3. PointInv'
  BY DEF OnMarketState, KernelInv, PointInv, process, AwaitPoints, BootPoints, HandlerRuns
<1>4. LoadInv'
  BY <1>1, LoadsKept DEF OnMarketState, KernelInv, history, HandlerRuns
<1>5. BeforeLoadInv'
  BY DEF OnMarketState, KernelInv, BeforeLoadInv, process, history, AwaitPoints, HandlerRuns
<1>6. QED
  BY <1>1, <1>2, <1>3, <1>4, <1>5 DEF KernelInv

LEMMA NothingToStopStep ==
  ASSUME KernelInv, NothingToStop, UNCHANGED launcherVars
  PROVE  KernelInv' /\ Advances
<1>1. Advances
  BY SameRowAdvances DEF NothingToStop, KernelInv
<1>2. TypeOK'
  BY DEF NothingToStop, KernelInv, TypeOK, KernelTypeOK, time, process, history, launcherVars
<1>3. PointInv'
  BY DEF NothingToStop, KernelInv, PointInv, process, AwaitPoints, BootPoints
<1>4. LoadInv'
  BY <1>1, LoadsKept DEF NothingToStop, KernelInv, history
<1>5. BeforeLoadInv'
  BY DEF NothingToStop, KernelInv, BeforeLoadInv, process, history, AwaitPoints
<1>6. QED
  BY <1>1, <1>2, <1>3, <1>4, <1>5 DEF KernelInv

LEMMA CloseFailsStep ==
  ASSUME KernelInv, CloseFails, UNCHANGED launcherVars
  PROVE  KernelInv' /\ Advances
<1>1. Advances
  BY SameRowAdvances DEF CloseFails, KernelInv
<1>0. faults' \in 0 .. MaxFaults
  BY FaultsAssumption DEF CloseFails, Fault, KernelInv, TypeOK, KernelTypeOK
<1>2. TypeOK'
  BY <1>0 DEF CloseFails, KernelInv, TypeOK, KernelTypeOK, time, process, history, launcherVars
<1>3. PointInv'
  BY DEF CloseFails, KernelInv, PointInv, process, AwaitPoints, BootPoints
<1>4. LoadInv'
  BY <1>1, LoadsKept DEF CloseFails, KernelInv, history
<1>5. BeforeLoadInv'
  BY DEF CloseFails, KernelInv, BeforeLoadInv, process, history, AwaitPoints
<1>6. QED
  BY <1>1, <1>2, <1>3, <1>4, <1>5 DEF KernelInv

(***************************************************************************)
(* The launcher, the operator and time.                                    *)
(***************************************************************************)
LEMMA LauncherStep ==
  ASSUME KernelInv, UNCHANGED kernelVars,
         launcher' \in {"launch", "child", "wait", "stopped"},
         crashes' \in 0 .. CircuitBreakerMax, wakeDay' \in 1 .. MaxDay + 1
  PROVE  KernelInv' /\ Advances
<1>1. Advances
  BY SameRowAdvances DEF KernelInv, kernelVars
<1>2. TypeOK'
  BY DEF KernelInv, TypeOK, KernelTypeOK, kernelVars
<1>3. PointInv'
  BY DEF KernelInv, PointInv, kernelVars
<1>4. LoadInv'
  BY <1>1, LoadsKept DEF KernelInv, kernelVars
<1>5. BeforeLoadInv'
  BY DEF KernelInv, BeforeLoadInv, kernelVars
<1>6. QED
  BY <1>1, <1>2, <1>3, <1>4, <1>5 DEF KernelInv

LEMMA ChildExitsStep ==
  ASSUME Inv, ChildExits
  PROVE  Inv' /\ Advances
<1>1. /\ crashes \in 0 .. CircuitBreakerMax /\ CircuitBreakerMax \in Nat \ {0}
      /\ wakeDay \in 1 .. MaxDay + 1 /\ day \in 1 .. MaxDay /\ MaxDay \in Nat
      /\ launcher = "child"
  BY BreakerAssumption, DaysAssumption DEF Inv, KernelInv, TypeOK, KernelTypeOK, Days, ChildExits
<1>2. NextStart \in 1 .. MaxDay + 1
  BY <1>1 DEF NextStart
<1>3. wakeDay' \in 1 .. MaxDay + 1 /\ launcher' \in {"launch", "wait", "stopped"}
  BY <1>1, <1>2 DEF ChildExits
<1>4. crashes' \in 0 .. CircuitBreakerMax /\ BreakerInv'
  <2>1. crashes < CircuitBreakerMax
    BY <1>1 DEF Inv, BreakerInv
  <2>2. CASE Record /\ launcher' = IF BreakerIsOpen(crashes') THEN "stopped" ELSE "launch"
    <3>1. PICK kept \in 0 .. crashes : crashes' = kept + 1
      BY <2>2 DEF Record
    <3>2. crashes' \in 0 .. CircuitBreakerMax
      BY <1>1, <2>1, <3>1
    <3>3. QED
      BY <1>1, <2>2, <3>2 DEF BreakerInv, BreakerIsOpen
  <2>3. CASE crashes' \in {0, crashes}
    BY <1>1, <2>1, <2>3 DEF BreakerInv
  <2>4. QED
    BY <2>2, <2>3 DEF ChildExits
<1>5. UNCHANGED kernelVars
  BY DEF ChildExits
<1>6. KernelInv' /\ Advances
  BY <1>3, <1>4, <1>5, LauncherStep DEF Inv
<1>7. QED
  BY <1>4, <1>6 DEF Inv

LEMMA OperatorRestartsStep ==
  ASSUME KernelInv, OperatorRestarts
  PROVE  KernelInv' /\ BreakerInv' /\ Advances
<1>1. Advances
  BY SameRowAdvances DEF OperatorRestarts, KernelInv
<1>2. faults' \in 0 .. MaxFaults
  BY FaultsAssumption DEF OperatorRestarts, Fault, KernelInv, TypeOK, KernelTypeOK
<1>3. crashes' \in 0 .. CircuitBreakerMax /\ BreakerInv'
  BY BreakerAssumption DEF OperatorRestarts, BreakerInv
<1>4. TypeOK'
  BY <1>2, <1>3 DEF OperatorRestarts, KernelInv, TypeOK, KernelTypeOK, time, process, history
<1>5. PointInv'
  BY DEF OperatorRestarts, KernelInv, PointInv, process
<1>6. LoadInv'
  BY <1>1, LoadsKept DEF OperatorRestarts, KernelInv, history
<1>7. BeforeLoadInv'
  BY DEF OperatorRestarts, KernelInv, BeforeLoadInv, process, history
<1>8. QED
  BY <1>1, <1>3, <1>4, <1>5, <1>6, <1>7 DEF KernelInv

LEMMA TickStep ==
  ASSUME KernelInv, Tick
  PROVE  KernelInv' /\ Advances
<1>1. Advances
  BY SameRowAdvances DEF Tick, KernelInv
<1>2. faults' \in 0 .. MaxFaults
  BY FaultsAssumption DEF Tick, Fault, NoFault, KernelInv, TypeOK, KernelTypeOK
<1>3. phase' \in Phases /\ day' \in Days
  <2>1. phase \in Phases /\ day \in 1 .. MaxDay /\ MaxDay \in Nat
    BY DaysAssumption DEF KernelInv, TypeOK, KernelTypeOK, Days
  <2>2. phase' \in Phases
    BY <2>1 DEF Tick, NextPhase, Phases
  <2>3. day' \in 1 .. MaxDay
    BY <2>1 DEF Tick
  <2>4. QED
    BY <2>2, <2>3 DEF Days
<1>4. events' \in Seq({"PRE", "OPEN", "POST", "CLOSED"})
  <2>1. events \in Seq({"PRE", "OPEN", "POST", "CLOSED"})
    BY DEF KernelInv, TypeOK, KernelTypeOK
  <2>2. ClockState(phase') \in {"PRE", "OPEN", "POST", "CLOSED"}
    BY <1>3 DEF ClockState, Phases
  <2>3. QED
    BY <2>1, <2>2, AppendType DEF Tick
<1>5. TypeOK'
  BY <1>2, <1>3, <1>4 DEF Tick, KernelInv, TypeOK, KernelTypeOK, history, launcherVars
<1>6. PointInv'
  BY DEF Tick, KernelInv, PointInv
<1>7. LoadInv'
  BY <1>1, LoadsKept DEF Tick, KernelInv, history
<1>8. BeforeLoadInv'
  BY DEF Tick, KernelInv, BeforeLoadInv, history
<1>9. QED
  BY <1>1, <1>5, <1>6, <1>7, <1>8 DEF KernelInv

LEMMA KernelActions ==
  ASSUME KernelInv, Kernel
  PROVE  KernelInv' /\ Advances
<1>1. UNCHANGED launcherVars
  BY DEF Kernel
<1>2. CASE BootstrapClosed
  BY <1>1, <1>2, BootstrapClosedStep
<1>3. CASE Bootstrap
  BY <1>1, <1>3, BootstrapStep
<1>4. CASE StrategicSetup
  BY <1>1, <1>4, StrategicSetupStep
<1>5. CASE MarketSetup
  BY <1>1, <1>5, MarketSetupStep
<1>6. CASE MarketSetupRecovery
  BY <1>1, <1>6, MarketSetupRecoveryStep
<1>7. CASE StandBy
  BY <1>1, <1>7, StandByStep
<1>8. CASE PreMarketReached
  BY <1>1, <1>8, PreMarketReachedStep
<1>9. CASE StartMarketThreads
  BY <1>1, <1>9, StartMarketThreadsStep
<1>10. CASE StartMarketRuntime
  BY <1>1, <1>10, StartMarketRuntimeStep
<1>11. CASE OnMarketState
  BY <1>1, <1>11, OnMarketStateStep
<1>12. CASE OnMarketClosed
  BY <1>1, <1>12, OnMarketClosedStep
<1>13. CASE MarketCompleted
  BY <1>1, <1>13, MarketCompletedStep
<1>14. CASE NothingToStop
  BY <1>1, <1>14, NothingToStopStep
<1>15. CASE ProcedureFails
  BY <1>1, <1>15, ProcedureFailsStep
<1>16. CASE Killed
  BY <1>1, <1>16, KilledStep
<1>17. CASE CloseFails
  BY <1>1, <1>17, CloseFailsStep
<1>18. QED
  BY <1>2, <1>3, <1>4, <1>5, <1>6, <1>7, <1>8, <1>9, <1>10, <1>11, <1>12, <1>13, <1>14,
     <1>15, <1>16, <1>17 DEF Kernel, KernelStep

(***************************************************************************)
(* The invariant, and the theorems.                                        *)
(***************************************************************************)
LEMMA InitInv ==
  ASSUME Init
  PROVE  Inv
<1>1. TypeOK
  BY InitType
<1>2. PointInv /\ BeforeLoadInv /\ BreakerInv
  BY BreakerAssumption
  DEF Init, KernelInit, PointInv, BeforeLoadInv, BreakerInv, AwaitPoints, BootPoints
<1>3. LoadInv
  BY DEF Init, KernelInit, LoadInv
<1>4. QED
  BY <1>1, <1>2, <1>3 DEF Inv, KernelInv

LEMMA NextInv ==
  ASSUME Inv, [Next]_vars
  PROVE  Inv' /\ Advances
<1>1. CASE Kernel
  <2>1. BreakerInv'
    BY <1>1 DEF Kernel, launcherVars, Inv, BreakerInv
  <2>2. QED
    BY <1>1, <2>1, KernelActions DEF Inv
<1>2. CASE RunMain
  <2>1. KernelInv' /\ Advances
    BY <1>2, StartKernelStep DEF RunMain, Inv
  <2>2. BreakerInv'
    BY <1>2 DEF RunMain, Inv, BreakerInv
  <2>3. QED
    BY <2>1, <2>2 DEF Inv
<1>3. CASE ChildExits
  BY <1>3, ChildExitsStep
<1>4. CASE Wake
  <2>1. KernelInv' /\ Advances
    BY <1>4, LauncherStep DEF Wake, Inv, KernelInv, TypeOK
  <2>2. BreakerInv'
    BY <1>4 DEF Wake, Inv, BreakerInv
  <2>3. QED
    BY <2>1, <2>2 DEF Inv
<1>5. CASE OperatorRestarts
  BY <1>5, OperatorRestartsStep DEF Inv
<1>6. CASE Tick
  <2>1. BreakerInv'
    BY <1>6 DEF Tick, launcherVars, Inv, BreakerInv
  <2>2. QED
    BY <1>6, <2>1, TickStep DEF Inv
<1>7. CASE UNCHANGED vars
  <2>1. KernelInv' /\ Advances
    BY <1>7, LauncherStep DEF vars, launcherVars, Inv, KernelInv, TypeOK
  <2>2. BreakerInv'
    BY <1>7 DEF vars, launcherVars, Inv, BreakerInv
  <2>3. QED
    BY <2>1, <2>2 DEF Inv
<1>8. QED
  BY <1>1, <1>2, <1>3, <1>4, <1>5, <1>6, <1>7 DEF Next

LEMMA Invariant == SafeSpec => []Inv
<1>1. Init => Inv
  BY InitInv
<1>2. Inv /\ [Next]_vars => Inv'
  BY NextInv
<1>3. QED
  BY <1>1, <1>2, PTL DEF SafeSpec

\* The variables of the kernel and the launcher keep their types; in particular the
\* circuit breaker never counts past its limit.
THEOREM TradingDayTypeCorrect == SafeSpec => []TypeOK
<1>1. Inv => TypeOK
  BY DEF Inv, KernelInv
<1>2. QED
  BY <1>1, Invariant, PTL

\* A session turns its targets into orders at most once, for any number of days, crashes,
\* failures, retries and manual restarts.
THEOREM SessionLoadsAtMostOnce == SafeSpec => []SessionLoadsOnce
<1>1. Inv => SessionLoadsOnce
  BY DEF Inv, KernelInv, LoadInv, SessionLoadsOnce
<1>2. QED
  BY <1>1, Invariant, PTL

\* When a session is completed in the database no thread of its process is at work.
THEOREM CompletedSessionIsStopped == SafeSpec => []CompletedMeansStopped
<1>1. Inv => CompletedMeansStopped
  <2> SUFFICES ASSUME Inv, NEW d \in Days, Progress(row[d]) = 4, session = d, pc # "absent"
               PROVE  threads # "started"
    BY DEF CompletedMeansStopped
  <2>1. pc \in BootPoints
    BY DEF Inv, KernelInv, PointInv, TypeOK, KernelTypeOK, Points, BootPoints
  <2>2. QED
    BY <2>1 DEF Inv, KernelInv, PointInv
<1>2. QED
  BY <1>1, Invariant, PTL

\* The row of a session never goes back and never skips a stage.
THEOREM SessionOnlyAdvances == SafeSpec => SessionAdvances
<1>1. Inv /\ [Next]_vars => [Advances]_row
  BY NextInv
<1>2. QED
  BY <1>1, Invariant, PTL DEF SafeSpec, SessionAdvances, Advances

(***************************************************************************)
(* An interrupted session resumes.  Events are handled one at a time and   *)
(* later than they are notified, so what is inductive speaks of the whole  *)
(* queue: ResumeInv.                                                       *)
(***************************************************************************)

\* Taking another event off the queue leaves the notice of the pre-market in it.
LEMMA NoticeStays ==
  ASSUME NEW S, NEW q \in Seq(S), q # << >>, Head(q) # "PRE",
         \E i \in DOMAIN q : q[i] = "PRE"
  PROVE  \E i \in DOMAIN Tail(q) : Tail(q)[i] = "PRE"
<1>1. PICK i \in 1 .. Len(q) : q[i] = "PRE"
  OBVIOUS
<1>2. Head(q) = q[1] /\ Len(Tail(q)) = Len(q) - 1 /\ Len(q) \in Nat
  OBVIOUS
<1>3. i # 1
  BY <1>1, <1>2
<1>4. i - 1 \in 1 .. Len(Tail(q)) /\ Tail(q)[i - 1] = q[i]
  BY <1>1, <1>2, <1>3
<1>5. i - 1 \in DOMAIN Tail(q)
  BY <1>4
<1>6. QED
  BY <1>1, <1>4, <1>5

\* A notice is appended behind those that wait.
LEMMA NoticeAppended ==
  ASSUME NEW S, NEW q \in Seq(S), NEW e \in S,
         e = "PRE" \/ \E i \in DOMAIN q : q[i] = "PRE"
  PROVE  \E i \in DOMAIN Append(q, e) : Append(q, e)[i] = "PRE"
<1>1. /\ DOMAIN Append(q, e) = 1 .. Len(q) + 1 /\ DOMAIN q = 1 .. Len(q) /\ Len(q) \in Nat
      /\ Append(q, e)[Len(q) + 1] = e
      /\ \A i \in 1 .. Len(q) : Append(q, e)[i] = q[i]
  OBVIOUS
<1>2. QED
  BY <1>1

\* The handlers, while the session stands by.
LEMMA HandlersResume ==
  ASSUME Inv, ResumeInv, OnMarketState \/ OnMarketClosed
  PROVE  ResumeInv'
<1>1. /\ events \in Seq({"PRE", "OPEN", "POST", "CLOSED"}) /\ events # << >>
      /\ preEvent \in BOOLEAN
  BY DEF OnMarketState, OnMarketClosed, HandlerRuns, Inv, KernelInv, TypeOK, KernelTypeOK
<1>2. events' = Tail(events) /\ UNCHANGED <<pc, phase, recovery>>
  BY DEF OnMarketState, OnMarketClosed, time
<1>3. ~preEvent' => ~preEvent /\ Head(events) # "PRE"
  BY DEF OnMarketState, OnMarketClosed
<1>4. QED
  BY <1>1, <1>2, <1>3, NoticeStays DEF ResumeInv

LEMMA StandByResumes ==
  ASSUME Inv, StandBy
  PROVE  ResumeInv'
<1>1. recovery' = recovery /\ phase' = phase /\ preEvent' = (preEvent \/ ResumeAtOnce)
  BY DEF StandBy, time
<1>2. phase \in {"PRE", "OPEN"} /\ recovery => ResumeAtOnce
  BY DEF ResumeAtOnce, ClockState
<1>3. QED
  BY <1>1, <1>2 DEF ResumeInv

LEMMA TickResumes ==
  ASSUME Inv, ResumeInv, Tick
  PROVE  ResumeInv'
<1> SUFFICES ASSUME pc = "stand_by", recovery, ~preEvent, phase' \in {"PRE", "OPEN"}
             PROVE  \E i \in DOMAIN events' : events'[i] = "PRE"
  BY DEF ResumeInv, Tick
<1>1. phase \in Phases /\ events \in Seq({"PRE", "OPEN", "POST", "CLOSED"})
  BY DEF Inv, KernelInv, TypeOK, KernelTypeOK
<1>2. \/ phase = "EARLY" /\ phase' = "PRE"
      \/ phase = "PRE" /\ phase' = "OPEN"
  BY <1>1 DEF Tick, NextPhase, Phases
<1>3. events' = Append(events, ClockState(phase'))
  BY <1>2 DEF Tick, ClockState
<1>4. ClockState(phase') \in {"PRE", "OPEN", "POST", "CLOSED"}
  BY <1>2 DEF ClockState
<1>5. ClockState(phase') = "PRE" \/ \E i \in DOMAIN events : events[i] = "PRE"
  BY <1>2 DEF ClockState, ResumeInv
<1>6. QED
  BY <1>1, <1>3, <1>4, <1>5, NoticeAppended

\* The steps that do not leave the session standing by.
LEMMA OtherPointsResume ==
  ASSUME pc' # "stand_by"
  PROVE  ResumeInv'
BY DEF ResumeInv

LEMMA UntouchedResumes ==
  ASSUME ResumeInv, UNCHANGED <<pc, phase, recovery, preEvent, events>>
  PROVE  ResumeInv'
BY DEF ResumeInv

LEMMA BootstrapLeaves ==
  ASSUME Inv, Bootstrap
  PROVE  pc' # "stand_by"
<1> DEFINE s == IF row[day] = NoRow THEN NewSession ELSE row[day]
<1>1. s \in Row
  BY FirstRow DEF Inv, KernelInv, TypeOK, KernelTypeOK
<1>2. pc' = BuildBootPlan(s) \/ pc' \in {"hung", "absent"}
  BY DEF Bootstrap, Shutdown
<1> HIDE DEF s
<1>3. QED
  BY <1>1, <1>2, PlanFacts

LEMMA NextResumes ==
  ASSUME Inv, ResumeInv, [Next]_vars
  PROVE  ResumeInv'
<1>1. CASE OnMarketState \/ OnMarketClosed
  BY <1>1, HandlersResume
<1>2. CASE StandBy
  BY <1>2, StandByResumes
<1>3. CASE Tick
  BY <1>3, TickResumes
<1>4. CASE Bootstrap
  BY <1>4, BootstrapLeaves, OtherPointsResume
<1>5. CASE \/ BootstrapClosed \/ StrategicSetup \/ ProcedureFails
  <2>1. pc' # "stand_by"
    BY <1>5 DEF BootstrapClosed, StrategicSetup, ProcedureFails, Shutdown
  <2>2. QED
    BY <2>1, OtherPointsResume
<1>6. CASE \/ MarketSetup \/ MarketSetupRecovery \/ PreMarketReached \/ StartMarketThreads
           \/ StartMarketRuntime \/ MarketCompleted \/ Killed \/ RunMain
  <2>1. pc' # "stand_by"
    BY <1>6 DEF MarketSetup, MarketSetupRecovery, PreMarketReached, StartMarketThreads,
                StartMarketRuntime, MarketCompleted, Killed, RunMain, StartKernel
  <2>2. QED
    BY <2>1, OtherPointsResume
<1>7. CASE NothingToStop \/ CloseFails \/ ChildExits \/ Wake \/ OperatorRestarts \/ UNCHANGED vars
  <2>1. UNCHANGED <<pc, phase, recovery, preEvent, events>>
    BY <1>7 DEF NothingToStop, CloseFails, ChildExits, Wake, OperatorRestarts, vars, kernelVars,
                time, process
  <2>2. QED
    BY <2>1, UntouchedResumes
<1>8. QED
  BY <1>1, <1>2, <1>3, <1>4, <1>5, <1>6, <1>7 DEF Next, Kernel, KernelStep

\* A session that was interrupted does not sit out the trading hours: when it stands by with no
\* event to handle and was not told to go on, the market is neither in pre-market nor open
\* (the test for a late recovery in _market_setup, and _on_pre_market).
THEOREM RecoveredSessionsResume == SafeSpec => []RecoveryResumes
<1>1. Init => ResumeInv
  BY DEF Init, KernelInit, ResumeInv
<1>2. Inv /\ ResumeInv /\ [Next]_vars => ResumeInv'
  BY NextResumes
<1>3. ResumeInv => RecoveryResumes
  BY DEF ResumeInv, RecoveryResumes
<1>4. QED
  BY <1>1, <1>2, <1>3, Invariant, PTL DEF SafeSpec
=============================================================================
