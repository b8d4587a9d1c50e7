----------------------------- MODULE TradingDay -----------------------------
(***************************************************************************)
(* The kernel process, the launcher that starts it again (launcher.py) and *)
(* the passing of the days.                                                *)
(*                                                                         *)
(* The parts of a day last hours, the steps of a process minutes at most:  *)
(* time that passes while something is still to be done counts as a fault. *)
(***************************************************************************)
EXTENDS Kernel

CONSTANT CircuitBreakerMax   \* CIRCUIT_BREAKER_MAX

ASSUME BreakerAssumption == CircuitBreakerMax \in Nat \ {0}

VARIABLES
  launcher,   \* where the launcher is: about to start main.py, waiting for it, ...
  crashes,    \* number of crashes in the window of the circuit breaker
  wakeDay     \* the day at whose 04:00 wait_until returns

launcherVars == <<launcher, crashes, wakeDay>>
vars == <<kernelVars, launcherVars>>

TypeOK ==
  /\ KernelTypeOK
  /\ launcher \in {"launch", "child", "wait", "stopped"}
  /\ crashes \in 0 .. CircuitBreakerMax
  /\ wakeDay \in 1 .. MaxDay + 1

Init ==
  /\ KernelInit
  /\ launcher = "launch"
  /\ crashes = 0
  /\ wakeDay = 1

(***************************************************************************)
(* The launcher.                                                           *)
(***************************************************************************)
RunMain ==
  /\ launcher = "launch"
  /\ StartKernel
  /\ launcher' = "child"
  /\ UNCHANGED <<crashes, wakeDay>>

\* Mutant: a closed market is not among the nominal exit codes.
NominalWaitMarketOnly(code) == code = "MARKET_SETUP_COMPLETED"

\* Nominal exits after which the launcher waits for the next 04:00.
NominalWait(code) == code \in {"MARKET_SETUP_COMPLETED", "MARKET_CLOSED_TODAY"}

\* The next 04:00: today's if it is still to come.
NextStart == IF phase = "EARLY" THEN day ELSE day + 1

\* record(): the new crash, and those of the earlier ones still in the window.
Record == \E kept \in 0 .. crashes : crashes' = kept + 1

\* Mutant: one crash too many before the breaker opens.
BreakerIsOpenLate(n) == n > CircuitBreakerMax

BreakerIsOpen(n) == n >= CircuitBreakerMax

ChildExits ==
  /\ launcher = "child"
  /\ pc = "absent"
  /\ \/ /\ exit = "STRATEGIC_SETUP_COMPLETED"
        /\ launcher' = "launch" /\ crashes' = 0
        /\ UNCHANGED wakeDay
     \/ /\ NominalWait(exit)
        /\ launcher' = "wait" /\ crashes' = 0 /\ wakeDay' = NextStart
     \/ /\ exit = "ERROR"
        /\ launcher' = "stopped"
        /\ UNCHANGED <<crashes, wakeDay>>
     \/ /\ exit # "STRATEGIC_SETUP_COMPLETED" /\ ~NominalWait(exit) /\ exit # "ERROR"
        /\ Record
        /\ launcher' = IF BreakerIsOpen(crashes') THEN "stopped" ELSE "launch"
        /\ UNCHANGED wakeDay
  /\ UNCHANGED kernelVars

WakeTime == day > wakeDay \/ (day = wakeDay /\ phase # "EARLY")

Wake ==
  /\ launcher = "wait"
  /\ WakeTime
  /\ launcher' = "launch"
  /\ UNCHANGED <<kernelVars, crashes, wakeDay>>

\* Manual intervention: the operator starts the launcher again.
OperatorRestarts ==
  /\ launcher \in {"wait", "stopped"}
  /\ Fault
  /\ launcher' = "launch" /\ crashes' = 0
  /\ UNCHANGED <<time, row, pc, exit, session, process, closing, history, wakeDay>>

(***************************************************************************)
(* Time.                                                                   *)
(***************************************************************************)
\* Nothing is going on that would end by itself before the clock changes.
Quiescent ==
  /\ events = << >> \/ pc \in {"absent", "hung"}
  /\ ~closing
  /\ \/ pc \in {"hung", "running"}
     \/ pc = "stand_by" /\ ~preEvent
     \/ pc = "absent" /\ \/ launcher = "stopped"
                         \/ launcher = "wait" /\ ~WakeTime

NextPhase(p) == CASE p = "EARLY" -> "PRE" [] p = "PRE" -> "OPEN" [] p = "OPEN" -> "POST"
                  [] p = "POST" -> "LATE" [] p = "LATE" -> "EARLY"

\* on_heartbeat: a change of the market state is notified to the kernel.
Tick ==
  /\ phase = "LATE" => day < MaxDay
  /\ IF Quiescent THEN NoFault ELSE Fault
  /\ phase' = NextPhase(phase)
  /\ day' = IF phase = "LATE" THEN day + 1 ELSE day
  /\ events' = IF pc \in {"absent", "hung"} \/ ClockState(phase') = ClockState(phase)
               THEN events
               ELSE Append(events, ClockState(phase'))
  /\ UNCHANGED <<row, pc, exit, session, preEvent, recovery, threads, loopStopped, closing,
                 history, launcherVars>>

Kernel ==
  /\ KernelStep \/ ProcedureFails \/ Killed \/ CloseFails
  /\ UNCHANGED launcherVars

Next == Kernel \/ RunMain \/ ChildExits \/ Wake \/ OperatorRestarts \/ Tick

SafeSpec == Init /\ [][Next]_vars

\* Running processes make progress and time passes; faults and the operator need not come.
Spec ==
  /\ SafeSpec
  /\ WF_vars(KernelStep /\ UNCHANGED launcherVars)
  /\ WF_vars(RunMain \/ ChildExits \/ Wake)
  /\ WF_vars(Quiescent /\ Tick)

(***************************************************************************)
(* Properties.                                                             *)
(***************************************************************************)
Progress(s) ==
  IF s = NoRow THEN 0
  ELSE (IF s.phase = "MARKET_SETUP" THEN 2 ELSE 0) + (IF s.status = "COMPLETED" THEN 2 ELSE 1)

\* Whatever crashes, restarts and retries do, a session only goes forward: strategic in
\* progress, strategic completed, market in progress, market completed, one at a time
\* (the row written by _run_bootstrap, the procedures and _on_market_closed).
SessionAdvances ==
  [][\A d \in Days : Progress(row[d]') \in {Progress(row[d]), Progress(row[d]) + 1}]_row

\* The target portfolio of a session is turned into orders at most once, however often
\* its process dies and is started again: every restart of a market session goes through
\* the recovery procedure, which does not load the targets.
SessionLoadsOnce == \A d \in Days : loads[d] <= 1

\* A session is completed only when no thread works for it any more: nothing can fill or
\* book an order behind a session that was closed in the database.
CompletedMeansStopped ==
  \A d \in Days : Progress(row[d]) = 4 /\ session = d /\ pc # "absent" => threads # "started"

\* A session that was interrupted never sits out the rest of the trading hours: once its
\* recovery stands by it is on its way to run, unless the market had already closed.
RecoveryResumes ==
  pc = "stand_by" /\ recovery /\ ~preEvent /\ events = << >> => phase \notin {"PRE", "OPEN"}

\* A broker outage during trading hours ends with today's session running again on the
\* same day, if nothing else goes wrong and the circuit breaker stays closed.
OutageRecovers ==
  \A f \in 0 .. MaxFaults, d \in Days :
    ( /\ exit = "BROKER_UNAVAILABLE" /\ pc = "absent" /\ launcher = "child"
      /\ crashes + 1 < CircuitBreakerMax /\ phase \in {"PRE", "OPEN"}
      /\ day = d /\ session = d /\ faults = f )
    ~> (pc = "running" /\ day = d) \/ faults > f

\* With no fault every open day has its session completed and every rebalance date its
\* orders loaded, closed days in between included (the launcher's daily cycle).
OpenDaysServed ==
  [](faults = 0) => \A d \in OpenDays :
                      <>(Progress(row[d]) = 4 /\ (d \in RebalanceDays => d \in loaded))

\* A session that completed on its own day, a rebalance date, loaded the orders of that date
\* (README: the rebalancing engine computes the deltas on the scheduled date).
RebalanceNotSkipped ==
  \A d \in OpenDays \cap RebalanceDays : day = d /\ Progress(row[d]) = 4 => d \in loaded
=============================================================================
