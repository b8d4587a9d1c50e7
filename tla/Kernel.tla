------------------------------- MODULE Kernel -------------------------------
(***************************************************************************)
(* The kernel process (core/kernel.py): bootstrap from the database row of *)
(* today's session, the strategic and market procedures, the recovery      *)
(* procedure, and the handlers of the market clock (core/clock.py), which  *)
(* run on the main loop between two awaits of the procedure.               *)
(*                                                                         *)
(* row is the durable table trading.market_day_session; everything else of *)
(* the process is lost when it dies.  TradingDay composes this module with *)
(* the launcher and the passing of time.                                   *)
(***************************************************************************)
EXTENDS Integers, Sequences

CONSTANTS
  MaxDay,          \* bound: days modelled
  OpenDays,        \* the days on which the exchange opens
  RebalanceDays,   \* the days for which portfolio targets are stored
  MaxFaults,       \* bound: crashes, outages, failures, untimely starts
  NoRow            \* no session row for a day

Days == 1 .. MaxDay

Row == [status : {"IN_PROGRESS", "COMPLETED"}, error : BOOLEAN,
        phase : {"STRATEGIC_SETUP", "MARKET_SETUP"},
        state : {"INITIALIZATION", "STAND_BY", "RUNNING", "SETTLING", "SHUTDOWN"}]

ASSUME DaysAssumption == MaxDay \in Nat \ {0}
ASSUME FaultsAssumption == MaxFaults \in Nat
ASSUME NoRowAssumption == NoRow \notin Row

VARIABLES
  day, phase,   \* New York date, and the part of the day
  row,          \* the session table, by date
  pc,           \* where the process is
  exit,         \* exit code of the last process that ended
  session,      \* session_date of self._today_session
  preEvent,     \* self._pre_market_event
  events,       \* handlers scheduled on the main loop and not run yet
  recovery,     \* system_state.recovery_mode
  threads,      \* the market threads
  loopStopped,  \* the stop event of runtime_loop
  closing,      \* _on_market_closed is suspended in stop_market_runtime
  loads,        \* history: how often a session loaded the portfolio orders
  loaded,       \* history: rebalance dates whose orders were loaded
  faults        \* how many things have gone wrong

process == <<preEvent, events, recovery, threads, loopStopped>>
time == <<day, phase>>
history == <<loads, loaded>>
kernelVars == <<day, phase, row, pc, exit, session, preEvent, events, recovery, threads,
                loopStopped, closing, loads, loaded, faults>>

\* _compute_market_state; EARLY and LATE are the two parts of the night around midnight.
ClockState(p) == IF p \in {"EARLY", "LATE"} THEN "CLOSED" ELSE p

Phases == {"EARLY", "PRE", "OPEN", "POST", "LATE"}

AwaitPoints == {"initialize", "stand_by", "streaming", "starting", "running"}
Points == AwaitPoints \cup {"absent", "boot", "strategic_setup", "strategic_running",
                            "market_setup", "market_setup_recovery", "hung"}

ExitCodes == {"NONE", "STRATEGIC_SETUP_COMPLETED", "MARKET_SETUP_COMPLETED",
              "MARKET_CLOSED_TODAY", "ERROR", "BROKER_UNAVAILABLE", "CRASH"}

KernelTypeOK ==
  /\ day \in Days /\ phase \in Phases
  /\ row \in [Days -> Row \cup {NoRow}]
  /\ pc \in Points
  /\ exit \in ExitCodes
  /\ session \in Days
  /\ preEvent \in BOOLEAN /\ recovery \in BOOLEAN
  /\ loopStopped \in BOOLEAN /\ closing \in BOOLEAN
  /\ events \in Seq({"PRE", "OPEN", "POST", "CLOSED"})
  /\ threads \in {"none", "registered", "started", "stopped"}
  /\ loads \in [Days -> Nat]
  /\ loaded \subseteq Days
  /\ faults \in 0 .. MaxFaults

KernelInit ==
  /\ day = 1 /\ phase \in Phases
  /\ row = [d \in Days |-> NoRow]
  /\ pc = "absent" /\ exit = "NONE" /\ session = 1
  /\ preEvent = FALSE /\ events = << >> /\ recovery = FALSE
  /\ threads = "none" /\ loopStopped = FALSE /\ closing = FALSE
  /\ loads = [d \in Days |-> 0] /\ loaded = {}
  /\ faults = (IF phase \in {"EARLY", "PRE"} THEN 0 ELSE 1) /\ faults <= MaxFaults

Fault == faults < MaxFaults /\ faults' = faults + 1
NoFault == UNCHANGED faults

UpdateSession(s) == row' = [row EXCEPT ![session] = s]

(***************************************************************************)
(* SystemExit, or an exception that leaves asyncio.run.  runtime_loop is   *)
(* not a daemon thread: while it runs the interpreter waits for it and the *)
(* process never ends.                                                     *)
(***************************************************************************)
Shutdown(code) ==
  /\ closing' = FALSE
  /\ IF threads = "started" /\ ~loopStopped
     THEN pc' = "hung" /\ UNCHANGED exit
     ELSE pc' = "absent" /\ exit' = code

\* A new process: the kernel's objects are created, and the first heartbeat finds the
\* clock CLOSED and notifies the state of now.
StartKernel ==
  /\ pc' = "boot"
  /\ preEvent' = FALSE /\ recovery' = FALSE /\ closing' = FALSE
  /\ threads' = "none" /\ loopStopped' = FALSE
  /\ events' = IF ClockState(phase) = "CLOSED" THEN << >> ELSE <<ClockState(phase)>>
  /\ UNCHANGED <<time, row, exit, session, history, faults>>

(***************************************************************************)
(* Bootstrap.                                                              *)
(***************************************************************************)
NewSession == [status |-> "IN_PROGRESS", error |-> FALSE,
               phase |-> "STRATEGIC_SETUP", state |-> "INITIALIZATION"]

\* Mutant: a session with its error flag up is not resumed.
BuildBootPlanNoError(s) ==
  CASE s.status = "IN_PROGRESS" /\ ~s.error /\ s.phase = "STRATEGIC_SETUP" -> "strategic_setup"
    [] s.status = "COMPLETED"   /\ ~s.error /\ s.phase = "STRATEGIC_SETUP" -> "market_setup"
    [] s.status = "IN_PROGRESS" /\ ~s.error /\ s.phase = "MARKET_SETUP" -> "market_setup_recovery"
    [] OTHER -> "ValueError"

\* Mutant: a session already completed is set up again.
BuildBootPlanAgain(s) ==
  CASE s.status = "IN_PROGRESS" /\ ~s.error /\ s.phase = "STRATEGIC_SETUP" -> "strategic_setup"
    [] s.status = "IN_PROGRESS" /\ s.phase = "MARKET_SETUP" -> "market_setup_recovery"
    [] OTHER -> "market_setup"

BuildBootPlan(s) ==
  CASE s.status = "IN_PROGRESS" /\ ~s.error /\ s.phase = "STRATEGIC_SETUP" -> "strategic_setup"
    [] s.status = "COMPLETED"   /\ ~s.error /\ s.phase = "STRATEGIC_SETUP" -> "market_setup"
    [] s.status = "IN_PROGRESS" /\ s.phase = "MARKET_SETUP" -> "market_setup_recovery"
    [] OTHER -> "ValueError"

\* No session is opened on a day the exchange is closed.
BootstrapClosed ==
  /\ pc = "boot"
  /\ row[day] = NoRow /\ day \notin OpenDays
  /\ Shutdown("MARKET_CLOSED_TODAY")
  /\ UNCHANGED <<time, row, session, process, history, faults>>

\* The ValueError of a row without a plan is raised outside _run_procedure.
Bootstrap ==
  /\ pc = "boot"
  /\ row[day] # NoRow \/ day \in OpenDays
  /\ session' = day
  /\ LET s == IF row[day] = NoRow THEN NewSession ELSE row[day]
         plan == BuildBootPlan(s)
     IN  /\ row' = [row EXCEPT ![day] = s]
         /\ IF plan = "ValueError"
            THEN Shutdown("CRASH")
            ELSE pc' = plan /\ UNCHANGED <<exit, closing>>
  /\ UNCHANGED <<time, process, history, faults>>

(***************************************************************************)
(* Procedures.                                                             *)
(***************************************************************************)
\* What a procedure writes to its session next.
Written ==
  LET s == row[session]
  IN CASE pc = "strategic_setup"   -> [s EXCEPT !.state = "RUNNING"]
       [] pc = "strategic_running" -> [s EXCEPT !.state = "SHUTDOWN", !.status = "COMPLETED"]
       [] pc = "market_setup"      -> [s EXCEPT !.state = "INITIALIZATION",
                                         !.status = "IN_PROGRESS", !.phase = "MARKET_SETUP"]
       [] pc = "market_setup_recovery" ->
            [status |-> "IN_PROGRESS", error |-> FALSE,
             phase |-> "MARKET_SETUP", state |-> "INITIALIZATION"]
       [] pc = "initialize"        -> [s EXCEPT !.state = "STAND_BY"]
       [] pc = "stand_by"          -> [s EXCEPT !.state = "RUNNING"]
       [] OTHER                    -> s

StrategicSetup ==
  /\ UNCHANGED <<time, session, process, history, faults>>
  /\ UpdateSession(Written)
  /\ \/ /\ pc = "strategic_setup"
        /\ pc' = "strategic_running"
        /\ UNCHANGED <<exit, closing>>
     \/ /\ pc = "strategic_running"
        /\ Shutdown("STRATEGIC_SETUP_COMPLETED")

\* Mutant: the row is left in the strategic phase until the runtime starts.
MarketSetupLateRow ==
  /\ pc = "market_setup"
  /\ UNCHANGED row
  /\ pc' = "initialize"
  /\ UNCHANGED <<time, exit, session, closing, process, history, faults>>

MarketSetup ==
  /\ pc = "market_setup"
  /\ UpdateSession(Written)
  /\ pc' = "initialize"
  /\ UNCHANGED <<time, exit, session, closing, process, history, faults>>

MarketSetupRecovery ==
  /\ pc = "market_setup_recovery"
  /\ UpdateSession(Written)
  /\ recovery' = TRUE
  /\ pc' = "initialize"
  /\ UNCHANGED <<time, exit, session, closing, preEvent, events, threads, loopStopped,
                 history, faults>>

\* Mutant: only pre-market is recognised as a time to resume.
ResumeAtOncePreOnly == recovery /\ ClockState(phase) = "PRE"

ResumeAtOnce == recovery /\ ClockState(phase) \in {"PRE", "OPEN"}

\* initialize_market_setup returned: threads are registered, the session stands by.
StandBy ==
  /\ pc = "initialize"
  /\ UpdateSession(Written)
  /\ threads' = "registered"
  /\ preEvent' = (preEvent \/ ResumeAtOnce)
  /\ pc' = "stand_by"
  /\ UNCHANGED <<time, exit, session, closing, events, recovery, loopStopped, history, faults>>

PreMarketReached ==
  /\ pc = "stand_by"
  /\ preEvent
  /\ UpdateSession(Written)
  /\ pc' = "streaming"
  /\ UNCHANGED <<time, exit, session, closing, process, history, faults>>

\* start_streaming returned; the threads start and the procedure sleeps.
StartMarketThreads ==
  /\ pc = "streaming"
  /\ threads' = "started"
  /\ pc' = "starting"
  /\ UNCHANGED <<time, row, exit, session, closing, preEvent, events, recovery, loopStopped,
                 history, faults>>

\* A session in recovery restores the orders staged on disk instead of loading targets.
LoadPortfolioOrders ==
  IF recovery
  THEN UNCHANGED history
  ELSE /\ loads' = [loads EXCEPT ![session] = @ + 1]
       /\ loaded' = loaded \cup ({day} \cap RebalanceDays)

StartMarketRuntime ==
  /\ pc = "starting"
  /\ LoadPortfolioOrders
  /\ pc' = "running"
  /\ UNCHANGED <<time, row, exit, session, closing, process, faults>>

(***************************************************************************)
(* _run_procedure: a procedure that raises flags its session and exits.    *)
(* When it is its write of the session that failed, the one of the flag    *)
(* writes both.  When the database fails again the exception leaves the    *)
(* process.  start_market_runtime may raise before or after it loaded the  *)
(* orders.                                                                 *)
(***************************************************************************)
RuntimePoints == {"initialize", "streaming", "starting"}
WritingPoints == {"strategic_setup", "strategic_running", "market_setup",
                  "market_setup_recovery", "initialize", "stand_by"}

ProcedureFails ==
  /\ pc \in RuntimePoints \cup WritingPoints
  /\ pc = "stand_by" => preEvent
  /\ Fault
  /\ IF pc = "starting"
     THEN LoadPortfolioOrders \/ UNCHANGED history
     ELSE UNCHANGED history
  /\ \/ /\ pc \in RuntimePoints
        /\ UpdateSession([row[session] EXCEPT !.error = TRUE])
        /\ \E code \in {"BROKER_UNAVAILABLE", "ERROR"} : Shutdown(code)
     \/ /\ pc \in WritingPoints
        /\ UpdateSession([Written EXCEPT !.error = TRUE])
        /\ Shutdown("ERROR")
     \/ /\ UNCHANGED row
        /\ Shutdown("CRASH")
  /\ UNCHANGED <<time, session, process>>

\* The process is killed, wherever it is.
Killed ==
  /\ pc # "absent"
  /\ Fault
  /\ pc' = "absent" /\ exit' = "CRASH" /\ closing' = FALSE
  /\ UNCHANGED <<time, row, session, process, history>>

(***************************************************************************)
(* Handlers of the market clock, in the order they were scheduled.         *)
(***************************************************************************)
HandlerRuns == pc \in AwaitPoints /\ ~closing /\ events # << >>

\* _on_pre_market sets the event; _on_market_open and _on_post_market do nothing.
OnMarketState ==
  /\ HandlerRuns
  /\ Head(events) # "CLOSED"
  /\ preEvent' = (preEvent \/ Head(events) = "PRE")
  /\ events' = Tail(events)
  /\ UNCHANGED <<time, row, pc, exit, session, recovery, threads, loopStopped, closing,
                 history, faults>>

\* Mutant: the session is completed before its runtime is stopped.
OnMarketClosedEarly ==
  /\ HandlerRuns
  /\ Head(events) = "CLOSED"
  /\ events' = Tail(events)
  /\ UpdateSession([row[session] EXCEPT !.state = "SHUTDOWN", !.status = "COMPLETED"])
  /\ closing' = TRUE
  /\ UNCHANGED <<time, pc, exit, session, preEvent, recovery, threads, loopStopped,
                 history, faults>>

OnMarketClosed ==
  /\ HandlerRuns
  /\ Head(events) = "CLOSED"
  /\ events' = Tail(events)
  /\ UpdateSession([row[session] EXCEPT !.state = "SETTLING"])
  /\ closing' = TRUE
  /\ UNCHANGED <<time, pc, exit, session, preEvent, recovery, threads, loopStopped,
                 history, faults>>

\* Threads that were started are stopped and joined, and the process ends.
MarketCompleted ==
  /\ closing
  /\ threads \in {"started", "stopped"}
  /\ threads' = "stopped" /\ loopStopped' = TRUE
  /\ UpdateSession([row[session] EXCEPT !.state = "SHUTDOWN", !.status = "COMPLETED"])
  /\ closing' = FALSE /\ pc' = "absent" /\ exit' = "MARKET_SETUP_COMPLETED"
  /\ UNCHANGED <<time, session, preEvent, events, recovery, history, faults>>

\* Joining a thread that was never started raises in the handler, after its stop event
\* was set; the exception stays in the handler's future.
NothingToStop ==
  /\ closing
  /\ threads \in {"none", "registered"}
  /\ closing' = FALSE
  /\ loopStopped' = (threads = "registered")
  /\ UNCHANGED <<time, row, pc, exit, session, preEvent, events, recovery, threads,
                 history, faults>>

\* The account update, or the last write of the session, raises in the handler.
CloseFails ==
  /\ closing
  /\ Fault
  /\ closing' = FALSE
  /\ \/ UNCHANGED <<threads, loopStopped>>
     \/ /\ threads = "started"
        /\ threads' = "stopped" /\ loopStopped' = TRUE
  /\ UNCHANGED <<time, row, pc, exit, session, preEvent, events, recovery, history>>

KernelStep ==
  \/ BootstrapClosed \/ Bootstrap
  \/ StrategicSetup \/ MarketSetup \/ MarketSetupRecovery
  \/ StandBy \/ PreMarketReached \/ StartMarketThreads \/ StartMarketRuntime
  \/ OnMarketState \/ OnMarketClosed \/ MarketCompleted \/ NothingToStop
=============================================================================
