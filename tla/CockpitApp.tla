----------------------------- MODULE CockpitApp -----------------------------
(***************************************************************************)
(* The lifecycle of the cockpit client, CockpitClientApp                   *)
(* (src/cockpit_client/cockpit_client_app.h: the class, then its .cc).     *)
(*                                                                         *)
(* main() installs signal_handler for SIGINT and SIGTERM, points           *)
(* global_app_instance at the app, calls init() and run(), clears the      *)
(* pointer and returns; the app's destructor then calls stop().  The       *)
(* handler calls global_app_instance->stop().  state_ is a                 *)
(* std::atomic<AppState>: init, run and stop begin with compare_exchanges, *)
(* the other writes are plain stores.                                       *)
(*                                                                         *)
(* Where the handler runs is the constant SignalOnMain.  TRUE: it          *)
(* interrupts the main thread, which resumes only when the handler         *)
(* returns.  FALSE: POSIX delivers a process-directed signal to any thread *)
(* that does not block it, and the handler runs beside main.               *)
(*                                                                         *)
(* The injected components are kept to whether they run.  Their init and  *)
(* start results are inputs; their stop() always returns.                  *)
(***************************************************************************)
EXTENDS Naturals, Sequences

CONSTANTS
    Main,          \* the thread running main(), run() and the destructor
    Sig,           \* the thread on which signal_handler runs
    SignalOnMain,  \* the handler interrupts Main rather than running beside it
    MaxSignals     \* bound on the SIGINT/SIGTERM deliveries explored

ASSUME CockpitAssumption ==
    /\ Main # Sig
    /\ SignalOnMain \in BOOLEAN
    /\ MaxSignals \in Nat

VARIABLES
    state,       \* state_
    mainPc,      \* where main() is
    sp,          \* sp[t]: the step of stop() thread t is at, "idle" outside
    sigPc,       \* where signal_handler is
    global,      \* global_app_instance != nullptr
    running,     \* the components started and not stopped since
    hasMonitor,  \* connectionMonitor_ != nullptr (heartbeat_interval_ms > 0)
    signals      \* signals delivered so far

vars == <<state, mainPc, sp, sigPc, global, running, hasMonitor, signals>>

AppStates == {"Uninitialized", "Initializing", "Initialized", "Running",
              "Stopping", "Stopped"}

Components == {"transport", "webrtc", "polling", "monitor"}

(* The order in which stop() stops the components.                        *)
StopOrder == <<"monitor", "polling", "webrtc", "transport">>

StopPhases == {"idle", "cas1", "cas2", "store"} \cup Components

MainPcs == {"create", "initCas", "initBody", "initFailed", "runCas",
            "transport", "webrtc", "polling", "monitor", "loop", "final",
            "runReturned", "dtor", "dtorStop", "exited"}

TypeOK ==
    /\ state \in AppStates
    /\ mainPc \in MainPcs
    /\ sp \in [{Main, Sig} -> StopPhases]
    /\ sigPc \in {"idle", "check", "stop"}
    /\ global \in BOOLEAN
    /\ running \subseteq Components
    /\ hasMonitor \in BOOLEAN
    /\ signals \in 0..MaxSignals

Init ==
    /\ state = "Uninitialized"
    /\ mainPc = "create"
    /\ sp = [t \in {Main, Sig} |-> "idle"]
    /\ sigPc = "idle"
    /\ global = FALSE
    /\ running = {}
    /\ hasMonitor \in BOOLEAN
    /\ signals = 0

(* With the handler on the main thread, main makes no step while the       *)
(* handler runs.                                                           *)
MainMay == ~SignalOnMain \/ sigPc = "idle"

-----------------------------------------------------------------------------
(***************************************************************************)
(* stop(), on thread t: the compare_exchange from Running, then the one    *)
(* from Initialized, each a step of its own; the component stops in        *)
(* order; the final store of Stopped.                                      *)
(***************************************************************************)
(* Mutant: stop() entering its shutdown without the exchange from Running *)
(* (a plain store of Stopping).                                            *)
StopCas1NoExchange(t) ==
    /\ sp[t] = "cas1"
    /\ state' = "Stopping" /\ sp' = [sp EXCEPT ![t] = StopOrder[1]]
    /\ UNCHANGED <<mainPc, sigPc, global, running, hasMonitor, signals>>

StopCas1(t) ==
    /\ sp[t] = "cas1"
    /\ IF state = "Running"
       THEN state' = "Stopping" /\ sp' = [sp EXCEPT ![t] = StopOrder[1]]
       ELSE sp' = [sp EXCEPT ![t] = "cas2"] /\ UNCHANGED state
    /\ UNCHANGED <<mainPc, sigPc, global, running, hasMonitor, signals>>

(* Mutant: stop() without the second compare_exchange (from Initialized).  *)
StopNoInitializedFallback(t) ==
    /\ sp[t] = "cas2"
    /\ sp' = [sp EXCEPT ![t] = "idle"]
    /\ UNCHANGED <<state, mainPc, sigPc, global, running, hasMonitor, signals>>

StopCas2(t) ==
    /\ sp[t] = "cas2"
    /\ IF state = "Initialized"
       THEN state' = "Stopping" /\ sp' = [sp EXCEPT ![t] = StopOrder[1]]
       ELSE sp' = [sp EXCEPT ![t] = "idle"] /\ UNCHANGED state
    /\ UNCHANGED <<mainPc, sigPc, global, running, hasMonitor, signals>>

(* connectionMonitor_->stop() (when present), stopPolling(),               *)
(* webrtcManager_->stop(), transportServer_->stop().                       *)
StopComponent(t) ==
    \E i \in 1..Len(StopOrder) :
        /\ sp[t] = StopOrder[i]
        /\ running' = running \ {StopOrder[i]}
        /\ sp' = [sp EXCEPT ![t] = IF i = Len(StopOrder) THEN "store"
                                   ELSE StopOrder[i + 1]]
        /\ UNCHANGED <<state, mainPc, sigPc, global, hasMonitor, signals>>

StopStore(t) ==
    /\ sp[t] = "store"
    /\ state' = "Stopped"
    /\ sp' = [sp EXCEPT ![t] = "idle"]
    /\ UNCHANGED <<mainPc, sigPc, global, running, hasMonitor, signals>>

StopStep(t) == StopCas1(t) \/ StopCas2(t) \/ StopComponent(t) \/ StopStore(t)

-----------------------------------------------------------------------------
(***************************************************************************)
(* main().                                                                 *)
(***************************************************************************)
SetMain(pc) == mainPc' = pc

(* global_app_instance = &app, before init.                                *)
SetGlobal ==
    /\ mainPc = "create" /\ MainMay
    /\ global' = TRUE /\ SetMain("initCas")
    /\ UNCHANGED <<state, sp, sigPc, running, hasMonitor, signals>>

(* init(): the compare_exchange Uninitialized -> Initializing.             *)
InitCas ==
    /\ mainPc = "initCas" /\ MainMay
    /\ IF state = "Uninitialized"
       THEN state' = "Initializing" /\ SetMain("initBody")
       ELSE SetMain("initFailed") /\ UNCHANGED state
    /\ UNCHANGED <<sp, sigPc, global, running, hasMonitor, signals>>

(* The rest of init(): every component's init and callback setup; any     *)
(* failure stores Uninitialized and returns false.                         *)
InitBody ==
    /\ mainPc = "initBody" /\ MainMay
    /\ \/ state' = "Initialized" /\ SetMain("runCas")
       \/ state' = "Uninitialized" /\ SetMain("initFailed")
    /\ UNCHANGED <<sp, sigPc, global, running, hasMonitor, signals>>

(* init() failed: main clears global_app_instance and returns 1.          *)
InitFailed ==
    /\ mainPc = "initFailed" /\ MainMay
    /\ global' = FALSE /\ SetMain("dtor")
    /\ UNCHANGED <<state, sp, sigPc, running, hasMonitor, signals>>

(* Mutant: run() storing Running without its compare_exchange.            *)
RunCasPlainStore ==
    /\ mainPc = "runCas" /\ MainMay
    /\ state' = "Running" /\ SetMain("transport")
    /\ UNCHANGED <<sp, sigPc, global, running, hasMonitor, signals>>

(* run(): the compare_exchange Initialized -> Running, else return 1.      *)
RunCas ==
    /\ mainPc = "runCas" /\ MainMay
    /\ IF state = "Initialized"
       THEN state' = "Running" /\ SetMain("transport")
       ELSE SetMain("runReturned") /\ UNCHANGED state
    /\ UNCHANGED <<sp, sigPc, global, running, hasMonitor, signals>>

(* The components run() has started before the one at step c, and the    *)
(* next step after c.                                                      *)
StartedBefore == [c \in {"transport", "webrtc", "polling"} |->
                    CASE c = "transport" -> {}
                      [] c = "webrtc"    -> {"transport"}
                      [] c = "polling"   -> {"transport", "webrtc"}]
NextStart == [transport |-> "webrtc", webrtc |-> "polling",
              polling |-> "monitor"]

(* transportServer_->start(), webrtcManager_->start(),                     *)
(* inputDeviceSource_->startPolling(): on failure, stop what run() started *)
(* before, store Stopped and return 1.                                     *)
RunStart ==
    \E c \in {"transport", "webrtc", "polling"} :
        /\ mainPc = c /\ MainMay
        /\ \/ running' = running \cup {c} /\ SetMain(NextStart[c])
              /\ UNCHANGED state
           \/ running' = running \ StartedBefore[c] /\ state' = "Stopped"
              /\ SetMain("runReturned")
        /\ UNCHANGED <<sp, sigPc, global, hasMonitor, signals>>

(* connectionMonitor_->start() when a monitor was injected.                *)
RunMonitor ==
    /\ mainPc = "monitor" /\ MainMay
    /\ running' = IF hasMonitor THEN running \cup {"monitor"} ELSE running
    /\ SetMain("loop")
    /\ UNCHANGED <<state, sp, sigPc, global, hasMonitor, signals>>

(* while (state_ == Running) sleep: the loop ends once state_ changed.     *)
RunLoop ==
    /\ mainPc = "loop" /\ MainMay /\ state # "Running"
    /\ SetMain("final")
    /\ UNCHANGED <<state, sp, sigPc, global, running, hasMonitor, signals>>

(* if (state_ != Stopped) state_ = Stopped; return 0.                       *)
RunFinal ==
    /\ mainPc = "final" /\ MainMay
    /\ state' = "Stopped" /\ SetMain("runReturned")
    /\ UNCHANGED <<sp, sigPc, global, running, hasMonitor, signals>>

(* Mutant: main returning without clearing global_app_instance.            *)
MainReturnKeepsGlobal ==
    /\ mainPc = "runReturned" /\ MainMay
    /\ SetMain("dtor")
    /\ UNCHANGED <<state, sp, sigPc, global, running, hasMonitor, signals>>

(* global_app_instance = nullptr; return return_code.                      *)
MainReturn ==
    /\ mainPc = "runReturned" /\ MainMay
    /\ global' = FALSE /\ SetMain("dtor")
    /\ UNCHANGED <<state, sp, sigPc, running, hasMonitor, signals>>

(* ~CockpitClientApp(): stop(), then the members are destroyed.            *)
Destructor ==
    /\ mainPc = "dtor" /\ MainMay
    /\ sp' = [sp EXCEPT ![Main] = "cas1"] /\ SetMain("dtorStop")
    /\ UNCHANGED <<state, sigPc, global, running, hasMonitor, signals>>

Destroyed ==
    /\ mainPc = "dtorStop" /\ MainMay /\ sp[Main] = "idle"
    /\ SetMain("exited")
    /\ UNCHANGED <<state, sp, sigPc, global, running, hasMonitor, signals>>

MainStep ==
    \/ SetGlobal \/ InitCas \/ InitBody \/ InitFailed \/ RunCas \/ RunStart
    \/ RunMonitor \/ RunLoop \/ RunFinal \/ MainReturn \/ Destructor
    \/ Destroyed \/ (MainMay /\ StopStep(Main))

-----------------------------------------------------------------------------
(***************************************************************************)
(* signal_handler.  A signal may arrive at any time, also after the app's *)
(* destructor, while the process is still in exit().                      *)
(***************************************************************************)
Deliver ==
    /\ sigPc = "idle" /\ signals < MaxSignals
    /\ signals' = signals + 1 /\ sigPc' = "check"
    /\ UNCHANGED <<state, mainPc, sp, global, running, hasMonitor>>

(* if (global_app_instance) global_app_instance->stop();                   *)
SignalCheck ==
    /\ sigPc = "check"
    /\ IF global
       THEN sigPc' = "stop" /\ sp' = [sp EXCEPT ![Sig] = "cas1"]
       ELSE sigPc' = "idle" /\ UNCHANGED sp
    /\ UNCHANGED <<state, mainPc, global, running, hasMonitor, signals>>

SignalReturn ==
    /\ sigPc = "stop" /\ sp[Sig] = "idle"
    /\ sigPc' = "idle"
    /\ UNCHANGED <<state, mainPc, sp, global, running, hasMonitor, signals>>

SigStep == SignalCheck \/ StopStep(Sig) \/ SignalReturn

Next == MainStep \/ Deliver \/ SigStep

(* The OS schedules every runnable thread: main and a handler in progress *)
(* keep making steps.  Signal delivery is the environment's and not fair.  *)
Spec == Init /\ [][Next]_vars /\ WF_vars(MainStep) /\ WF_vars(SigStep)

-----------------------------------------------------------------------------
(***************************************************************************)
(* Properties.                                                             *)
(***************************************************************************)

(* state_ never moves back through the lifecycle, whatever the order of   *)
(* run()'s compare_exchange, the handler's stop() and run()'s stores; the *)
(* only step back is init()'s reset to Uninitialized on failure.           *)
AppRank(s) ==
    CASE s = "Uninitialized" -> 0 [] s = "Initializing" -> 1
      [] s = "Initialized" -> 2   [] s = "Running" -> 3
      [] s = "Stopping" -> 4      [] s = "Stopped" -> 5

AppLifecycleMonotone ==
    [][\/ AppRank(state) <= AppRank(state')
       \/ state = "Initializing" /\ state' = "Uninitialized"]_state

(* signal_handler never calls stop() on an app that has been destroyed:    *)
(* main clears global_app_instance before the destructor runs, and a       *)
(* handler that found the pointer set has finished before the app is gone. *)
NoUseAfterDestroy == mainPc = "exited" => sp[Sig] = "idle"

(* A SIGINT or SIGTERM whose handler calls stop() while the app is         *)
(* Initialized or Running ends the process: stop() wins one of its two     *)
(* compare_exchanges, run()'s loop or its compare_exchange then sees the   *)
(* change, and main returns.                                               *)
SignalHonoured ==
    (sp[Sig] = "cas1" /\ state \in {"Initialized", "Running"})
        ~> mainPc = "exited"

(* Every signal whose handler finds global_app_instance set ends the       *)
(* process (main's comment: signal handlers for graceful shutdown).        *)
SignalAlwaysHonoured == (sp[Sig] = "cas1") ~> mainPc = "exited"

(* Once the app has been destroyed, no component it started is running:   *)
(* stop() "signals the event loop and components to shut down"            *)
(* (cockpit_client_app.h:88-90).                                           *)
StoppedComponentsDown == mainPc = "exited" => running = {}
=============================================================================
