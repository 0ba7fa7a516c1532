-------------------------- MODULE CockpitAppProofs --------------------------
(***************************************************************************)
(* Proofs about CockpitApp: the lifecycle of state_ only moves forward     *)
(* (for either placement of the signal handler), and, when the handler     *)
(* interrupts the main thread, it never calls stop() on a destroyed app.   *)
(*                                                                         *)
(* Neither is inductive as it stands.                                      *)
(*   - init()'s failure path stores Uninitialized from Initializing; the   *)
(*     proof must know that nothing else changes state_ while main is in   *)
(*     init()'s body.  A stop() past its compare_exchanges has seen        *)
(*     Running or Initialized, so state_ is then Stopping or Stopped, and  *)
(*     no stop() can store Stopped into a still-initialising app.          *)
(*   - A handler in progress must be one that main cannot outrun: with the *)
(*     handler on the main thread, main resumes only when it returns; and  *)
(*     main clears global_app_instance before the destructor, so a handler *)
(*     that starts later returns without calling stop().                   *)
(***************************************************************************)
EXTENDS CockpitApp, TLAPS

\* What the lifecycle knows at every point: a stop() past its
\* compare_exchanges sees Stopping or Stopped, and init()'s body runs on
\* an Initializing app.
CockpitInv ==
    /\ TypeOK
    /\ \A t \in {Main, Sig} :
          sp[t] \in Components \cup {"store"} => state \in {"Stopping", "Stopped"}
    /\ mainPc = "initBody" => state = "Initializing"

\* What the signal handler knows when it interrupts main: only a handler
\* that passed its check is inside stop(), and global_app_instance is
\* clear from main's return on.
HandlerInv ==
    /\ sigPc \in {"idle", "check"} => sp[Sig] = "idle"
    /\ mainPc \in {"dtor", "dtorStop", "exited"} => ~global
    /\ mainPc = "exited" => sigPc # "stop"

USE CockpitAssumption

\* The steps stop() takes through the components.
LEMMA StopOrderFacts ==
    /\ Len(StopOrder) = 4
    /\ \A i \in 1..4 : StopOrder[i] \in Components
BY DEF StopOrder, Components

LEMMA CockpitInvInit == Init => CockpitInv
<1> SUFFICES ASSUME Init PROVE CockpitInv
  OBVIOUS
<1>1. sp \in [{Main, Sig} -> StopPhases]
  BY DEF Init, StopPhases
<1>2. signals \in 0..MaxSignals
  BY DEF Init
<1>3. TypeOK
  BY <1>1, <1>2 DEF Init, TypeOK, AppStates, MainPcs
<1>. QED
  BY <1>3 DEF Init, CockpitInv, Components

\* A step of stop() on thread t keeps the invariant.
LEMMA StopStepInv ==
    ASSUME CockpitInv, NEW t \in {Main, Sig}, StopStep(t)
    PROVE  CockpitInv'
<1>0. /\ TypeOK
      /\ UNCHANGED <<mainPc, sigPc, global, hasMonitor, signals>>
  BY DEF CockpitInv, StopStep, StopCas1, StopCas2, StopComponent, StopStore
<1>1. CASE StopCas1(t)
  BY <1>0, <1>1, StopOrderFacts
     DEF StopCas1, CockpitInv, TypeOK, StopPhases, AppStates, Components
<1>2. CASE StopCas2(t)
  BY <1>0, <1>2, StopOrderFacts
     DEF StopCas2, CockpitInv, TypeOK, StopPhases, AppStates, Components
<1>3. CASE StopComponent(t)
  <2>1. PICK i \in 1..Len(StopOrder) :
            /\ sp[t] = StopOrder[i]
            /\ running' = running \ {StopOrder[i]}
            /\ sp' = [sp EXCEPT ![t] = IF i = Len(StopOrder) THEN "store"
                                       ELSE StopOrder[i + 1]]
            /\ UNCHANGED state
    BY <1>3 DEF StopComponent
  <2>2. i \in 1..4 /\ sp[t] \in Components
    BY <2>1, StopOrderFacts
  <2>3. state \in {"Stopping", "Stopped"}
    BY <2>2 DEF CockpitInv
  <2>4. (IF i = Len(StopOrder) THEN "store" ELSE StopOrder[i + 1])
          \in Components \cup {"store"}
    BY <2>2, StopOrderFacts
  <2>. QED
    BY <1>0, <2>1, <2>3, <2>4 DEF CockpitInv, TypeOK, StopPhases
<1>4. CASE StopStore(t)
  BY <1>0, <1>4 DEF StopStore, CockpitInv, TypeOK, StopPhases, AppStates
<1>. QED
  BY <1>1, <1>2, <1>3, <1>4 DEF StopStep

\* Every step keeps the invariant.
LEMMA CockpitInvStep == CockpitInv /\ [Next]_vars => CockpitInv'
<1> SUFFICES ASSUME CockpitInv, [Next]_vars PROVE CockpitInv'
  OBVIOUS
<1>0. TypeOK
  BY DEF CockpitInv
<1>1. CASE SetGlobal \/ InitFailed \/ RunMonitor \/ RunLoop \/ MainReturn
           \/ Destroyed
  BY <1>0, <1>1 DEF SetGlobal, InitFailed, RunMonitor, RunLoop, MainReturn,
                    Destroyed, SetMain, CockpitInv, TypeOK, MainPcs, Components
<1>2. CASE InitCas
  \* The exchange succeeds only from Uninitialized, when no stop() is past
  \* its compare_exchanges.
  BY <1>0, <1>2 DEF InitCas, SetMain, CockpitInv, TypeOK, MainPcs, AppStates
<1>3. CASE InitBody
  BY <1>0, <1>3 DEF InitBody, SetMain, CockpitInv, TypeOK, MainPcs, AppStates
<1>4. CASE RunCas
  BY <1>0, <1>4 DEF RunCas, SetMain, CockpitInv, TypeOK, MainPcs, AppStates
<1>5. CASE RunStart
  <2>1. PICK c \in {"transport", "webrtc", "polling"} :
            /\ mainPc = c
            /\ \/ running' = running \cup {c} /\ mainPc' = NextStart[c]
                  /\ UNCHANGED state
               \/ running' = running \ StartedBefore[c] /\ state' = "Stopped"
                  /\ mainPc' = "runReturned"
            /\ UNCHANGED <<sp, sigPc, global, hasMonitor, signals>>
    BY <1>5 DEF RunStart, SetMain
  <2>2. NextStart[c] \in MainPcs \ {"initBody"}
    BY DEF NextStart, MainPcs
  <2>3. running \cup {c} \subseteq Components /\ running \ StartedBefore[c] \subseteq Components
    BY <1>0 DEF TypeOK, Components
  <2>. QED
    BY <1>0, <2>1, <2>2, <2>3 DEF CockpitInv, TypeOK, MainPcs, AppStates
<1>6. CASE RunFinal
  BY <1>0, <1>6 DEF RunFinal, SetMain, CockpitInv, TypeOK, MainPcs, AppStates
<1>7. CASE Destructor
  BY <1>0, <1>7 DEF Destructor, SetMain, CockpitInv, TypeOK, MainPcs, StopPhases,
                   Components
<1>8. CASE StopStep(Main) \/ StopStep(Sig)
  BY <1>8, StopStepInv
<1>9. CASE Deliver
  BY <1>0, <1>9 DEF Deliver, CockpitInv, TypeOK
<1>10. CASE SignalCheck \/ SignalReturn
  BY <1>0, <1>10 DEF SignalCheck, SignalReturn, CockpitInv, TypeOK, StopPhases,
                    Components
<1>11. CASE UNCHANGED vars
  BY <1>11 DEF vars, CockpitInv, TypeOK
<1>. QED
  BY <1>1, <1>2, <1>3, <1>4, <1>5, <1>6, <1>7, <1>8, <1>9, <1>10, <1>11
     DEF Next, MainStep, SigStep

\* With the handler on the main thread, every step keeps HandlerInv.
LEMMA HandlerInvStep ==
    ASSUME SignalOnMain
    PROVE  CockpitInv /\ HandlerInv /\ [Next]_vars => HandlerInv'
<1> SUFFICES ASSUME CockpitInv, HandlerInv, [Next]_vars PROVE HandlerInv'
  OBVIOUS
<1>0. TypeOK
  BY DEF CockpitInv
<1>1. CASE MainStep
  \* main moves only while no handler runs, and then none is inside stop().
  <2>1. sigPc = "idle" /\ sp[Sig] = "idle"
    BY <1>1 DEF MainStep, MainMay, SetGlobal, InitCas, InitBody, InitFailed,
                RunCas, RunStart, RunMonitor, RunLoop, RunFinal, MainReturn,
                Destructor, Destroyed, HandlerInv
  <2>2. UNCHANGED sigPc /\ sp'[Sig] = sp[Sig]
    BY <1>0, <1>1 DEF MainStep, SetGlobal, InitCas, InitBody, InitFailed,
                RunCas, RunStart, RunMonitor, RunLoop, RunFinal, MainReturn,
                Destructor, Destroyed, StopStep, StopCas1, StopCas2,
                StopComponent, StopStore, TypeOK
  <2>3. mainPc' \in {"dtor", "dtorStop", "exited"} => ~global'
    BY <1>1 DEF MainStep, SetGlobal, InitCas, InitBody, InitFailed,
                RunCas, RunStart, RunMonitor, RunLoop, RunFinal, MainReturn,
                Destructor, Destroyed, StopStep, StopCas1, StopCas2,
                StopComponent, StopStore, SetMain, HandlerInv, NextStart
  <2>. QED
    BY <2>1, <2>2, <2>3 DEF HandlerInv
<1>2. CASE Deliver
  BY <1>2 DEF Deliver, HandlerInv
<1>3. CASE SignalCheck
  BY <1>0, <1>3 DEF SignalCheck, HandlerInv, TypeOK
<1>4. CASE StopStep(Sig)
  \* Only a handler that passed its check is inside stop().
  <2>1. sp[Sig] # "idle"
    BY <1>4 DEF StopStep, StopCas1, StopCas2, StopComponent, StopStore,
                StopOrder
  <2>2. UNCHANGED <<mainPc, sigPc, global>>
    BY <1>4 DEF StopStep, StopCas1, StopCas2, StopComponent, StopStore
  <2>. QED
    BY <2>1, <2>2 DEF HandlerInv
<1>5. CASE SignalReturn
  BY <1>5 DEF SignalReturn, HandlerInv
<1>6. CASE UNCHANGED vars
  BY <1>6 DEF vars, HandlerInv
<1>. QED
  BY <1>1, <1>2, <1>3, <1>4, <1>5, <1>6 DEF Next, SigStep

\* CockpitInv holds in every reachable state, for either placement of
\* the signal handler.
THEOREM CockpitInvariant == Spec => []CockpitInv
BY CockpitInvInit, CockpitInvStep, PTL DEF Spec

\* One step moves state_ forward, leaves it, or is init()'s reset.
LEMMA AppLifecycleStep ==
    CockpitInv /\ [Next]_vars
       => [\/ AppRank(state) <= AppRank(state')
           \/ state = "Initializing" /\ state' = "Uninitialized"]_state
<1> SUFFICES ASSUME CockpitInv, [Next]_vars, state' # state
             PROVE  \/ AppRank(state) <= AppRank(state')
                    \/ state = "Initializing" /\ state' = "Uninitialized"
  OBVIOUS
<1> USE DEF AppRank
<1>0. state \in AppStates
  BY DEF CockpitInv, TypeOK
<1>1. ASSUME NEW t \in {Main, Sig}, StopStep(t)
      PROVE  AppRank(state) <= AppRank(state')
  \* The exchanges move Running or Initialized to Stopping; the final
  \* store writes Stopped, the last state.
  BY <1>0, <1>1 DEF StopStep, StopCas1, StopCas2, StopComponent, StopStore,
                    AppStates
<1>2. CASE InitBody
  \* init()'s body runs on an Initializing app: no stop() can have
  \* changed it.
  BY <1>2 DEF InitBody, CockpitInv
<1>3. CASE InitCas \/ RunCas \/ RunStart \/ RunFinal
  BY <1>0, <1>3 DEF InitCas, RunCas, RunStart, RunFinal, SetMain, AppStates
<1>. QED
  BY <1>1, <1>2, <1>3
     DEF Next, MainStep, SigStep, vars, SetGlobal, InitFailed, RunMonitor,
         RunLoop, MainReturn, Destructor, Destroyed, Deliver, SignalCheck,
         SignalReturn

\* state_ never moves back through the lifecycle except by init()'s reset
\* on failure, whatever the order of run()'s compare_exchange, the
\* handler's stop() and run()'s plain stores, on either thread placement.
THEOREM CockpitLifecycleMonotone == Spec => AppLifecycleMonotone
BY CockpitInvariant, AppLifecycleStep, PTL DEF Spec, AppLifecycleMonotone

\* With the handler interrupting the main thread, signal_handler never
\* calls stop() on a destroyed app: main clears global_app_instance before
\* the destructor, and a handler inside stop() holds main until it returns.
THEOREM SignalOnMainNoUseAfterDestroy ==
    ASSUME SignalOnMain
    PROVE  Spec => []NoUseAfterDestroy
<1>1. Init => CockpitInv /\ HandlerInv
  BY CockpitInvInit DEF Init, HandlerInv
<1>2. CockpitInv /\ HandlerInv /\ [Next]_vars => (CockpitInv /\ HandlerInv)'
  BY CockpitInvStep, HandlerInvStep
<1>3. CockpitInv /\ HandlerInv => NoUseAfterDestroy
  BY DEF CockpitInv, TypeOK, HandlerInv, NoUseAfterDestroy
<1>. QED
  BY <1>1, <1>2, <1>3, PTL DEF Spec

\* With the handler interrupting the main thread: a handler between its
\* checks has not entered stop(); once main has cleared
\* global_app_instance for the destructor it never sees it set again; and
\* main cannot exit while the handler it is holding is inside stop().
THEOREM SignalOnMainHandlerInv ==
    ASSUME SignalOnMain
    PROVE  Spec => []HandlerInv
<1>1. Init => CockpitInv /\ HandlerInv
  BY CockpitInvInit DEF Init, HandlerInv
<1>2. CockpitInv /\ HandlerInv /\ [Next]_vars => (CockpitInv /\ HandlerInv)'
  BY CockpitInvStep, HandlerInvStep
<1>. QED
  BY <1>1, <1>2, PTL DEF Spec

=============================================================================
