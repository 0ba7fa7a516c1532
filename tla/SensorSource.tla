---------------------------- MODULE SensorSource ----------------------------
(***************************************************************************)
(* The start/stop protocol of the vehicle's sensor sources:               *)
(* CanBusChassisSource (src/unnamed/part_005) and V4L2CameraSource        *)
(* (src/unnamed/part_006, the same code with isCapturing_/captureThread_). *)
(*                                                                         *)
(*   isUpdating_      an std::atomic<bool>               -> updating       *)
(*   updateThread_    an std::thread, 0 = not joinable    -> thr           *)
(*   updateLoop()     one thread per successful start     -> loop[i]       *)
(*                                                                         *)
(* Callers call startUpdates and stopUpdates; Owner runs the destructor,   *)
(* which calls stopUpdates and then destroys updateThread_.  Every read or *)
(* write of isUpdating_ and of updateThread_ is a step of its own.  With   *)
(* Serial, a call starts only when no other call is in progress (all      *)
(* calls made from one thread); without it, calls of different callers    *)
(* interleave, as when startUpdates runs in a WebRTC callback and          *)
(* stopUpdates in VehicleClientApp::stop.  The handler, its argument and   *)
(* the sleep are abstracted: a loop thread at "call" is inside the        *)
(* handler.  A std::terminate ends the process: fault is set and nothing  *)
(* moves afterwards.                                                       *)
(***************************************************************************)
EXTENDS Naturals

CONSTANTS
    Callers,    \* the threads that call startUpdates / stopUpdates
    Owner,      \* the thread that destroys the source
    Serial,     \* TRUE: calls never overlap
    MaxCalls    \* bound on the number of calls

ASSUME SensorAssumption ==
    /\ Owner \notin Callers
    /\ Serial \in BOOLEAN
    /\ MaxCalls \in Nat

VARIABLES
    updating,   \* isUpdating_
    thr,        \* the loop thread held by updateThread_, 0 if not joinable
    loop,       \* loop[i]: the state of the i-th update thread created
    pc,         \* pc[p]: where thread p is in its current call
    joinT,      \* joinT[p]: the thread p is joining
    calls,      \* calls made so far (bounded by MaxCalls)
    spawned,    \* update threads created so far
    fault       \* "none", or why the process died

vars == <<updating, thr, loop, pc, joinT, calls, spawned, fault>>

Procs == Callers \cup {Owner}
Threads == 1..MaxCalls
LoopPcs == {"none", "check", "call", "done"}
StopPcs == {"xEnter", "xStore", "xJoinable", "xJoin"}
Pcs == {"idle", "sFlag", "sSpawn", "dFree", "gone"} \cup StopPcs

TypeOK ==
    /\ updating \in BOOLEAN
    /\ thr \in 0..MaxCalls
    /\ loop \in [Threads -> LoopPcs]
    /\ pc \in [Procs -> Pcs]
    /\ joinT \in [Procs -> 0..MaxCalls]
    /\ calls \in 0..MaxCalls
    /\ spawned \in 0..MaxCalls
    /\ fault \in {"none", "terminate", "joinRace"}

Init ==
    /\ updating = FALSE
    /\ thr = 0
    /\ loop = [i \in Threads |-> "none"]
    /\ pc = [p \in Procs |-> "idle"]
    /\ joinT = [p \in Procs |-> 0]
    /\ calls = 0
    /\ spawned = 0
    /\ fault = "none"

\* Where a stopUpdates call of p returns to: the caller's idle state, or
\* the rest of the destructor.
Ret(p) == IF p = Owner THEN "dFree" ELSE "idle"

\* A call may begin: the process is alive, the object is not being
\* destroyed, and under Serial no other call is in progress.
MayCall(c) ==
    /\ fault = "none"
    /\ pc[c] = "idle"
    /\ pc[Owner] = "idle"
    /\ calls < MaxCalls
    /\ Serial => \A q \in Procs : pc[q] = "idle"

Go(p, to) == pc' = [pc EXCEPT ![p] = to]

(* ---------------------- startUpdates(handler) ------------------------- *)

\* Mutant: the isUpdating_ test of line 49 dropped.
StartNoActiveCheck(c) ==
    /\ MayCall(c)
    /\ \E handler \in BOOLEAN : Go(c, IF handler THEN "sFlag" ELSE "idle")
    /\ calls' = calls + 1
    /\ UNCHANGED <<updating, thr, loop, joinT, spawned, fault>>

\* Lines 43-52: an empty handler returns false; otherwise isUpdating_ is
\* loaded and, when set, the call returns true.
StartCall(c) ==
    /\ MayCall(c)
    /\ \E handler \in BOOLEAN :
          Go(c, IF handler /\ ~updating THEN "sFlag" ELSE "idle")
    /\ calls' = calls + 1
    /\ UNCHANGED <<updating, thr, loop, joinT, spawned, fault>>

\* Lines 55-56: the handler is stored and isUpdating_ set.
StartSetFlag(c) ==
    /\ fault = "none"
    /\ pc[c] = "sFlag"
    /\ updating' = TRUE
    /\ Go(c, "sSpawn")
    /\ UNCHANGED <<thr, loop, joinT, calls, spawned, fault>>

\* Line 59: a new thread runs updateLoop and is move-assigned to
\* updateThread_; assigning to a joinable std::thread calls std::terminate.
StartSpawn(c) ==
    /\ fault = "none"
    /\ pc[c] = "sSpawn"
    /\ spawned' = spawned + 1
    /\ loop' = [loop EXCEPT ![spawned + 1] = "check"]
    /\ IF thr = 0
         THEN thr' = spawned + 1 /\ UNCHANGED fault
         ELSE fault' = "terminate" /\ UNCHANGED thr
    /\ Go(c, "idle")
    /\ UNCHANGED <<updating, joinT, calls>>

(* --------------------------- stopUpdates() ---------------------------- *)

StopCall(c) ==
    /\ MayCall(c)
    /\ Go(c, "xEnter")
    /\ calls' = calls + 1
    /\ UNCHANGED <<updating, thr, loop, joinT, spawned, fault>>

\* Line 65: isUpdating_ is loaded; when clear the call returns.
StopLoad(p) ==
    /\ fault = "none"
    /\ pc[p] = "xEnter"
    /\ Go(p, IF updating THEN "xStore" ELSE Ret(p))
    /\ UNCHANGED <<updating, thr, loop, joinT, calls, spawned, fault>>

\* Mutant: stopUpdates forgets to clear isUpdating_.
StopStoreKeepsFlag(p) ==
    /\ fault = "none"
    /\ pc[p] = "xStore"
    /\ Go(p, "xJoinable")
    /\ UNCHANGED <<updating, thr, loop, joinT, calls, spawned, fault>>

\* Line 68: isUpdating_ is cleared.
StopStore(p) ==
    /\ fault = "none"
    /\ pc[p] = "xStore"
    /\ updating' = FALSE
    /\ Go(p, "xJoinable")
    /\ UNCHANGED <<thr, loop, joinT, calls, spawned, fault>>

\* Mutant: stopUpdates returns without joining the update thread.
StopJoinableNoJoin(p) ==
    /\ fault = "none"
    /\ pc[p] = "xJoinable"
    /\ Go(p, Ret(p))
    /\ UNCHANGED <<updating, thr, loop, joinT, calls, spawned, fault>>

\* Line 69: updateThread_.joinable(); when not, the call returns.
StopJoinable(p) ==
    /\ fault = "none"
    /\ pc[p] = "xJoinable"
    /\ Go(p, IF thr = 0 THEN Ret(p) ELSE "xJoin")
    /\ joinT' = [joinT EXCEPT ![p] = thr]
    /\ UNCHANGED <<updating, thr, loop, calls, spawned, fault>>

\* Mutant: the update thread detached rather than joined; the call
\* returns without waiting for updateLoop to end.
StopJoinDetach(p) ==
    /\ fault = "none"
    /\ pc[p] = "xJoin"
    /\ IF thr = joinT[p]
         THEN thr' = 0 /\ UNCHANGED fault
         ELSE fault' = "joinRace" /\ UNCHANGED thr
    /\ Go(p, Ret(p))
    /\ UNCHANGED <<updating, loop, joinT, calls, spawned>>

\* Line 70: join() returns once the thread has left updateLoop, and leaves
\* updateThread_ not joinable.  A thread that another call has joined
\* meanwhile is joined twice, a data race on updateThread_.
StopJoin(p) ==
    /\ fault = "none"
    /\ pc[p] = "xJoin"
    /\ loop[joinT[p]] = "done"
    /\ IF thr = joinT[p]
         THEN thr' = 0 /\ UNCHANGED fault
         ELSE fault' = "joinRace" /\ UNCHANGED thr
    /\ Go(p, Ret(p))
    /\ UNCHANGED <<updating, loop, joinT, calls, spawned>>

(* ------------------------ ~CanBusChassisSource ------------------------ *)

\* Lines 25-26: once no call is in progress the owner destroys the source,
\* which begins with stopUpdates().
DtorCall ==
    /\ fault = "none"
    /\ pc[Owner] = "idle"
    /\ \A c \in Callers : pc[c] = "idle"
    /\ Go(Owner, "xEnter")
    /\ UNCHANGED <<updating, thr, loop, joinT, calls, spawned, fault>>

\* Lines 27-28: the members are destroyed; destroying a joinable
\* std::thread calls std::terminate.
DtorFree ==
    /\ fault = "none"
    /\ pc[Owner] = "dFree"
    /\ Go(Owner, "gone")
    /\ fault' = IF thr = 0 THEN "none" ELSE "terminate"
    /\ UNCHANGED <<updating, thr, loop, joinT, calls, spawned>>

(* ---------------------------- updateLoop() ---------------------------- *)

\* Line 104: while (isUpdating_); the loop ends when the flag is clear.
LoopCheck(i) ==
    /\ fault = "none"
    /\ loop[i] = "check"
    /\ loop' = [loop EXCEPT ![i] = IF updating THEN "call" ELSE "done"]
    /\ UNCHANGED <<updating, thr, pc, joinT, calls, spawned, fault>>

\* Mutant: the loop goes on calling the handler without testing the flag.
LoopCallNoRecheck(i) ==
    /\ fault = "none"
    /\ loop[i] = "call"
    /\ loop' = [loop EXCEPT ![i] = "call"]
    /\ UNCHANGED <<updating, thr, pc, joinT, calls, spawned, fault>>

\* Lines 105-119: the handler is called with the new state, then the
\* thread sleeps and tests the flag again.
LoopCall(i) ==
    /\ fault = "none"
    /\ loop[i] = "call"
    /\ loop' = [loop EXCEPT ![i] = "check"]
    /\ UNCHANGED <<updating, thr, pc, joinT, calls, spawned, fault>>

(* ---------------------------------------------------------------------- *)

\* The steps a thread takes inside a call it has begun.
CallStep(p) ==
    \/ StartSetFlag(p) \/ StartSpawn(p)
    \/ StopLoad(p) \/ StopStore(p) \/ StopJoinable(p) \/ StopJoin(p)

LoopStep(i) == LoopCheck(i) \/ LoopCall(i)

Next ==
    \/ \E c \in Callers : StartCall(c) \/ StopCall(c)
    \/ DtorCall \/ DtorFree
    \/ \E p \in Procs : CallStep(p)
    \/ \E i \in Threads : LoopStep(i)

\* A thread inside a call, and an update thread, keep being scheduled;
\* nobody is obliged to make a call.
Fairness ==
    /\ \A p \in Procs : WF_vars(CallStep(p))
    /\ WF_vars(DtorFree)
    /\ \A i \in Threads : WF_vars(LoopStep(i))

Spec == Init /\ [][Next]_vars /\ Fairness

(* ----------------------------- Properties ----------------------------- *)

\* The source never kills the process: startUpdates never move-assigns a
\* thread to a still joinable updateThread_, the destructor never destroys
\* a joinable one, and no thread is joined by two stopUpdates calls.
NoFatalError == fault = "none"

\* The contract of IChassisSource (part_004 lines 28-31, 51-53): when a
\* stopUpdates call returns, no update thread is still running, so no
\* handler call can follow it.
StopQuiescent ==
    [][\A p \in Procs :
         (pc[p] \in StopPcs /\ pc'[p] \notin StopPcs)
            => \A i \in Threads : loop'[i] \in {"none", "done"}]_vars

\* stopUpdates blocks in join() only until the update loop notices the
\* cleared flag: every stopUpdates call, the destructor's included,
\* returns.
StopReturns == \A p \in Procs : pc[p] \in StopPcs ~> pc[p] \notin StopPcs

=============================================================================
