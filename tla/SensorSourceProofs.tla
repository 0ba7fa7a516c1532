------------------------- MODULE SensorSourceProofs -------------------------
(***************************************************************************)
(* Proofs about SensorSource.  When calls of startUpdates and stopUpdates  *)
(* never overlap (Serial), the source never calls std::terminate and      *)
(* never joins a thread twice, for any number of callers and calls.       *)
(*                                                                         *)
(* NoFatalError is not inductive: a step of startUpdates or stopUpdates   *)
(* is safe only because of what the earlier steps of the same call       *)
(* found.  The strengthening SerialInv says that at most one call is in  *)
(* progress and what isUpdating_ and updateThread_ are at each point of  *)
(* that call: outside a call the flag is set exactly when updateThread_  *)
(* is joinable.                                                          *)
(***************************************************************************)
EXTENDS SensorSource, TLAPS

\* The types the proof needs (the counters' upper bounds are not needed).
ProofType ==
    /\ updating \in BOOLEAN
    /\ thr \in Nat
    /\ pc \in [Procs -> Pcs]
    /\ joinT \in [Procs -> Nat]
    /\ calls \in Nat
    /\ spawned \in Nat

Busy(p) == pc[p] \notin {"idle", "gone"}

\* What each point of the one call in progress knows of the flag and the
\* thread.
CallFacts(p) ==
    /\ pc[p] = "sFlag" => ~updating /\ thr = 0
    /\ pc[p] = "sSpawn" => updating /\ thr = 0
    /\ pc[p] = "xStore" => updating /\ thr # 0
    /\ pc[p] = "xJoinable" => ~updating
    /\ pc[p] = "xJoin" => ~updating /\ thr # 0 /\ joinT[p] = thr
    /\ pc[p] \in {"dFree", "gone"} => ~updating /\ thr = 0

\* The inductive invariant of startUpdates/stopUpdates called one at a time:
\* at most one call is in progress, a destroyed source has no caller, each
\* point of the call agrees with isUpdating_ and updateThread_, and outside
\* a call the flag is set exactly when updateThread_ holds a thread.
SerialInv ==
    /\ ProofType
    /\ fault = "none"
    /\ \A p, q \in Procs : Busy(p) /\ Busy(q) => p = q
    /\ pc[Owner] \notin {"sFlag", "sSpawn"}
    /\ \A c \in Callers : pc[c] \notin {"dFree", "gone"}
    /\ pc[Owner] \in {"dFree", "gone"} => \A c \in Callers : pc[c] = "idle"
    /\ \A p \in Procs : CallFacts(p)
    /\ (\A p \in Procs : pc[p] \in {"idle", "xEnter", "gone"})
          => (updating <=> thr # 0)

\* The update threads: only the thread updateThread_ holds may still be
\* running updateLoop; every other one has left it (or never started).
LoopInv ==
    /\ loop \in [Threads -> LoopPcs]
    /\ \A i \in Threads : loop[i] \in {"check", "call"} => thr = i

USE SensorAssumption

\* The strengthening holds initially.
LEMMA SerialInvInit == Init => SerialInv
<1> SUFFICES ASSUME Init PROVE SerialInv
  OBVIOUS
<1>1. ProofType
  BY DEF Init, ProofType, Procs, Pcs, StopPcs
<1>2. \A p \in Procs : pc[p] = "idle"
  BY DEF Init, Procs
<1>3. QED
  BY <1>1, <1>2 DEF Init, SerialInv, Busy, CallFacts, Procs

\* Every step keeps the strengthening, when calls never overlap.
LEMMA SerialInvStep ==
    ASSUME Serial, SerialInv, [Next]_vars
    PROVE  SerialInv'
<1> USE DEF SerialInv, ProofType, Busy, CallFacts, Procs, Pcs, StopPcs, Go
<1>1. ASSUME NEW c \in Callers, StartCall(c) PROVE SerialInv'
  BY <1>1 DEF StartCall, MayCall
<1>2. ASSUME NEW c \in Callers, StopCall(c) PROVE SerialInv'
  BY <1>2 DEF StopCall, MayCall
<1>3. CASE DtorCall
  BY <1>3 DEF DtorCall
<1>4. CASE DtorFree
  BY <1>4 DEF DtorFree
<1>0. ASSUME NEW p \in Procs, Busy(p)
      PROVE  \A q \in Procs \ {p} : pc[q] \in {"idle", "gone"}
  BY <1>0
<1>5. ASSUME NEW p \in Procs, StartSetFlag(p) PROVE SerialInv'
  <2>1. /\ pc' = [pc EXCEPT ![p] = "sSpawn"] /\ updating' /\ thr = 0
        /\ UNCHANGED <<thr, joinT, calls, spawned, fault>>
    BY <1>5 DEF StartSetFlag
  <2>2. \A q \in Procs \ {p} : pc[q] = "idle"
    BY <1>0, <1>5 DEF StartSetFlag
  <2>3. p \in Callers
    BY <1>5 DEF StartSetFlag
  <2>4. QED
    BY <2>1, <2>2, <2>3
<1>6. ASSUME NEW p \in Procs, StartSpawn(p) PROVE SerialInv'
  BY <1>6 DEF StartSpawn
<1>7. ASSUME NEW p \in Procs, StopLoad(p) PROVE SerialInv'
  <2>1. \A q \in Procs \ {p} : pc[q] \in {"idle", "gone"}
    BY <1>0, <1>7 DEF StopLoad
  <2>2. updating <=> thr # 0
    BY <2>1, <1>7 DEF StopLoad
  <2>3. UNCHANGED <<updating, thr, joinT, calls, spawned, fault>>
    BY <1>7 DEF StopLoad
  <2>4. CASE updating
    <3>1. pc' = [pc EXCEPT ![p] = "xStore"]
      BY <1>7, <2>4 DEF StopLoad
    <3>2. QED
      BY <2>1, <2>2, <2>3, <2>4, <3>1, <1>7 DEF StopLoad
  <2>5. CASE ~updating /\ p = Owner
    <3>1. pc' = [pc EXCEPT ![p] = "dFree"]
      BY <1>7, <2>5 DEF StopLoad, Ret
    <3>2. QED
      BY <2>1, <2>2, <2>3, <2>5, <3>1, <1>7 DEF StopLoad
  <2>6. CASE ~updating /\ p # Owner
    <3>1. pc' = [pc EXCEPT ![p] = "idle"]
      BY <1>7, <2>6 DEF StopLoad, Ret
    <3>2. QED
      BY <2>1, <2>2, <2>3, <2>6, <3>1, <1>7 DEF StopLoad
  <2>7. QED
    BY <2>4, <2>5, <2>6
<1>8. ASSUME NEW p \in Procs, StopStore(p) PROVE SerialInv'
  BY <1>8 DEF StopStore
<1>9. ASSUME NEW p \in Procs, StopJoinable(p) PROVE SerialInv'
  <2>1. \A q \in Procs \ {p} : pc[q] \in {"idle", "gone"}
    BY <1>0, <1>9 DEF StopJoinable
  <2>2. ~updating /\ UNCHANGED <<updating, thr, calls, spawned, fault>>
    BY <1>9 DEF StopJoinable
  <2>3. joinT' = [joinT EXCEPT ![p] = thr]
    BY <1>9 DEF StopJoinable
  <2>4. CASE thr # 0
    <3>1. pc' = [pc EXCEPT ![p] = "xJoin"]
      BY <1>9, <2>4 DEF StopJoinable
    <3>2. QED
      BY <2>1, <2>2, <2>3, <2>4, <3>1, <1>9 DEF StopJoinable
  <2>5. CASE thr = 0 /\ p = Owner
    <3>1. pc' = [pc EXCEPT ![p] = "dFree"]
      BY <1>9, <2>5 DEF StopJoinable, Ret
    <3>2. QED
      BY <2>1, <2>2, <2>3, <2>5, <3>1, <1>9 DEF StopJoinable
  <2>6. CASE thr = 0 /\ p # Owner
    <3>1. pc' = [pc EXCEPT ![p] = "idle"]
      BY <1>9, <2>6 DEF StopJoinable, Ret
    <3>2. QED
      BY <2>1, <2>2, <2>3, <2>6, <3>1, <1>9 DEF StopJoinable
  <2>7. QED
    BY <2>4, <2>5, <2>6
<1>10. ASSUME NEW p \in Procs, StopJoin(p) PROVE SerialInv'
  BY <1>10 DEF StopJoin, Ret
<1>11. ASSUME NEW i \in Threads, LoopStep(i) PROVE SerialInv'
  BY <1>11 DEF LoopStep, LoopCheck, LoopCall
<1>12. CASE UNCHANGED vars
  BY <1>12 DEF vars
<1>13. QED
  BY <1>1, <1>2, <1>3, <1>4, <1>5, <1>6, <1>7, <1>8, <1>9, <1>10, <1>11,
     <1>12 DEF Next, CallStep

\* When startUpdates and stopUpdates are never called concurrently (all
\* calls from one thread, as the vehicle app would need), no sequence of
\* calls and destruction makes the source call std::terminate or join a
\* thread twice: NoFatalError holds for every number of callers and calls.
THEOREM SerialNoFatalError ==
    ASSUME Serial
    PROVE  Spec => []NoFatalError
<1>1. SerialInv /\ [Next]_vars => SerialInv'
  BY SerialInvStep
<1>2. SerialInv => NoFatalError
  BY DEF SerialInv, NoFatalError
<1>3. QED
  BY <1>1, <1>2, SerialInvInit, PTL DEF Spec

\* SerialInv holds in every reachable state when calls never overlap.
THEOREM SerialInvariant ==
    ASSUME Serial
    PROVE  Spec => []SerialInv
BY SerialInvInit, SerialInvStep, PTL DEF Spec

LEMMA LoopInvInit == Init => LoopInv
BY DEF Init, LoopInv, LoopPcs

\* Every step keeps LoopInv: a thread is spawned only into an empty
\* updateThread_, and updateThread_ is emptied only once its thread is done.
LEMMA LoopInvStep ==
    ASSUME Serial, SerialInv, LoopInv, [Next]_vars
    PROVE  LoopInv'
<1>1. CASE \E c \in Callers : StartCall(c) \/ StopCall(c)
  BY <1>1 DEF StartCall, StopCall, LoopInv
<1>2. CASE DtorCall \/ DtorFree
  BY <1>2 DEF DtorCall, DtorFree, LoopInv
<1>3. ASSUME NEW p \in Procs,
             StartSetFlag(p) \/ StopLoad(p) \/ StopStore(p) \/ StopJoinable(p)
      PROVE  LoopInv'
  BY <1>3 DEF StartSetFlag, StopLoad, StopStore, StopJoinable, LoopInv
<1>4. ASSUME NEW p \in Procs, StartSpawn(p) PROVE LoopInv'
  \* updateThread_ is empty here, so no update thread is running.
  <2>1. thr = 0
    BY <1>4 DEF StartSpawn, SerialInv, CallFacts
  <2>2. /\ thr' = spawned + 1
        /\ loop' = [loop EXCEPT ![spawned + 1] = "check"]
    BY <1>4, <2>1 DEF StartSpawn
  <2>3. \A i \in Threads : loop[i] \in {"none", "done"}
    BY <2>1 DEF LoopInv, LoopPcs, Threads
  <2>. QED
    BY <2>2, <2>3 DEF LoopInv, LoopPcs
<1>5. ASSUME NEW p \in Procs, StopJoin(p) PROVE LoopInv'
  \* The joined thread is the one updateThread_ holds, and it is done.
  <2>1. thr = joinT[p] /\ loop[joinT[p]] = "done"
    BY <1>5 DEF StopJoin, SerialInv, CallFacts
  <2>2. thr' = 0 /\ UNCHANGED loop
    BY <1>5, <2>1 DEF StopJoin
  <2>. QED
    BY <2>1, <2>2 DEF LoopInv
<1>6. ASSUME NEW i \in Threads, LoopStep(i) PROVE LoopInv'
  BY <1>6 DEF LoopStep, LoopCheck, LoopCall, LoopInv, LoopPcs
<1>7. CASE UNCHANGED vars
  BY <1>7 DEF vars, LoopInv
<1>. QED
  BY <1>1, <1>2, <1>3, <1>4, <1>5, <1>6, <1>7 DEF Next, CallStep

\* With updateThread_ empty, no update thread is running.
LEMMA NoLoopRunning ==
    ASSUME LoopInv, thr = 0
    PROVE  \A i \in Threads : loop[i] \in {"none", "done"}
BY DEF LoopInv, LoopPcs, Threads

\* The step relation of StopQuiescent.
Quiescent ==
    \A p \in Procs :
       (pc[p] \in StopPcs /\ pc'[p] \notin StopPcs)
          => \A i \in Threads : loop'[i] \in {"none", "done"}

\* A step that ends a stopUpdates call leaves no update thread running.
LEMMA QuiescentStep ==
    ASSUME Serial, SerialInv, LoopInv, [Next]_vars
    PROVE  [Quiescent]_vars
<1> USE DEF SerialInv, ProofType
<1>1. CASE \E c \in Callers : StartCall(c) \/ StopCall(c)
  BY <1>1 DEF StartCall, StopCall, MayCall, Go, Quiescent, StopPcs
<1>2. CASE DtorCall \/ DtorFree
  BY <1>2 DEF DtorCall, DtorFree, Go, Quiescent, StopPcs
<1>3. ASSUME NEW p \in Procs,
             StartSetFlag(p) \/ StartSpawn(p) \/ StopStore(p)
      PROVE  [Quiescent]_vars
  \* The call goes on: it neither leaves stopUpdates nor moves a loop
  \* thread other than the one it spawns.
  BY <1>3 DEF StartSetFlag, StartSpawn, StopStore, Go, Quiescent, StopPcs
<1>4. ASSUME NEW p \in Procs, StopLoad(p) PROVE [Quiescent]_vars
  <2>1. \A q \in Procs \ {p} : pc[q] \in {"idle", "gone"} /\ pc'[q] = pc[q]
    BY <1>4 DEF StopLoad, Go, Busy, Procs, Pcs
  <2>2. CASE updating
    BY <1>4, <2>1, <2>2 DEF StopLoad, Go, Quiescent, StopPcs
  <2>3. CASE ~updating
    \* Outside every other call, a clear flag means updateThread_ is empty.
    <3>1. thr = 0
      BY <1>4, <2>1, <2>3 DEF StopLoad, Procs
    <3>. QED
      BY <1>4, <2>1, <3>1, NoLoopRunning DEF StopLoad, Go, Quiescent
  <2>. QED
    BY <2>2, <2>3
<1>5. ASSUME NEW p \in Procs, StopJoinable(p) PROVE [Quiescent]_vars
  <2>1. \A q \in Procs \ {p} : pc'[q] = pc[q]
    BY <1>5 DEF StopJoinable, Go
  <2>2. CASE thr = 0
    BY <1>5, <2>1, <2>2, NoLoopRunning DEF StopJoinable, Quiescent
  <2>3. CASE thr # 0
    BY <1>5, <2>1, <2>3 DEF StopJoinable, Go, Quiescent, StopPcs
  <2>. QED
    BY <2>2, <2>3
<1>6. ASSUME NEW p \in Procs, StopJoin(p) PROVE [Quiescent]_vars
  \* The joined thread is the only one that could run, and it is done.
  <2>1. thr = joinT[p] /\ loop[joinT[p]] = "done"
    BY <1>6 DEF StopJoin, CallFacts
  <2>2. \A i \in Threads : loop[i] \in {"none", "done"}
    BY <2>1 DEF LoopInv, LoopPcs
  <2>3. UNCHANGED loop /\ \A q \in Procs \ {p} : pc'[q] = pc[q]
    BY <1>6 DEF StopJoin, Go
  <2>. QED
    BY <2>2, <2>3 DEF Quiescent
<1>7. ASSUME NEW i \in Threads, LoopStep(i) PROVE [Quiescent]_vars
  BY <1>7 DEF LoopStep, LoopCheck, LoopCall, Quiescent
<1>8. CASE UNCHANGED vars
  BY <1>8
<1>. QED
  BY <1>1, <1>2, <1>3, <1>4, <1>5, <1>6, <1>7, <1>8 DEF Next, CallStep

\* When calls never overlap, a stopUpdates call, the destructor's
\* included, returns only after every update thread has left updateLoop:
\* no handler call follows it (the IChassisSource contract).
THEOREM SerialStopQuiescent ==
    ASSUME Serial
    PROVE  Spec => StopQuiescent
<1>1. Init => SerialInv /\ LoopInv
  BY SerialInvInit, LoopInvInit
<1>2. SerialInv /\ LoopInv /\ [Next]_vars => (SerialInv /\ LoopInv)'
  BY SerialInvStep, LoopInvStep
<1>3. SerialInv /\ LoopInv /\ [Next]_vars => [Quiescent]_vars
  BY QuiescentStep
<1>. QED
  BY <1>1, <1>2, <1>3, PTL DEF Spec, StopQuiescent, Quiescent

\* When calls never overlap, only the thread in updateThread_ can be in
\* updateLoop before its isUpdating_ check or its handler call: a spawned
\* thread is always joined before updateThread_ is replaced or cleared.
THEOREM SerialLoopInvariant ==
    ASSUME Serial
    PROVE  Spec => []LoopInv
<1>1. Init => SerialInv /\ LoopInv
  BY SerialInvInit, LoopInvInit
<1>2. SerialInv /\ LoopInv /\ [Next]_vars => (SerialInv /\ LoopInv)'
  BY SerialInvStep, LoopInvStep
<1>. QED
  BY <1>1, <1>2, PTL DEF Spec

=============================================================================
