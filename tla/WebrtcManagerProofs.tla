------------------------- MODULE WebrtcManagerProofs -------------------------
(***************************************************************************)
(* Proofs about WebrtcManager: type correctness, the empty index of a      *)
(* stopped manager, and the forward-only lifecycle of state_, for any      *)
(* number of application threads, peers and handler slots.                 *)
(*                                                                         *)
(* None of the three is inductive as it stands.  The locked halves of     *)
(* init(), start() and stop() run after their compare_exchange, with       *)
(* mutex_ free in between, so the proof has to know what state_ is while   *)
(* a thread is between the two halves.  ManagerInv records it:            *)
(*   - a thread inside init() sees Initializing, one inside stop() (before *)
(*     or after its locked section) sees Stopping: no other exchange can  *)
(*     leave those states;                                                 *)
(*   - the signaling client exists from the end of init() on, and in       *)
(*     particular whenever a start() is pending, so start()'s "no client"  *)
(*     branch, which stores Stopped without erasing the index, is never   *)
(*     taken;                                                              *)
(*   - the index is empty from stop()'s locked section on, and             *)
(*     connectToPeer inserts only while Running.                          *)
(***************************************************************************)
EXTENDS WebrtcManager, TLAPS

\* What the WebRTC thread carries into its handler: a peer, and for a
\* local description its type.
RtcShape ==
    pc[Rtc].op \in RtcOps \cup {"relock"}
        => /\ pc[Rtc].peer \in Peers
           /\ pc[Rtc].op = "sdp" => pc[Rtc].arg \in {"offer", "answer"}

\* The inductive invariant of the manager: the type, the WebRTC thread's
\* event, and what each half-done lifecycle call knows of state_, of the
\* signaling client and of the index.
ManagerInv ==
    /\ TypeOK
    /\ RtcShape
    /\ \A t \in Callers : pc[t].op \notin {"relock"} \cup SigOps \cup RtcOps
    /\ state \notin {"Uninitialized", "Initializing"} => sigClient
    /\ \A t \in Callers : pc[t].op = "setHandler" => pc[t].arg \in Handlers
    /\ \A t \in Threads : pc[t].op \in {"join", "relock"} => owner = t
    /\ \A t \in Callers :
          pc[t].op = "start" => sigClient /\ state \in {"Running", "Stopping", "Stopped"}
    /\ \A t, u \in Callers :
          pc[t].op \in {"init", "stop", "join"} /\ pc[u].op \in {"init", "stop", "join"}
             => t = u
    /\ \A t \in Callers : pc[t].op = "init" => state = "Initializing"
    /\ \A t \in Callers : pc[t].op \in {"stop", "join"} => state = "Stopping"
    /\ (state = "Stopped" \/ \E t \in Callers : pc[t].op = "join")
          => \A p \in Peers : pcs[p] = "none"

USE ManagerAssumption

\* The thread states written by the actions.
LEMMA CallTyped ==
    ASSUME NEW o \in {"idle", "relock"} \cup CallerOps \cup SigOps \cup RtcOps,
           NEW p \in Peers \cup {NoPeer}, NEW a \in Args
    PROVE  /\ Call(o, p, a) \in ThreadState
           /\ Call(o, p, a).op = o /\ Call(o, p, a).peer = p
           /\ Call(o, p, a).arg = a
BY DEF Call, ThreadState

LEMMA IdleTyped == Idle \in ThreadState /\ Idle.op = "idle"
BY DEF Idle, Call, ThreadState, Args

\* Updating one thread's state.
LEMMA PcExcept ==
    ASSUME NEW f \in [Threads -> ThreadState], NEW t \in Threads,
           NEW s \in ThreadState
    PROVE  /\ [f EXCEPT ![t] = s] \in [Threads -> ThreadState]
           /\ [f EXCEPT ![t] = s][t] = s
           /\ \A u \in Threads \ {t} : [f EXCEPT ![t] = s][u] = f[u]
OBVIOUS

\* The invariant holds initially.
LEMMA ManagerInvInit == Init => ManagerInv
<1> SUFFICES ASSUME Init PROVE ManagerInv
  OBVIOUS
<1>1. \A t \in Threads : pc[t] = Idle
  BY DEF Init
<1>2. TypeOK
  BY <1>1, IdleTyped DEF Init, TypeOK, AppStates, PcStates
<1>3. QED
  BY <1>1, <1>2, IdleTyped DEF Init, ManagerInv, RtcShape, Threads, RtcOps, SigOps

\* A step that sets thread t to s and leaves the others.
PcSet(t, s) ==
    /\ pc' \in [Threads -> ThreadState]
    /\ pc'[t] = s
    /\ \A u \in Threads \ {t} : pc'[u] = pc[u]

LEMMA PcSetFact ==
    ASSUME TypeOK, NEW t \in Threads, NEW s \in ThreadState,
           pc' = [pc EXCEPT ![t] = s]
    PROVE  PcSet(t, s)
BY PcExcept DEF TypeOK, PcSet

\* The state a thread keeps while it blocks re-locking mutex_.
LEMMA RelockTyped ==
    ASSUME NEW r \in ThreadState
    PROVE  /\ Call("relock", r.peer, r.arg) \in ThreadState
           /\ Call("relock", r.peer, r.arg).op = "relock"
           /\ Call("relock", r.peer, r.arg).peer = r.peer
BY DEF Call, ThreadState

LEMMA InvokeFact ==
    ASSUME TypeOK, NEW t \in Threads, invokeCallback(t)
    PROVE  /\ PcSet(t, Call("relock", pc[t].peer, pc[t].arg))
           /\ pc'[t].op = "relock" /\ pc'[t].peer = pc[t].peer
           /\ owner' = t
<1>1. pc[t] \in ThreadState
  BY DEF TypeOK
<1>2. pc' = [pc EXCEPT ![t] = Call("relock", pc[t].peer, pc[t].arg)]
  BY DEF invokeCallback
<1>. QED
  BY <1>1, <1>2, RelockTyped, PcSetFact DEF invokeCallback, PcSet

\* While mutex_ is free no thread is joining or blocked re-locking it.
LEMMA FreeUnblocked ==
    ASSUME ManagerInv, Free
    PROVE  \A u \in Threads : pc[u].op \notin {"join", "relock"}
BY DEF ManagerInv, Free, Threads

\* signalFrame either writes a well-formed frame and returns, or blocks
\* in handleSignalingError re-locking mutex_.
LEMMA SignalFrameFact ==
    ASSUME TypeOK, NEW f \in Frame, signalFrame(f)
    PROVE  /\ \/ PcSet(Rtc, Idle) /\ owner' = owner
              \/ PcSet(Rtc, Call("relock", pc[Rtc].peer, pc[Rtc].arg)) /\ owner' = Rtc
           /\ out' \subseteq Frame
<1>1. CASE sigClient /\ link = "open"
  <2>1. out' = out \cup {f} /\ pc' = [pc EXCEPT ![Rtc] = Idle] /\ owner' = owner
    BY <1>1 DEF signalFrame, sendSignal, Done
  <2>. QED
    BY <2>1, IdleTyped, PcSetFact DEF TypeOK, Threads
<1>2. CASE ~(sigClient /\ link = "open")
  <2>1. invokeCallback(Rtc) /\ out' = out
    BY <1>2 DEF signalFrame, sendSignal
  <2>. QED
    BY <2>1, InvokeFact DEF TypeOK, Threads
<1>. QED
  BY <1>1, <1>2

\* A handler of the WebRTC thread, run under mutex_, either returns or
\* blocks re-locking it; it may send a frame and erase its connection.
LEMMA RtcHandlerInv ==
    ASSUME ManagerInv, Free, pc[Rtc].op \in RtcOps,
           \/ PcSet(Rtc, Idle) /\ owner' = owner
           \/ PcSet(Rtc, Call("relock", pc[Rtc].peer, pc[Rtc].arg)) /\ owner' = Rtc,
           pcs' \in [Peers -> PcStates],
           \A p \in Peers : pcs[p] = "none" => pcs'[p] = "none",
           out' \subseteq Frame,
           UNCHANGED <<state, registered, sigClient, isRunning, link, asio>>
    PROVE  ManagerInv'
<1>1. \A u \in Threads : pc[u].op \notin {"join", "relock"}
  BY FreeUnblocked
<1>2. pc[Rtc] \in ThreadState /\ pc[Rtc].peer \in Peers
  BY DEF ManagerInv, TypeOK, RtcShape, Threads
<1>3. /\ Call("relock", pc[Rtc].peer, pc[Rtc].arg) \in ThreadState
      /\ Call("relock", pc[Rtc].peer, pc[Rtc].arg).op = "relock"
      /\ Call("relock", pc[Rtc].peer, pc[Rtc].arg).peer = pc[Rtc].peer
  BY <1>2, RelockTyped
<1>4. \A u \in Callers : pc'[u] = pc[u]
  BY DEF PcSet, Threads
<1>5. pc' \in [Threads -> ThreadState] /\ pc'[Rtc].op \in {"idle", "relock"}
      /\ (pc'[Rtc].op = "relock" => owner' = Rtc /\ pc'[Rtc].peer \in Peers)
  BY <1>2, <1>3, IdleTyped DEF PcSet
<1>6. owner' \in Threads \cup {NoOwner} /\ (owner' # owner => owner' = Rtc)
  BY DEF ManagerInv, TypeOK, Threads
<1>. QED
  BY <1>1, <1>4, <1>5, <1>6
     DEF ManagerInv, TypeOK, RtcShape, PcSet, Threads, Free, SigOps, RtcOps

\* Every step keeps the invariant.
LEMMA ManagerInvStep == ManagerInv /\ [Next]_vars => ManagerInv'
<1> SUFFICES ASSUME ManagerInv, [Next]_vars PROVE ManagerInv'
  OBVIOUS
<1>0. TypeOK
  BY DEF ManagerInv
<1> DEFINE Inv == ManagerInv
<1> USE DEF Inv, Threads
<1>1. ASSUME NEW t \in Callers, InitCas(t) PROVE ManagerInv'
  <2>1. /\ state = "Uninitialized" /\ state' = "Initializing"
        /\ pc' = [pc EXCEPT ![t] = Call("init", NoPeer, "none")]
        /\ UNCHANGED <<owner, pcs, registered, sigClient, isRunning, link, asio, out>>
    BY <1>1 DEF InitCas
  <2>2. PcSet(t, Call("init", NoPeer, "none")) /\ pc'[t].op = "init"
    <3>1. Call("init", NoPeer, "none") \in ThreadState
          /\ Call("init", NoPeer, "none").op = "init"
      BY CallTyped DEF CallerOps, Args
    <3>2. PcSet(t, Call("init", NoPeer, "none"))
      BY <2>1, <1>0, <3>1, PcSetFact
    <3>. QED
      BY <3>1, <3>2 DEF PcSet
  <2>. QED
    BY <2>1, <2>2 DEF ManagerInv, TypeOK, RtcShape, PcSet, AppStates, SigOps, RtcOps
<1>2. ASSUME NEW t \in Callers, InitLocked(t) PROVE ManagerInv'
  <2>1. /\ pc[t].op = "init" /\ sigClient' /\ state' = "Initialized"
        /\ pc' = [pc EXCEPT ![t] = Idle]
        /\ UNCHANGED <<owner, pcs, registered, isRunning, link, asio, out>>
    BY <1>2 DEF InitLocked, Waiting, Done
  <2>2. PcSet(t, Idle) /\ pc'[t].op = "idle"
    BY <2>1, <1>0, PcSetFact, IdleTyped DEF PcSet
  <2>3. state = "Initializing"
    BY <2>1 DEF ManagerInv
  <2>. QED
    BY <2>1, <2>2, <2>3 DEF ManagerInv, TypeOK, RtcShape, PcSet, AppStates, SigOps, RtcOps
<1>3. ASSUME NEW t \in Callers, StartCas(t) PROVE ManagerInv'
  <2>1. /\ state = "Initialized" /\ state' = "Running"
        /\ pc' = [pc EXCEPT ![t] = Call("start", NoPeer, "none")]
        /\ UNCHANGED <<owner, pcs, registered, sigClient, isRunning, link, asio, out>>
    BY <1>3 DEF StartCas
  <2>2. PcSet(t, Call("start", NoPeer, "none")) /\ pc'[t].op = "start"
    <3>1. Call("start", NoPeer, "none") \in ThreadState
          /\ Call("start", NoPeer, "none").op = "start"
      BY CallTyped DEF CallerOps, Args
    <3>2. PcSet(t, Call("start", NoPeer, "none"))
      BY <2>1, <1>0, <3>1, PcSetFact
    <3>. QED
      BY <3>1, <3>2 DEF PcSet
  <2>. QED
    BY <2>1, <2>2 DEF ManagerInv, TypeOK, RtcShape, PcSet, AppStates, SigOps, RtcOps
<1>4. ASSUME NEW t \in Callers, StartLocked(t) PROVE ManagerInv'
  <2>1. /\ pc[t].op = "start" /\ Free
        /\ UNCHANGED <<pcs, registered, sigClient, out, state, owner>>
        /\ pc' = [pc EXCEPT ![t] = Idle]
        /\ isRunning' \in BOOLEAN /\ asio' \in BOOLEAN
        /\ link' \in {"none", "connecting", "open", "closed"}
    <3>1. sigClient
      BY <1>4 DEF StartLocked, Waiting, ManagerInv
    <3>. QED
      BY <1>4, <3>1, <1>0 DEF StartLocked, Waiting, connect, Done, TypeOK
  <2>2. PcSet(t, Idle) /\ pc'[t].op = "idle"
    BY <2>1, <1>0, PcSetFact, IdleTyped DEF PcSet
  <2>. QED
    BY <2>1, <2>2 DEF ManagerInv, TypeOK, RtcShape, PcSet, AppStates, SigOps, RtcOps
<1>5. ASSUME NEW t \in Callers, StopCas(t) PROVE ManagerInv'
  <2>1. /\ state \in {"Running", "Initialized"} /\ state' = "Stopping"
        /\ pc' = [pc EXCEPT ![t] = Call("stop", NoPeer, "none")]
        /\ UNCHANGED <<owner, pcs, registered, sigClient, isRunning, link, asio, out>>
    BY <1>5 DEF StopCas
  <2>2. PcSet(t, Call("stop", NoPeer, "none")) /\ pc'[t].op = "stop"
    <3>1. Call("stop", NoPeer, "none") \in ThreadState
          /\ Call("stop", NoPeer, "none").op = "stop"
      BY CallTyped DEF CallerOps, Args
    <3>2. PcSet(t, Call("stop", NoPeer, "none"))
      BY <2>1, <1>0, <3>1, PcSetFact
    <3>. QED
      BY <3>1, <3>2 DEF PcSet
  <2>3. ~\E u \in Callers : pc[u].op = "join"
    BY <2>1 DEF ManagerInv
  <2>. QED
    BY <2>1, <2>2, <2>3 DEF ManagerInv, TypeOK, RtcShape, PcSet, AppStates, SigOps, RtcOps
<1>6. ASSUME NEW t \in Callers, StopLocked(t) PROVE ManagerInv'
  <2>0. /\ pc[t].op = "stop" /\ state = "Stopping"
        /\ pcs' = [p \in Peers |-> "none"]
        /\ UNCHANGED <<registered, sigClient, asio, out>>
        /\ \A u \in Callers \ {t} : pc[u].op \notin {"init", "stop", "join"}
    BY <1>6 DEF StopLocked, Waiting, ManagerInv
  <2>1. pcs' \in [Peers -> PcStates] /\ \A p \in Peers : pcs'[p] = "none"
    BY <2>0 DEF PcStates
  <2>2. CASE sigClient /\ isRunning /\ asio
    <3>1. /\ pc' = [pc EXCEPT ![t] = Call("join", NoPeer, "none")]
          /\ state' = "Stopping" /\ owner' = t /\ isRunning' = FALSE
          /\ link' \in {"none", "closed"}
      <4>1. isRunning' = FALSE /\ link' = IF link = "none" THEN "none" ELSE "closed"
        BY <1>6, <2>2 DEF StopLocked
      <4>2. owner' = t /\ pc' = [pc EXCEPT ![t] = Call("join", NoPeer, "none")]
            /\ UNCHANGED state
        BY <1>6, <2>2 DEF StopLocked
      <4>. QED
        BY <2>0, <4>1, <4>2
    <3>2. Call("join", NoPeer, "none") \in ThreadState
          /\ Call("join", NoPeer, "none").op = "join"
      BY CallTyped DEF CallerOps, Args
    <3>3. PcSet(t, Call("join", NoPeer, "none"))
      BY <3>1, <3>2, <1>0, PcSetFact
    <3>4. \A u \in Threads : pc[u].op \notin {"join", "relock"}
      BY <1>6, FreeUnblocked DEF StopLocked, Waiting
    <3>. QED
      BY <2>0, <2>1, <3>1, <3>2, <3>3, <3>4
         DEF ManagerInv, TypeOK, RtcShape, PcSet, AppStates, SigOps, RtcOps
  <2>3. CASE ~(sigClient /\ isRunning /\ asio)
    <3>1. /\ pc' = [pc EXCEPT ![t] = Idle]
          /\ state' = "Stopped" /\ owner' = owner /\ isRunning' \in BOOLEAN
          /\ link' \in {"none", "connecting", "open", "closed"}
      BY <1>6, <2>3, <1>0 DEF StopLocked, Done, TypeOK
    <3>3. PcSet(t, Idle)
      BY <3>1, IdleTyped, <1>0, PcSetFact
    <3>. QED
      BY <2>0, <2>1, <3>1, <3>3, IdleTyped
         DEF ManagerInv, TypeOK, RtcShape, PcSet, AppStates, SigOps, RtcOps
  <2>. QED
    BY <2>2, <2>3
<1>7. ASSUME NEW t \in Callers, StopJoined(t) PROVE ManagerInv'
  <2>1. /\ pc[t].op = "join" /\ state' = "Stopped" /\ owner' = NoOwner
        /\ pc' = [pc EXCEPT ![t] = Idle]
        /\ UNCHANGED <<pcs, registered, sigClient, isRunning, link, asio, out>>
    BY <1>7 DEF StopJoined, Done
  <2>2. PcSet(t, Idle) /\ pc'[t].op = "idle"
    BY <2>1, <1>0, PcSetFact, IdleTyped DEF PcSet
  <2>3. state = "Stopping" /\ \A p \in Peers : pcs[p] = "none"
    BY <2>1 DEF ManagerInv
  <2>. QED
    BY <2>1, <2>2, <2>3 DEF ManagerInv, TypeOK, RtcShape, PcSet, AppStates, SigOps, RtcOps
<1>8. ASSUME NEW t \in Callers, NEW c \in CallOps, CallOp(t, c) PROVE ManagerInv'
  <2>1. /\ pc[t] = Idle /\ pc' = [pc EXCEPT ![t] = c]
        /\ UNCHANGED <<state, owner, pcs, registered, sigClient, isRunning, link, asio, out>>
    BY <1>8 DEF CallOp
  <2>2. /\ c \in ThreadState
        /\ c.op \in {"connectToPeer", "disconnectFromPeer", "send", "setHandler"}
        /\ c.op = "setHandler" => c.arg \in Handlers
    BY DEF CallOps, Call, ThreadState, CallerOps, Args
  <2>3. PcSet(t, c)
    BY <2>1, <2>2, <1>0, PcSetFact
  <2>. QED
    BY <2>1, <2>2, <2>3, IdleTyped DEF ManagerInv, TypeOK, RtcShape, PcSet, SigOps, RtcOps
<1>9. ASSUME NEW t \in Callers,
             ConnectToPeerLocked(t) \/ DisconnectFromPeerLocked(t)
             \/ SendLocked(t) \/ SetHandlerLocked(t)
      PROVE ManagerInv'
  <2>1. /\ pc[t].op \in {"connectToPeer", "disconnectFromPeer", "send", "setHandler"}
        /\ pc' = [pc EXCEPT ![t] = Idle]
        /\ UNCHANGED <<state, owner, sigClient, isRunning, link, asio, out>>
    BY <1>9 DEF ConnectToPeerLocked, DisconnectFromPeerLocked, SendLocked,
                SetHandlerLocked, Waiting, Done
  <2>2. PcSet(t, Idle)
    BY <2>1, <1>0, PcSetFact, IdleTyped
  <2>3. registered' \subseteq Handlers
    BY <1>9, <1>0 DEF ConnectToPeerLocked, DisconnectFromPeerLocked,
         SendLocked, SetHandlerLocked, Waiting, TypeOK, ManagerInv
  <2>4. pcs' \in [Peers -> PcStates]
    <3>1. pc[t].peer \in Peers \cup {NoPeer}
      BY <1>0 DEF TypeOK, ThreadState
    <3>. QED
      BY <1>9, <1>0, <3>1 DEF ConnectToPeerLocked, DisconnectFromPeerLocked,
         SendLocked, SetHandlerLocked, TypeOK, PcStates
  <2>5. ~\E u \in Callers : pc[u].op = "join"
    \* A caller in join holds the mutex, and t found it free.
    <3>1. Free
      BY <1>9 DEF ConnectToPeerLocked, DisconnectFromPeerLocked,
         SendLocked, SetHandlerLocked, Waiting
    <3>. QED
      BY <3>1, FreeUnblocked
  <2>6. state = "Stopped" => \A p \in Peers : pcs'[p] = "none"
    <3>1. CASE ConnectToPeerLocked(t)
      BY <3>1 DEF ConnectToPeerLocked, ManagerInv
    <3>2. CASE DisconnectFromPeerLocked(t)
      BY <3>2 DEF DisconnectFromPeerLocked, ManagerInv
    <3>3. CASE SendLocked(t) \/ SetHandlerLocked(t)
      BY <3>3 DEF SendLocked, SetHandlerLocked, ManagerInv
    <3>. QED
      BY <1>9, <3>1, <3>2, <3>3
  <2>. QED
    BY <2>1, <2>2, <2>3, <2>4, <2>5, <2>6, IdleTyped
       DEF ManagerInv, TypeOK, RtcShape, PcSet, SigOps, RtcOps
<1>10. CASE SigOpen \/ SigFail
  <2>1. /\ pc' = [pc EXCEPT ![Sig] = Call(IF SigOpen THEN "connected" ELSE "error",
                                          NoPeer, "none")]
        /\ link' \in {"open", "closed"}
        /\ UNCHANGED <<state, owner, pcs, registered, sigClient, isRunning, asio, out>>
    BY <1>10 DEF SigOpen, SigFail
  <2>2. /\ Call(IF SigOpen THEN "connected" ELSE "error", NoPeer, "none") \in ThreadState
        /\ Call(IF SigOpen THEN "connected" ELSE "error", NoPeer, "none").op \in SigOps
    BY CallTyped DEF SigOps, Args
  <2>3. PcSet(Sig, Call(IF SigOpen THEN "connected" ELSE "error", NoPeer, "none"))
    BY <2>1, <2>2, <1>0, PcSetFact
  <2>. QED
    BY <2>1, <2>2, <2>3 DEF ManagerInv, TypeOK, RtcShape, PcSet, SigOps, RtcOps
<1>11. CASE SigHandlerLocked
  <2>1. /\ PcSet(Sig, Call("relock", pc[Sig].peer, pc[Sig].arg))
        /\ pc'[Sig].op = "relock" /\ owner' = Sig
    BY <1>11, <1>0, InvokeFact DEF SigHandlerLocked
  <2>2. \A u \in Threads : pc[u].op \notin {"join", "relock"}
    BY <1>11, FreeUnblocked DEF SigHandlerLocked, Waiting
  <2>3. UNCHANGED <<state, pcs, registered, sigClient, isRunning, link, asio, out>>
    BY <1>11 DEF SigHandlerLocked
  <2>. QED
    BY <2>1, <2>2, <2>3 DEF ManagerInv, TypeOK, RtcShape, PcSet
<1>12. CASE AsioExit
  BY <1>12 DEF AsioExit, ManagerInv, TypeOK, RtcShape
<1>13. ASSUME NEW p \in Peers, NEW e \in RtcEvents, RtcEvent(p, e) PROVE ManagerInv'
  <2>1. /\ e[1] \in RtcOps /\ e[2] \in Args
        /\ e[1] = "sdp" => e[2] \in {"offer", "answer"}
    BY DEF RtcEvents, RtcOps, Args
  <2>2. /\ Call(e[1], p, e[2]) \in ThreadState
        /\ Call(e[1], p, e[2]).op = e[1] /\ Call(e[1], p, e[2]).peer = p
        /\ Call(e[1], p, e[2]).arg = e[2]
    BY <2>1, CallTyped DEF RtcOps
  <2>3. /\ PcSet(Rtc, Call(e[1], p, e[2]))
        /\ UNCHANGED <<state, owner, pcs, registered, sigClient, isRunning, link, asio, out>>
    BY <1>13, <2>2, <1>0, PcSetFact DEF RtcEvent
  <2>. QED
    BY <2>1, <2>2, <2>3 DEF ManagerInv, TypeOK, RtcShape, PcSet, SigOps, RtcOps
<1>14. CASE PeerGone \/ PeerInfoChanged
  <2>1. /\ PcSet(Rtc, Idle)
        /\ UNCHANGED <<state, owner, pcs, registered, sigClient, isRunning, link, asio, out>>
    BY <1>14, <1>0, IdleTyped, PcSetFact DEF PeerGone, PeerInfoChanged, Done
  <2>. QED
    BY <2>1, IdleTyped DEF ManagerInv, TypeOK, RtcShape, PcSet, RtcOps
<1>15. CASE PeerLocalSdpGenerated \/ PeerLocalCandidateGenerated
  <2>1. /\ pc[Rtc].op \in {"sdp", "candidate"} /\ Free
        /\ UNCHANGED <<state, pcs, registered, sigClient, isRunning, link, asio>>
    BY <1>15 DEF PeerLocalSdpGenerated, PeerLocalCandidateGenerated, Waiting
  <2>2. pc[Rtc].peer \in Peers
    BY <2>1 DEF ManagerInv, RtcShape, RtcOps
  <2>3. \E f \in Frame : signalFrame(f)
    <3>1. CASE PeerLocalSdpGenerated
      <4> DEFINE f == [type |-> pc[Rtc].arg, to |-> pc[Rtc].peer,
                       from |-> "client_dummy_id"]
      <4>1. pc[Rtc].op = "sdp"
        BY <3>1 DEF PeerLocalSdpGenerated, Waiting
      <4>2. f \in Frame
        BY <2>2, <4>1 DEF ManagerInv, RtcShape, RtcOps, Frame
      <4>3. signalFrame(f)
        BY <3>1 DEF PeerLocalSdpGenerated
      <4>. QED
        BY <4>2, <4>3
    <3>2. CASE PeerLocalCandidateGenerated
      <4> DEFINE f == [type |-> "candidate", to |-> pc[Rtc].peer,
                       from |-> "client_dummy_id"]
      <4>2. f \in Frame
        BY <2>2 DEF Frame
      <4>3. signalFrame(f)
        BY <3>2 DEF PeerLocalCandidateGenerated
      <4>. QED
        BY <4>2, <4>3
    <3>. QED
      BY <1>15, <3>1, <3>2
  <2>5. /\ \/ PcSet(Rtc, Idle) /\ owner' = owner
           \/ PcSet(Rtc, Call("relock", pc[Rtc].peer, pc[Rtc].arg)) /\ owner' = Rtc
        /\ out' \subseteq Frame
    BY <2>3, <1>0, SignalFrameFact
  <2>. QED
    BY <2>1, <2>5, RtcHandlerInv DEF ManagerInv, TypeOK, RtcOps
<1>16. CASE PeerConnectionStateChange
  <2>1. /\ pc[Rtc].op = "pcState" /\ Free
        /\ UNCHANGED <<state, registered, sigClient, isRunning, link, asio, out>>
    BY <1>16 DEF PeerConnectionStateChange, Waiting
  <2>2. pc[Rtc].peer \in Peers
    BY <2>1 DEF ManagerInv, RtcShape, RtcOps
  <2>3. /\ invokeCallback(Rtc)
        /\ \/ pcs' = pcs
           \/ pcs' = [pcs EXCEPT ![pc[Rtc].peer] = "none"]
    BY <1>16 DEF PeerConnectionStateChange, destroyPeerConnection
  <2>4. /\ pcs' \in [Peers -> PcStates]
        /\ \A p \in Peers : pcs[p] = "none" => pcs'[p] = "none"
    BY <2>2, <2>3, <1>0 DEF TypeOK, PcStates
  <2>. QED
    BY <2>1, <2>3, <2>4, <1>0, InvokeFact, RtcHandlerInv DEF ManagerInv, TypeOK, RtcOps
<1>17. CASE PeerDataChannelMessage \/ PeerError
  <2>1. /\ pc[Rtc].op \in {"dcMessage", "pcError"} /\ Free
        /\ UNCHANGED <<state, pcs, registered, sigClient, isRunning, link, asio, out>>
    BY <1>17 DEF PeerDataChannelMessage, PeerError, Waiting
  <2>2. \/ invokeCallback(Rtc)
        \/ pc' = [pc EXCEPT ![Rtc] = Idle] /\ owner' = owner
    BY <1>17 DEF PeerDataChannelMessage, PeerError, Done
  <2>3. \/ PcSet(Rtc, Idle) /\ owner' = owner
        \/ PcSet(Rtc, Call("relock", pc[Rtc].peer, pc[Rtc].arg)) /\ owner' = Rtc
    BY <2>2, <1>0, InvokeFact, PcSetFact, IdleTyped
  <2>. QED
    BY <2>1, <2>3, <1>0, RtcHandlerInv DEF ManagerInv, TypeOK, RtcOps
<1>18. CASE UNCHANGED vars
  BY <1>18 DEF vars, ManagerInv, TypeOK, RtcShape
<1>19. QED
  BY <1>1, <1>2, <1>3, <1>4, <1>5, <1>6, <1>7, <1>8, <1>9, <1>10, <1>11,
     <1>12, <1>13, <1>14, <1>15, <1>16, <1>17, <1>18 DEF Next

\* ManagerInv holds in every reachable state.
THEOREM ManagerInvariant == Spec => []ManagerInv
BY ManagerInvInit, ManagerInvStep, PTL DEF Spec

\* Type correctness: every variable of the manager keeps its type under
\* every interleaving of callers, the asio thread and the WebRTC thread.
THEOREM ManagerTypeOK == Spec => []TypeOK
<1>1. ManagerInv => TypeOK
  BY DEF ManagerInv
<1>. QED
  BY <1>1, ManagerInvariant, PTL

\* Once state_ is Stopped the peer-connection index is empty: a
\* connectToPeer racing stop() either inserts before stop() erases the
\* map or is refused, and start()'s "no client" branch is never taken.
THEOREM ManagerStoppedIndexEmpty == Spec => []StoppedIndexEmpty
<1>1. ManagerInv => StoppedIndexEmpty
  BY DEF ManagerInv, StoppedIndexEmpty
<1>. QED
  BY <1>1, ManagerInvariant, PTL

\* One step moves state_ forward or leaves it.
LEMMA LifecycleStep ==
    ManagerInv /\ [Next]_vars => [Rank(state) <= Rank(state')]_state
<1> SUFFICES ASSUME ManagerInv, [Next]_vars, state' # state
             PROVE  Rank(state) <= Rank(state')
  OBVIOUS
<1> USE DEF Rank
<1>1. ASSUME NEW t \in Callers, InitCas(t) \/ StartCas(t) \/ StopCas(t)
      PROVE  Rank(state) <= Rank(state')
  BY <1>1 DEF InitCas, StartCas, StopCas
<1>2. ASSUME NEW t \in Callers, InitLocked(t) PROVE Rank(state) <= Rank(state')
  BY <1>2 DEF InitLocked, Waiting, ManagerInv
<1>3. ASSUME NEW t \in Callers, StartLocked(t) PROVE Rank(state) <= Rank(state')
  \* start() is pending only once the signaling client exists, so the
  \* branch that stores Stopped is not taken and state_ is unchanged.
  <2>1. sigClient
    BY <1>3 DEF StartLocked, Waiting, ManagerInv
  <2>. QED
    BY <1>3, <2>1 DEF StartLocked
<1>4. ASSUME NEW t \in Callers, StopLocked(t) \/ StopJoined(t)
      PROVE  Rank(state) <= Rank(state')
  <2>1. state = "Stopping"
    BY <1>4 DEF StopLocked, StopJoined, Waiting, ManagerInv
  <2>2. state' \in {"Stopping", "Stopped"}
    BY <1>4 DEF StopLocked, StopJoined
  <2>. QED
    BY <2>1, <2>2
<1>5. QED
  \* Every other action leaves state_ unchanged.
  BY <1>1, <1>2, <1>3, <1>4
     DEF Next, vars, CallOp, ConnectToPeerLocked, DisconnectFromPeerLocked,
         SendLocked, SetHandlerLocked, SigOpen, SigFail, SigHandlerLocked,
         AsioExit, RtcEvent, PeerGone, PeerLocalSdpGenerated,
         PeerLocalCandidateGenerated, PeerConnectionStateChange,
         PeerInfoChanged, PeerDataChannelMessage, PeerError

\* state_ only moves forward, whatever the interleaving of init(), start()
\* and stop() and their compare_exchanges outside mutex_.
THEOREM ManagerLifecycleMonotone == Spec => LifecycleMonotone
BY ManagerInvariant, LifecycleStep, PTL DEF Spec, LifecycleMonotone

=============================================================================
