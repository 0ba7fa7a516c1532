---------------------- MODULE WebrtcManagerRefinement ----------------------
(***************************************************************************)
(* WebrtcManager implements ManagerAbstract.  The refinement mapping keeps *)
(* state_ and the peer-connection index, and forgets the threads, mutex_,  *)
(* the handler slots, the signaling client and the frames sent.            *)
(***************************************************************************)
EXTENDS WebrtcManagerProofs

M == INSTANCE ManagerAbstract WITH life <- state, conn <- pcs

(* The manager behaves as the lifecycle-and-connections specification:     *)
(* every step of a caller, the asio thread or the WebRTC thread leaves     *)
(* state_ and the index alone or is one abstract step -- in particular      *)
(* connectToPeer opens a connection only while Running, and stop() leaves  *)
(* Stopping only with the index empty.                                     *)
ManagerRefines == M!MSpec
-----------------------------------------------------------------------------
\* The index written as a function of Peers: empty exactly when every peer
\* maps to "none".
LEMMA NoConnIff ==
    ASSUME TypeOK
    PROVE  pcs = M!NoConn <=> \A p \in Peers : pcs[p] = "none"
BY DEF TypeOK, M!NoConn

\* A step that leaves state_ and the index alone is an abstract stutter.
LEMMA Untouched ==
    ASSUME UNCHANGED <<state, pcs>> PROVE [M!MNext]_M!mvars
BY DEF M!mvars

\* The lifecycle halves of init(), start() and stop().
LEMMA LifecycleRefines ==
    ASSUME ManagerInv, NEW t \in Callers,
           \/ InitCas(t) \/ InitLocked(t) \/ StartCas(t) \/ StartLocked(t)
           \/ StopCas(t) \/ StopLocked(t) \/ StopJoined(t)
    PROVE  [M!MNext]_M!mvars
<1>1. CASE InitCas(t)
  BY <1>1 DEF InitCas, M!MNext, M!BeginInit, M!Advance
<1>2. CASE InitLocked(t)
  \* the thread inside init() sees Initializing
  <2>1. state = "Initializing"
    BY <1>2 DEF InitLocked, Waiting, ManagerInv
  <2>. QED
    BY <1>2, <2>1 DEF InitLocked, M!MNext, M!EndInit, M!Advance
<1>3. CASE StartCas(t)
  BY <1>3 DEF StartCas, M!MNext, M!Start, M!Advance
<1>4. CASE StartLocked(t)
  \* the signaling client exists, so start() only connects it
  <2>1. sigClient
    BY <1>4 DEF StartLocked, Waiting, ManagerInv
  <2>. QED
    BY <1>4, <2>1, Untouched DEF StartLocked
<1>5. CASE StopCas(t)
  BY <1>5 DEF StopCas, M!MNext, M!BeginStop, M!Advance
<1>6. CASE StopLocked(t)
  \* the index is erased while Stopping; Stopped follows at once, or after
  \* the join
  <2>1. state = "Stopping" /\ pcs' = M!NoConn
    BY <1>6 DEF StopLocked, Waiting, ManagerInv, M!NoConn
  <2>2. state' \in {"Stopping", "Stopped"}
    BY <1>6, <2>1 DEF StopLocked
  <2>. QED
    BY <2>1, <2>2 DEF M!MNext, M!CloseAll, M!EndStop
<1>7. CASE StopJoined(t)
  \* the joining thread holds mutex_ over an index it has already erased
  <2>1. state = "Stopping" /\ \A p \in Peers : pcs[p] = "none"
    BY <1>7 DEF StopJoined, ManagerInv
  <2>2. pcs' = M!NoConn /\ state' = "Stopped"
    BY <2>1, <1>7, NoConnIff DEF StopJoined, ManagerInv
  <2>. QED
    BY <2>1, <2>2 DEF M!MNext, M!EndStop
<1>. QED
  BY <1>1, <1>2, <1>3, <1>4, <1>5, <1>6, <1>7

\* connectToPeer opens a connection only while Running and only to a peer
\* without one; disconnectFromPeer initiates the closure of a live one.
\* (A peer outside the index's domain leaves it unchanged.)
LEMMA PeerCallRefines ==
    ASSUME ManagerInv, NEW t \in Callers,
           ConnectToPeerLocked(t) \/ DisconnectFromPeerLocked(t)
    PROVE  [M!MNext]_M!mvars
<1>. DEFINE p == pc[t].peer
<1>1. pcs \in [Peers -> PcStates] /\ UNCHANGED state
  BY DEF ManagerInv, TypeOK, ConnectToPeerLocked, DisconnectFromPeerLocked
<1>2. CASE p \notin Peers
  <2>1. /\ [pcs EXCEPT ![p] = "live"] = pcs
        /\ [pcs EXCEPT ![p] = "closed"] = pcs
    BY <1>1, <1>2
  <2>. QED
    BY <1>1, <2>1, Untouched DEF ConnectToPeerLocked, DisconnectFromPeerLocked
<1>3. CASE p \in Peers /\ ConnectToPeerLocked(t)
  <2>1. CASE state = "Running" /\ pcs[p] = "none"
    BY <1>1, <1>3, <2>1 DEF ConnectToPeerLocked, M!MNext, M!Open
  <2>2. CASE ~(state = "Running" /\ pcs[p] = "none")
    BY <1>1, <1>3, <2>2, Untouched DEF ConnectToPeerLocked
  <2>. QED
    BY <2>1, <2>2
<1>4. CASE p \in Peers /\ DisconnectFromPeerLocked(t)
  <2>1. CASE pcs[p] = "live"
    BY <1>1, <1>4, <2>1 DEF DisconnectFromPeerLocked, M!MNext, M!Close
  <2>2. CASE pcs[p] \in {"none", "closed"}
    <3>1. pcs' = pcs
      BY <1>1, <1>4, <2>2 DEF DisconnectFromPeerLocked
    <3>. QED
      BY <1>1, <3>1, Untouched
  <2>. QED
    BY <1>1, <1>4, <2>1, <2>2 DEF PcStates
<1>. QED
  BY <1>2, <1>3, <1>4

\* A connection-state change to Disconnected, Failed or Closed drops the
\* connection (destroyPeerConnection); the connection is still present.
LEMMA StateChangeRefines ==
    ASSUME ManagerInv, PeerConnectionStateChange
    PROVE  [M!MNext]_M!mvars
<1>. DEFINE p == pc[Rtc].peer
<1>1. p \in Peers /\ pcs[p] # "none" /\ UNCHANGED state
  BY DEF PeerConnectionStateChange, Waiting, Present, ManagerInv, RtcShape, RtcOps
<1>2. CASE pc[Rtc].arg = "Connected"
  BY <1>1, <1>2, Untouched DEF PeerConnectionStateChange
<1>3. CASE pc[Rtc].arg # "Connected"
  BY <1>1, <1>3 DEF PeerConnectionStateChange, destroyPeerConnection, M!MNext, M!Drop
<1>. QED
  BY <1>2, <1>3

\* Every step of the manager, from a state of ManagerInv, is a step of
\* ManagerAbstract or leaves state_ and the index unchanged.
LEMMA ManagerStepRefines == ManagerInv /\ [Next]_vars => [M!MNext]_M!mvars
<1> SUFFICES ASSUME ManagerInv, [Next]_vars PROVE [M!MNext]_M!mvars
  OBVIOUS
<1>1. ASSUME NEW t \in Callers,
             \/ InitCas(t) \/ InitLocked(t) \/ StartCas(t) \/ StartLocked(t)
             \/ StopCas(t) \/ StopLocked(t) \/ StopJoined(t)
      PROVE  [M!MNext]_M!mvars
  BY <1>1, LifecycleRefines
<1>2. ASSUME NEW t \in Callers, ConnectToPeerLocked(t) \/ DisconnectFromPeerLocked(t)
      PROVE  [M!MNext]_M!mvars
  BY <1>2, PeerCallRefines
<1>3. CASE PeerConnectionStateChange
  BY <1>3, StateChangeRefines
<1>4. CASE \/ \E t \in Callers : \/ \E c \in CallOps : CallOp(t, c)
                                \/ SendLocked(t) \/ SetHandlerLocked(t)
           \/ SigOpen \/ SigFail \/ SigHandlerLocked \/ AsioExit
           \/ \E p \in Peers, e \in RtcEvents : RtcEvent(p, e)
           \/ PeerGone \/ PeerLocalSdpGenerated \/ PeerLocalCandidateGenerated
           \/ PeerInfoChanged \/ PeerDataChannelMessage \/ PeerError
           \/ UNCHANGED vars
  \* none of these touches state_ or the index
  <2>1. UNCHANGED <<state, pcs>>
    BY <1>4 DEF CallOp, SendLocked, SetHandlerLocked, SigOpen, SigFail,
                SigHandlerLocked, AsioExit, RtcEvent, PeerGone,
                PeerLocalSdpGenerated, PeerLocalCandidateGenerated,
                PeerInfoChanged, PeerDataChannelMessage, PeerError, vars
  <2>. QED
    BY <2>1, Untouched
<1>. QED
  BY <1>1, <1>2, <1>3, <1>4 DEF Next

\* The manager implements ManagerAbstract: state_ goes through the
\* lifecycle in order, connectToPeer opens a connection only while Running,
\* and stop() reaches Stopped only with every connection erased -- for any
\* number of application threads, peers and handler slots, however the
\* compare_exchanges outside mutex_ interleave with the locked sections and
\* the asio and WebRTC threads.
THEOREM ManagerImplementsAbstract == Spec => ManagerRefines
<1>1. Init => M!MInit
  BY DEF Init, M!MInit, M!NoConn
<1>. QED
  BY <1>1, ManagerStepRefines, ManagerInvariant, PTL DEF Spec, ManagerRefines, M!MSpec

\* In the abstract specification a stopped manager holds no connection:
\* nothing opens one after Running, and Stopped is entered with none.
LEMMA AbstractStoppedEmpty == M!MSpec => []M!MStoppedEmpty
<1>1. M!MInit => M!MStoppedEmpty
  BY DEF M!MInit, M!MStoppedEmpty
<1>2. M!MStoppedEmpty /\ [M!MNext]_M!mvars => M!MStoppedEmpty'
  <2> SUFFICES ASSUME M!MStoppedEmpty, [M!MNext]_M!mvars, state' = "Stopped"
               PROVE  pcs' = M!NoConn
    BY DEF M!MStoppedEmpty
  <2>1. CASE \E p \in Peers : M!Drop(p)
    BY <2>1 DEF M!Drop, M!NoConn, M!MStoppedEmpty
  <2>2. CASE \E p \in Peers : M!Close(p)
    BY <2>2 DEF M!Close, M!NoConn, M!MStoppedEmpty
  <2>. QED
    BY <2>1, <2>2 DEF M!MNext, M!mvars, M!BeginInit, M!EndInit, M!Start,
                      M!BeginStop, M!Advance, M!CloseAll, M!EndStop, M!Open,
                      M!MStoppedEmpty
<1>. QED
  BY <1>1, <1>2, PTL DEF M!MSpec

\* StoppedIndexEmpty again, now as a consequence of the refinement: the
\* abstract promise, read through the mapping, is the manager's invariant.
THEOREM StoppedIndexEmptyByRefinement == Spec => []StoppedIndexEmpty
<1>1. M!MStoppedEmpty /\ TypeOK => StoppedIndexEmpty
  BY DEF M!MStoppedEmpty, M!NoConn, StoppedIndexEmpty
<1>. QED
  BY <1>1, ManagerImplementsAbstract, AbstractStoppedEmpty, ManagerTypeOK, PTL
     DEF ManagerRefines
=============================================================================
