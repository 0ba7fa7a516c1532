--------------------------- MODULE WebrtcManager ---------------------------
(***************************************************************************)
(* The WebRTC manager of the vehicle and cockpit clients: WebrtcManagerImpl *)
(* (src/webrtc/peer_connection.h, declared in src/webrtc/webrtc_manager.h). *)
(*                                                                         *)
(* Threads.  Application threads (Callers) call the public operations; the *)
(* signaling client's asio thread (Sig) calls the bound signaling handlers; *)
(* the WebRTC signaling thread (Rtc) calls the PeerConnectionCallbacks.    *)
(* Everything the manager shares is guarded by one std::mutex, mutex_; the *)
(* lifecycle state_ is a std::atomic changed by compare_exchange outside   *)
(* the lock.                                                               *)
(*                                                                         *)
(* The mutex is an owner.  A locked section that runs to its end without   *)
(* blocking is one step, taken only when nobody owns the mutex.  A section *)
(* that blocks keeps the mutex: stop() joining the asio thread ("join"),   *)
(* and every handler that calls an invoke*Callback helper, which locks     *)
(* mutex_ a second time on the same thread ("relock").  std::mutex is not  *)
(* recursive; with the glibc build that lock never returns, so "relock" is *)
(* a state the thread never leaves.                                        *)
(*                                                                         *)
(* The signaling client (SignalingClientImpl, src/unnamed/part_007) is kept *)
(* to what the manager sees: isRunning_, the state of the WebSocket and    *)
(* whether the asio thread is alive.  websocketpp calls on_open or on_fail *)
(* first; on_message only after on_open has returned.                      *)
(* The peer connections follow the callback contract of                    *)
(* peer_connection_callbacks.h: while a connection is in the index, the    *)
(* WebRTC thread may report any event for it.                              *)
(***************************************************************************)
EXTENDS Naturals, FiniteSets

CONSTANTS
    Callers,   \* application threads calling the public operations
    Sig,       \* the asio thread of the signaling client
    Rtc,       \* the WebRTC signaling thread running the pc callbacks
    Peers,     \* remote peer ids
    Handlers,  \* the application handler slots (onPeerConnected, ...)
    LocalId,   \* config_.client_id, the id the relay knows this node by
    NoOwner,   \* mutex_ not held
    NoPeer     \* no peer argument

ASSUME ManagerAssumption ==
    /\ IsFiniteSet(Callers) /\ IsFiniteSet(Peers)
    /\ Sig \notin Callers /\ Rtc \notin Callers /\ Sig # Rtc
    /\ NoOwner \notin Callers \cup {Sig, Rtc}
    /\ NoPeer \notin Peers

Threads == Callers \cup {Sig, Rtc}

VARIABLES
    state,      \* state_, the std::atomic<AppState>
    owner,      \* the thread holding mutex_, or NoOwner
    pc,         \* what each thread is doing (see Call below)
    pcs,        \* peerConnections_: "none" when peer_id is not a key
    registered, \* the handler slots the application has set
    sigClient,  \* signalingClient_ != nullptr
    isRunning,  \* SignalingClientImpl::isRunning_
    link,       \* state of the WebSocket to the relay
    asio,       \* the asio thread exists and has not returned from run()
    out         \* signaling frames handed to the WebSocket by sendSignal

vars == <<state, owner, pc, pcs, registered, sigClient, isRunning, link,
          asio, out>>

AppStates == {"Uninitialized", "Initializing", "Initialized", "Running",
              "Stopping", "Stopped"}

(* A peer connection in the index: "live", or "closed" once the manager    *)
(* has called Close() on it and not yet erased it.                         *)
PcStates == {"none", "live", "closed"}

(***************************************************************************)
(* Thread program counters.  op names the call a thread is in: after its   *)
(* compare_exchange or on entry, waiting for mutex_; "join" inside stop(); *)
(* "relock" inside an invoke*Callback helper.                              *)
(***************************************************************************)
CallerOps == {"init", "start", "stop", "join", "connectToPeer",
              "disconnectFromPeer", "send", "setHandler"}
SigOps == {"connected", "error"}
RtcOps == {"sdp", "candidate", "pcState", "info", "dcMessage", "pcError"}
Args == {"none", "offer", "answer", "Connected", "Down",
         "control", "telemetry", "other"} \cup Handlers
Call(o, p, a) == [op |-> o, peer |-> p, arg |-> a]
Idle == Call("idle", NoPeer, "none")
ThreadState == [op : {"idle", "relock"} \cup CallerOps \cup SigOps \cup RtcOps,
                peer : Peers \cup {NoPeer}, arg : Args]

(* Frames handed to sendSignal: type, addressee and the `from' written.     *)
Frame == [type : {"offer", "answer", "candidate"}, to : Peers,
          from : {LocalId, "client_dummy_id"}]

TypeOK ==
    /\ state \in AppStates
    /\ owner \in Threads \cup {NoOwner}
    /\ pc \in [Threads -> ThreadState]
    /\ pcs \in [Peers -> PcStates]
    /\ registered \subseteq Handlers
    /\ sigClient \in BOOLEAN /\ isRunning \in BOOLEAN /\ asio \in BOOLEAN
    /\ link \in {"none", "connecting", "open", "closed"}
    /\ out \subseteq Frame

Free == owner = NoOwner
Waiting(t, o) == pc[t].op = o /\ Free
Done(t) == pc' = [pc EXCEPT ![t] = Idle]

(***************************************************************************)
(* invoke*Callback (peer_connection.h:1349-1440) locks mutex_ to read the  *)
(* handler slot.  Every caller of these helpers already holds mutex_, so   *)
(* the thread blocks on itself and keeps the mutex for ever.               *)
(***************************************************************************)
invokeCallback(t) ==
    /\ owner' = t
    /\ pc' = [pc EXCEPT ![t] = Call("relock", @.peer, @.arg)]

Init ==
    /\ state = "Uninitialized"
    /\ owner = NoOwner
    /\ pc = [t \in Threads |-> Idle]
    /\ pcs = [p \in Peers |-> "none"]
    /\ registered = {}
    /\ sigClient = FALSE /\ isRunning = FALSE /\ asio = FALSE
    /\ link = "none"
    /\ out = {}

(***************************************************************************)
(* Lifecycle.  Each public call starts with its compare_exchange, outside  *)
(* the lock; a failed exchange returns at once and changes nothing.        *)
(***************************************************************************)

(* init(): Uninitialized -> Initializing, then under mutex_ create the     *)
(* signaling client, bind the four handlers, store Initialized.            *)
(* Mutant: init() without its compare_exchange.                           *)
InitNoCas(t) ==
    /\ pc[t] = Idle
    /\ state' = "Initializing"
    /\ pc' = [pc EXCEPT ![t] = Call("init", NoPeer, "none")]
    /\ UNCHANGED <<owner, pcs, registered, sigClient, isRunning, link, asio, out>>

InitCas(t) ==
    /\ pc[t] = Idle /\ state = "Uninitialized"
    /\ state' = "Initializing"
    /\ pc' = [pc EXCEPT ![t] = Call("init", NoPeer, "none")]
    /\ UNCHANGED <<owner, pcs, registered, sigClient, isRunning, link, asio, out>>

InitLocked(t) ==
    /\ Waiting(t, "init")
    /\ sigClient' = TRUE
    /\ state' = "Initialized"
    /\ Done(t)
    /\ UNCHANGED <<owner, pcs, registered, isRunning, link, asio, out>>

(* start(): Initialized -> Running, then under mutex_ signalingClient_->  *)
(* connect().  connect() returns at once when isRunning_; otherwise it     *)
(* sets isRunning_ and starts the asio thread.  (Its get_connection error  *)
(* path is not taken: init() passes the well-formed URI "ws://dummy".)     *)
StartCas(t) ==
    /\ pc[t] = Idle /\ state = "Initialized"
    /\ state' = "Running"
    /\ pc' = [pc EXCEPT ![t] = Call("start", NoPeer, "none")]
    /\ UNCHANGED <<owner, pcs, registered, sigClient, isRunning, link, asio, out>>

connect(t) ==
    IF isRunning
    THEN Done(t) /\ UNCHANGED <<owner, isRunning, link, asio>>
    ELSE /\ link' = "connecting" /\ isRunning' = TRUE /\ asio' = TRUE
         /\ Done(t) /\ UNCHANGED owner

StartLocked(t) ==
    /\ Waiting(t, "start")
    /\ IF sigClient
       THEN connect(t) /\ UNCHANGED state
       ELSE state' = "Stopped" /\ Done(t) /\ UNCHANGED <<owner, isRunning, link, asio>>
    /\ UNCHANGED <<pcs, registered, sigClient, out>>

(* stop(): Running or Initialized -> Stopping, then under mutex_ Close()   *)
(* and erase every peer connection and signalingClient_->disconnect().     *)
(* disconnect() returns at once unless isRunning_; otherwise it clears     *)
(* isRunning_, closes the socket, stops the asio loop and joins the asio   *)
(* thread, still holding mutex_.  state_ becomes Stopped after the join.   *)
StopCas(t) ==
    /\ pc[t] = Idle /\ state \in {"Running", "Initialized"}
    /\ state' = "Stopping"
    /\ pc' = [pc EXCEPT ![t] = Call("stop", NoPeer, "none")]
    /\ UNCHANGED <<owner, pcs, registered, sigClient, isRunning, link, asio, out>>

StopLocked(t) ==
    /\ Waiting(t, "stop")
    /\ pcs' = [p \in Peers |-> "none"]
    /\ IF sigClient /\ isRunning
       THEN /\ isRunning' = FALSE
            /\ link' = IF link = "none" THEN "none" ELSE "closed"
            /\ IF asio
               THEN /\ owner' = t
                    /\ pc' = [pc EXCEPT ![t] = Call("join", NoPeer, "none")]
                    /\ UNCHANGED state
               ELSE state' = "Stopped" /\ Done(t) /\ UNCHANGED owner
       ELSE state' = "Stopped" /\ Done(t) /\ UNCHANGED <<owner, isRunning, link>>
    /\ UNCHANGED <<registered, sigClient, asio, out>>

StopJoined(t) ==
    /\ pc[t].op = "join" /\ ~asio
    /\ state' = "Stopped"
    /\ owner' = NoOwner
    /\ Done(t)
    /\ UNCHANGED <<pcs, registered, sigClient, isRunning, link, asio, out>>

(***************************************************************************)
(* The other public operations: the call is entered (the thread now waits  *)
(* for mutex_), then the locked body runs as one step.                     *)
(***************************************************************************)
CallOps ==
       {Call("connectToPeer", p, "none") : p \in Peers}
  \cup {Call("disconnectFromPeer", p, "none") : p \in Peers}
  \cup {Call("send", p, "none") : p \in Peers \cup {NoPeer}}
  \cup {Call("setHandler", NoPeer, h) : h \in Handlers}

CallOp(t, c) ==
    /\ pc[t] = Idle
    /\ pc' = [pc EXCEPT ![t] = c]
    /\ UNCHANGED <<state, owner, pcs, registered, sigClient, isRunning, link,
                   asio, out>>

(* connectToPeer: refused unless Running; success without effect when the  *)
(* peer is already a key; otherwise createPeerConnection (make_unique,     *)
(* never null), insert, CreateOffer().                                     *)
(* Mutant: connectToPeer without the `state_ != Running' refusal.          *)
ConnectToPeerNoStateCheck(t) ==
    LET p == pc[t].peer IN
    /\ Waiting(t, "connectToPeer")
    /\ pcs' = IF pcs[p] = "none" THEN [pcs EXCEPT ![p] = "live"] ELSE pcs
    /\ Done(t)
    /\ UNCHANGED <<state, owner, registered, sigClient, isRunning, link, asio, out>>

ConnectToPeerLocked(t) ==
    LET p == pc[t].peer IN
    /\ Waiting(t, "connectToPeer")
    /\ pcs' = IF state = "Running" /\ pcs[p] = "none"
              THEN [pcs EXCEPT ![p] = "live"] ELSE pcs
    /\ Done(t)
    /\ UNCHANGED <<state, owner, registered, sigClient, isRunning, link, asio, out>>

(* disconnectFromPeer: Close() the connection; the entry stays in the map. *)
DisconnectFromPeerLocked(t) ==
    LET p == pc[t].peer IN
    /\ Waiting(t, "disconnectFromPeer")
    /\ pcs' = IF pcs[p] = "none" THEN pcs ELSE [pcs EXCEPT ![p] = "closed"]
    /\ Done(t)
    /\ UNCHANGED <<state, owner, registered, sigClient, isRunning, link, asio, out>>

(* sendDataChannelMessage and sendDataChannelMessageToAllPeers (peer =    *)
(* NoPeer): under mutex_, check Running and call SendData, which changes   *)
(* nothing the manager keeps.                                              *)
SendLocked(t) ==
    /\ Waiting(t, "send")
    /\ Done(t)
    /\ UNCHANGED <<state, owner, pcs, registered, sigClient, isRunning, link,
                   asio, out>>

(* onSignalingConnected, ..., onDataChannelMessageReceived: store a slot. *)
SetHandlerLocked(t) ==
    /\ Waiting(t, "setHandler")
    /\ registered' = registered \cup {pc[t].arg}
    /\ Done(t)
    /\ UNCHANGED <<state, owner, pcs, sigClient, isRunning, link, asio, out>>

(***************************************************************************)
(* The asio thread.  websocketpp calls on_open or on_fail while the loop  *)
(* runs; they call handleSignalingConnected / handleSignalingError, which  *)
(* lock mutex_ and then call an invoke helper.  Once disconnect() has     *)
(* stopped the loop, run() returns when no handler is in progress; the     *)
(* thread then skips the disconnected handler because isRunning_ is false. *)
(***************************************************************************)
SigOpen ==
    /\ asio /\ isRunning /\ pc[Sig] = Idle /\ link = "connecting"
    /\ link' = "open"
    /\ pc' = [pc EXCEPT ![Sig] = Call("connected", NoPeer, "none")]
    /\ UNCHANGED <<state, owner, pcs, registered, sigClient, isRunning, asio, out>>

SigFail ==
    /\ asio /\ isRunning /\ pc[Sig] = Idle /\ link = "connecting"
    /\ link' = "closed"
    /\ pc' = [pc EXCEPT ![Sig] = Call("error", NoPeer, "none")]
    /\ UNCHANGED <<state, owner, pcs, registered, sigClient, isRunning, asio, out>>

SigHandlerLocked ==
    /\ \E o \in SigOps : Waiting(Sig, o)
    /\ invokeCallback(Sig)
    /\ UNCHANGED <<state, pcs, registered, sigClient, isRunning, link, asio, out>>

AsioExit ==
    /\ asio /\ ~isRunning /\ pc[Sig] = Idle
    /\ asio' = FALSE
    /\ UNCHANGED <<state, owner, pc, pcs, registered, sigClient, isRunning, link, out>>

(***************************************************************************)
(* The WebRTC thread.  It reports an event for a connection in the index;  *)
(* once Close() has been called the connection reports only its end.  The  *)
(* handler then waits for mutex_; when it runs, the connection may already *)
(* have been erased, and every handler returns at once in that case.       *)
(***************************************************************************)
RtcEvents ==
    {<<"sdp", "offer">>, <<"sdp", "answer">>, <<"candidate", "none">>,
     <<"pcState", "Connected">>, <<"pcState", "Down">>, <<"info", "none">>,
     <<"dcMessage", "control">>, <<"dcMessage", "telemetry">>,
     <<"dcMessage", "other">>, <<"pcError", "none">>}

RtcEvent(p, e) ==
    /\ pc[Rtc] = Idle
    /\ \/ pcs[p] = "live"
       \/ pcs[p] = "closed" /\ e = <<"pcState", "Down">>
    /\ pc' = [pc EXCEPT ![Rtc] = Call(e[1], p, e[2])]
    /\ UNCHANGED <<state, owner, pcs, registered, sigClient, isRunning, link,
                   asio, out>>

(* "Check if the peer connection still exists": the early return shared by *)
(* every handler of the WebRTC thread.                                      *)
PeerGone ==
    /\ \E o \in RtcOps : Waiting(Rtc, o)
    /\ pcs[pc[Rtc].peer] = "none"
    /\ Done(Rtc)
    /\ UNCHANGED <<state, owner, pcs, registered, sigClient, isRunning, link,
                   asio, out>>

Present == pcs[pc[Rtc].peer] # "none"

(* SignalingClientImpl::sendSignal: on a socket that is not open it calls  *)
(* the error handler, handleSignalingError, on the calling thread, which   *)
(* locks mutex_ again; otherwise the frame is written.                     *)
sendSignal(t, f) ==
    IF link = "open"
    THEN out' = out \cup {f} /\ Done(t) /\ UNCHANGED owner
    ELSE invokeCallback(t) /\ UNCHANGED out

(* handlePeerLocalSdpGenerated and handlePeerLocalCandidateGenerated: the  *)
(* frame carries from = "client_dummy_id".                                 *)
signalFrame(f) ==
    IF sigClient THEN sendSignal(Rtc, f) ELSE invokeCallback(Rtc) /\ UNCHANGED out

(* Mutant: the SDP frame built without setting msg.from (left empty).      *)
PeerLocalSdpNoFrom ==
    /\ Waiting(Rtc, "sdp") /\ Present
    /\ signalFrame([type |-> pc[Rtc].arg, to |-> pc[Rtc].peer, from |-> ""])
    /\ UNCHANGED <<state, pcs, registered, sigClient, isRunning, link, asio>>

PeerLocalSdpGenerated ==
    /\ Waiting(Rtc, "sdp") /\ Present
    /\ signalFrame([type |-> pc[Rtc].arg, to |-> pc[Rtc].peer,
                    from |-> "client_dummy_id"])
    /\ UNCHANGED <<state, pcs, registered, sigClient, isRunning, link, asio>>

PeerLocalCandidateGenerated ==
    /\ Waiting(Rtc, "candidate") /\ Present
    /\ signalFrame([type |-> "candidate", to |-> pc[Rtc].peer,
                    from |-> "client_dummy_id"])
    /\ UNCHANGED <<state, pcs, registered, sigClient, isRunning, link, asio>>

(* destroyPeerConnection: Close(), erase the heartbeat entries (the maps   *)
(* are never filled in this code), erase the connection, then              *)
(* invokePeerDisconnectedCallback, still under mutex_.                     *)
destroyPeerConnection(t, p) ==
    /\ pcs' = [pcs EXCEPT ![p] = "none"]
    /\ invokeCallback(t)

(* handlePeerConnectionStateChange: Connected -> invokePeerConnected;      *)
(* Disconnected, Failed or Closed -> destroyPeerConnection.                *)
PeerConnectionStateChange ==
    /\ Waiting(Rtc, "pcState") /\ Present
    /\ IF pc[Rtc].arg = "Connected"
       THEN invokeCallback(Rtc) /\ UNCHANGED pcs
       ELSE destroyPeerConnection(Rtc, pc[Rtc].peer)
    /\ UNCHANGED <<state, registered, sigClient, isRunning, link, asio, out>>

(* The ICE-state, signaling-state and data-channel open/closed handlers:  *)
(* after the existence check they only log.                                *)
PeerInfoChanged ==
    /\ Waiting(Rtc, "info") /\ Present
    /\ Done(Rtc)
    /\ UNCHANGED <<state, owner, pcs, registered, sigClient, isRunning, link,
                   asio, out>>

(* handlePeerDataChannelMessage: "control" and "telemetry" go to           *)
(* invokeDataChannelMessageReceivedCallback; other labels are logged.      *)
PeerDataChannelMessage ==
    /\ Waiting(Rtc, "dcMessage") /\ Present
    /\ IF pc[Rtc].arg \in {"control", "telemetry"}
       THEN invokeCallback(Rtc) ELSE Done(Rtc) /\ UNCHANGED owner
    /\ UNCHANGED <<state, pcs, registered, sigClient, isRunning, link, asio, out>>

(* handlePeerError: invokePeerErrorCallback.                               *)
PeerError ==
    /\ Waiting(Rtc, "pcError") /\ Present
    /\ invokeCallback(Rtc)
    /\ UNCHANGED <<state, pcs, registered, sigClient, isRunning, link, asio, out>>

Next ==
    \/ \E t \in Callers :
          \/ InitCas(t) \/ InitLocked(t) \/ StartCas(t) \/ StartLocked(t)
          \/ StopCas(t) \/ StopLocked(t) \/ StopJoined(t)
          \/ \E c \in CallOps : CallOp(t, c)
          \/ ConnectToPeerLocked(t) \/ DisconnectFromPeerLocked(t)
          \/ SendLocked(t) \/ SetHandlerLocked(t)
    \/ SigOpen \/ SigFail \/ SigHandlerLocked \/ AsioExit
    \/ \E p \in Peers, e \in RtcEvents : RtcEvent(p, e)
    \/ PeerGone \/ PeerLocalSdpGenerated \/ PeerLocalCandidateGenerated
    \/ PeerConnectionStateChange \/ PeerInfoChanged \/ PeerDataChannelMessage
    \/ PeerError

Spec == Init /\ [][Next]_vars

-----------------------------------------------------------------------------
(***************************************************************************)
(* Properties.                                                             *)
(***************************************************************************)

(* The lifecycle of state_ only moves forward: Uninitialized, Initializing,*)
(* Initialized, Running, Stopping, Stopped (stop() may skip Running).  The *)
(* compare_exchanges of init, start and stop run outside mutex_ and the    *)
(* plain stores of init, start and stop inside it; no interleaving of      *)
(* callers may store an earlier state over a later one.                    *)
Rank(s) ==
    CASE s = "Uninitialized" -> 0 [] s = "Initializing" -> 1
      [] s = "Initialized" -> 2   [] s = "Running" -> 3
      [] s = "Stopping" -> 4      [] s = "Stopped" -> 5

LifecycleMonotone == [][Rank(state) <= Rank(state')]_state

(* Once state_ is Stopped the peer-connection index is empty.  stop()      *)
(* erases the map under mutex_ after its compare_exchange, and             *)
(* connectToPeer tests Running under the same mutex, so a connect racing a *)
(* stop either lands before the erase or is refused.                       *)
StoppedIndexEmpty == state = "Stopped" => \A p \in Peers : pcs[p] = "none"

(* Spec section 5: application callbacks are read under the lock and       *)
(* invoked after its release; no thread calls an invoke helper while it    *)
(* holds mutex_ (here: no thread is ever blocked on the mutex it holds).   *)
CallbacksOutsideLock == \A t \in Threads : pc[t].op # "relock"

(* Spec section 5, deadlock freedom: stop() never waits for the asio       *)
(* thread while that thread waits for the mutex stop() holds.              *)
NoJoinUnderLock ==
    ~ \E t \in Callers : pc[t].op = "join" /\ pc[Sig].op \in SigOps

(* i_webrtc_manager.h:107-109: stop() stops all network activity and       *)
(* disconnects from signaling; once Stopped the signaling client is not    *)
(* running.                                                                *)
StoppedSignalingDown == state = "Stopped" => ~isRunning

(* Spec section 4.2: every envelope the manager emits carries              *)
(* from = local_id (the relay drops any other, see SignalingRelay).        *)
EmittedFromLocal == \A f \in out : f.from = LocalId
=============================================================================
