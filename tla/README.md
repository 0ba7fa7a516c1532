# TLA+ verification of whl-air

This directory holds the formal models of whl-air (vehicle ↔ cockpit teleoperation over WebRTC), the TLC configurations that check them, and the TLAPS proofs about them. `PROJECT.json` is the machine-readable index. It lists the components, runs, mutants, the map from every TLA+ definition to the source lines it translates, the findings, the hazards and the theorems.

## 1. The system

| Part | Source | Concurrency |
|---|---|---|
| Signaling relay | `src/unnamed/part_001` (session_manager.js), `part_003` (server.js), `part_002` (auth.js) | Node event loop. Every WebSocket handler runs to completion, so events of different links interleave but handlers do not. |
| WebRTC manager | `src/webrtc/peer_connection.h` (WebrtcManagerImpl), `webrtc_manager.h` | Application thread, signaling-client thread, WebRTC threads and the heartbeat timer. All are serialised by one non-recursive `std::mutex`; `state_` is atomic. |
| Peer-connection wrapper | `src/webrtc/peer_connection.cc` | Its own mutex. A skeleton: `init` always fails. |
| Signaling client | `src/unnamed/part_007` (websocketpp) | An asio thread plus the caller's thread, with an `isRunning_` flag. |
| Message codec | `src/signaling/signaling_message.cc`, `part_008` | Pure. |
| Vehicle / cockpit apps | `vehicle_client_app.cc`, `cockpit_client_app.h` | An atomic lifecycle state and handlers called from manager threads. |
| Sensor sources | `part_004`–`part_006`, `camera.h` | `isUpdating_`/`isCapturing_` flags plus a worker thread. |
| Drivers, transport, browser UI | `cockpit_client/*`, `part_009`–`part_011` | I/O. |

**How the parts interact.**
1. A client (vehicle, cockpit or browser) opens a WebSocket to the relay with a JWT.
2. The relay registers it by its authenticated id.
3. A cockpit sends `join` naming a vehicle. The relay sends the vehicle a `join_request`.
4. Offers, answers and candidates are forwarded by their `to` field.
5. When a link closes, the relay sends `leave` to everyone who targeted it.

On the clients, the signaling client hands frames to the manager. The manager maintains one peer connection per remote peer, runs the heartbeat over a data channel, and reports connection, disconnection and heartbeat loss to the application. The application must couple those reports to the vehicle's emergency stop.

**State and operations of the relay.**
- State:
  - `connectedClients: Map<ws,{id,targetId}>`;
  - `sessions: Map<id,ws>`;
  - the `readyState` and `id` of each socket.
- Operations:
  - connection, accepted or rejected by `verifyToken`;
  - a message: parsed and routed by `routeMessage`, or malformed;
  - the peer's close handshake;
  - close, which calls `removeClient`.

**Hard behaviours.**
- In the relay:
  - a second link claiming an id already in use;
  - a link closing after it was displaced;
  - frames to a link that is closing, which are silently dropped;
  - clients whose target departed and later came back.
- In the C++ clients:
  - re-locking `mutex_` from callbacks, and joining the asio thread under it;
  - `start()` and `stop()` exchanging `state_` outside the lock;
  - start/stop races on the sensor threads;
  - a signal handler racing `main`'s teardown.

The hazards are listed in `PROJECT.json`, each at its source line, with the properties that cover it or a note saying why none does yet.

## 2. What is modelled now

### `SignalingRelay.tla`: the relay (server.js + session_manager.js)

**Constants.**
- `Links`: the WebSocket connections.
- `Ids`: the ids a valid token can carry.
- `FwdTypes`: the forwarded kinds.
- Sentinels `NoId`, `NoLink` and `Server`.
- `MaxRouted`: a bound on processed client frames.

The assumption `RelayAssumption` is stated in the module.

**State.**

| Variable | Code |
|---|---|
| `readyState[l]` | `ws.readyState`, plus `"idle"` before the connection event |
| `wsId[l]` | `ws.id` (server.js:58) |
| `connectedClients[l]` | The map entry, or `Absent` when the link is not a key |
| `sessions[i]` | The map entry, or `NoLink` when the id is not a key |
| `sent[l]` | The sequence of frames the relay wrote to link `l` (see below) |
| `routed` | Only the model's bound |

Each frame carries a field `via`, the link whose event produced it. It is not on the wire; it lets properties speak about a frame's origin.

**Actions.** Each handler is one atomic step, because the Node event loop runs it to completion. The `await verifyToken` resolves in a microtask, before any other I/O callback, so it opens no interleaving.

| Action | Code |
|---|---|
| `Connection(ws, id)` | Connection handler with a valid token: `ws.id`, `addClient`, then `'connected'` |
| `RejectConnection(ws)` | Invalid token: the error frame, then `terminate()`. The frame may be lost, so both outcomes are allowed. |
| `CloseStart(ws)` | The peer begins the close handshake (the `ws` library). Not code of this repository; it lets `sendMessage` meet a CLOSING socket. |
| `Message(ws, msg)` | The message handler: `routeMessage` and its cases `RouteJoin`, `RouteLeave`, `RouteSignal`, `RouteUnknown` |
| `MalformedMessage(ws)` | The handler's `catch` |
| `Close(ws)` | The close handler: `removeClient` |

**What is abstracted.**
- Payloads (SDP, candidates) are dropped: they are forwarded verbatim and no property reads them.
- Error texts are dropped.
- `offer`, `answer` and `candidate` share one branch of the code. The MC instance uses only `offer`.
- A join's `data.targetVehicleId` is the record field `target`.

### Properties

**Checked by `relay_safety`:**

| Property | Meaning |
|---|---|
| `TypeOK` | Every variable has its type. |
| `FromAuthenticated` | Every frame written on behalf of a link carries that link's authenticated id as `from` (spec §8). |
| `AddresseeOnly` | A frame addressed to id `i` is written only to a link authenticated as `i`. This holds even across displacement of a registration and closes. |
| `DirectoryConsistent` | `sessions` maps an id only to a live client registered under that id. |
| `DepartureNotified` | An open client whose target left the directory has received a `leave` from that target (spec §4.3, Departure). |
| `RelayRefines` | The relay implements `RelayAbstract` (below): every handler is an abstract step or leaves ids, directory and frames alone. |

**Violation runs (both are spec/code divergences; see `findings`):**

| Run | Property | Counterexample |
|---|---|---|
| `relay_unique_id` | `UniqueConnectedId` | Two links with one id are both accepted (3 states). |
| `relay_partner_cleared` | `PartnerCleared` | After a departure, partners keep the departed id as their target (5 states). |

**Mutants.** Each property of the passing run is broken by one mutant of the code:

| Property | Mutant |
|---|---|
| `TypeOK` | `addClient` without `targetId` |
| `FromAuthenticated` | `routeMessage` without the from-check |
| `AddresseeOnly` | `join_request` sent back to the sender |
| `DirectoryConsistent` | `removeClient` that keeps the `sessions` entry |
| `DepartureNotified` | The departing client's own target notified instead of the clients that target it |
| `RelayRefines` | `join_request` sent back to the sender (it is then neither a Reply nor a Relay) |

**Bounds.** `MC_SignalingRelay` has three links, two ids, `FwdTypes = {"offer"}` and `MaxRouted = 3`. These bounds are enough for every case:
- two ids and three links let a second link take an id in use while a third client targets it, and let the displaced and the new link close in either order;
- three routed frames cover a join followed by an offer and a leave.

Symmetry over links and ids is sound because no property names a particular link or id. The run reaches 355,006 distinct states at depth 12 in about 25 s, with the refinement check.

`CHECK_DEADLOCK FALSE`: once every link has closed, the relay has nothing left to do. That is a real terminal state, not a deadlock.

**Fairness.** None. Every property of the relay is a safety property. Weak fairness is assumed only in `CockpitApp` and `SensorSource`, for threads that are already running; see their sections.

### Proofs (`SignalingRelayProofs.tla`, TLAPS)

The following theorems hold for every finite `Links` and `Ids` and every `MaxRouted ∈ Nat` (`RelayAssumption`):

| Theorem | Statement |
|---|---|
| `TypeCorrect` | `Spec ⇒ □TypeOK` |
| `DirectoryConsistentHolds` | `Spec ⇒ □DirectoryConsistent` |
| `FromAuthenticatedHolds` | `Spec ⇒ □FromAuthenticated` |
| `AddresseeOnlyHolds` | `Spec ⇒ □AddresseeOnly` |

They all follow from the inductive invariant `IInv`, which is the conjunction of:
- `TypeOK`;
- `ClientsLive`: a link is a client exactly when it is OPEN or CLOSING;
- `ClientIdMatches`: a client's map entry carries `ws.id`;
- `IdleFresh`: a link not yet accepted has no frames and no id;
- `DirectoryConsistent`;
- `LogOK`: every frame in every log is `FrameOK`. Its origin is an accepted link whose id it carries, and its addressee is the id of the link it sits on.

**Why `IInv` needs these conjuncts.**
- `AddresseeOnly` is not inductive alone. A join_request goes to `sessions[target]`, and only `DirectoryConsistent` with `ClientIdMatches` says that this link's id is `target`.
- `Connection` changes `ws.id`, so `IdleFresh` is needed to show that no earlier frame mentions the new link.
- `removeClient` relies on `DirectoryConsistent` to know that the link it closes is registered under no id other than its own.

**Proof structure.**
- `InitIInv` covers the initial state.
- There is one lemma per action: `ConnectionIInv`, `RejectConnectionIInv`, `CloseStartIInv`, `MessageIInv`, `MalformedMessageIInv`, `CloseIInv`.
- `MessageIInv` rests on one lemma per branch of `routeMessage`. Each branch is shown to have a `RouteEffect`: the directory is unchanged, at most the sender's target is rewritten, and at most one well-formed frame is written.
- The helper lemmas `AppendElems`, `AppendLog`, `SendMessageLog`, `FrameStable` and `LogStep` handle the logs.
- `NextIInv` combines the action lemmas. The theorems then follow by PTL.

`IInv` was first checked with TLC as an invariant of the `relay_safety` instance. tlapm proves all 513 obligations, from scratch, in about one minute.

`RouteEffect` also records two facts that the refinement and `DepartureNotified` use:
- `Routed(x, f)`: a relayed frame goes to the link that `sessions` holds for its addressee;
- a rewritten target is either none or an id that `sessions` holds.

### `RelayAbstract.tla` and the refinement (`SignalingRelayRefinement.tla`)

`RelayAbstract` states what the relay promises its clients, without sockets, client records or targets. It has three variables:
- `auth[l]`: the id link `l` authenticated with;
- `dir[i]`: the link reachable under id `i`;
- `mail[l]`: the frames written to `l`, in order.

It has four actions:
- `Authenticate(l, i)`: a link with no id takes id `i`, becomes `dir[i]`, and is greeted by a server frame addressed to `i`.
- `Reply(l, m)`: a server frame (`via = NoLink`) addressed to nobody or to `auth[l]`.
- `Relay(l, m)`: a frame on behalf of link `m.via` carries `auth[m.via]` as `from` and goes only to `dir[m.to]`.
- `Depart(l)`: every directory entry naming `l` is cleared, and each other authenticated link receives at most one `Notice` of the departure.

The refinement mapping is `auth ← wsId`, `dir ← sessions`, `mail ← sent`. It forgets `readyState`, `connectedClients` with its targets, and `routed`: these are how the relay keeps its promise, not the promise.

`relay_safety` checks `RelayRefines` (`A!ASpec`) as a temporal property. The abstract `Written(l)` names the frames a step appends to `l`, so that TLC does not enumerate all of `Frame` inside the abstract actions.

**Theorems** (for every finite `Links` and `Ids`, under `RelayAssumption`):

| Theorem | Statement |
|---|---|
| `RelayImplementsAbstract` | `Spec ⇒ RelayRefines` |
| `DepartureNotifiedHolds` | `Spec ⇒ □DepartureNotified` |

**How `RelayImplementsAbstract` is proved.**
- `InitRefines` covers the initial state.
- `StepRefines` shows `IInv ∧ [Next]_vars ⇒ [A!ANext]_A!avars`, with one lemma per handler:
  - `Connection` is `Authenticate`: `IdleFresh` gives `wsId[ws] = NoId`.
  - `RejectConnection` and `MalformedMessage` are a `Reply` to nobody, or a stutter when the frame is lost.
  - `CloseStart` is a stutter.
  - `Message` is a `Reply` or a `Relay` by `RouteEffect` (`FrameOK` and `Routed`). It is a stutter when `sendMessage` drops a frame to a link that is not OPEN.
  - `Close` is a `Depart` when the link is still registered. `DirectoryConsistent` with `ClientIdMatches` shows that the one entry naming the link is its own id, and that each `leave` is the abstract `Notice`. When the link was displaced, `Close` is a stutter.
- `WriteRefines` and `AppendWritten` turn an append to one log into an abstract `Write` of a frame in `Written`.

**How `DepartureNotifiedHolds` is proved.** `IInv ∧ DepartureNotified` is inductive.
- `LogsGrow` follows from the refinement: every abstract step appends to a mailbox or leaves it alone, so no frame is ever removed from a log.
- `NoticeStable` covers a step that keeps a client's id, record and log, does not reopen it, and does not unregister its target: such a step keeps the client notified.
- `DepartureStep` has one case per handler:
  - a routed frame may rewrite the sender's target, but only to none or to a registered id;
  - the `Close` that unregisters the target writes the `leave` itself, through `removeClient`'s `forEach`.

tlapm proves the module's 326 obligations.

### `WebrtcManager.tla`: the WebRTC manager (peer_connection.h, WebrtcManagerImpl)

**Threads.** The model has four kinds of thread:
- `Callers`: application threads that call the public operations;
- `Sig`: the signaling client's asio thread, which runs the bound signaling handlers;
- `Rtc`: the WebRTC thread, which runs the `PeerConnectionCallbacks` handlers.

**The lock.** `mutex_` is the variable `owner`.
- A locked section that runs to its end without blocking is one step. That step is enabled only when nobody owns the mutex.
- A section that blocks keeps the mutex. There are two such places:
  - `stop()` joining the asio thread inside `disconnect()` (op `"join"`);
  - every handler that calls an `invoke*Callback` helper while it holds `mutex_` (op `"relock"`). The helper locks the non-recursive `std::mutex` again. With glibc that lock never returns, so `"relock"` has no successor.
- `state_` is atomic. Each compare-and-exchange is a step of its own, outside the lock.

**State.**

| Variable | Code |
|---|---|
| `state` | `state_` |
| `owner` | the holder of `mutex_` |
| `pc[t]` | the call thread `t` is in, with its peer and argument |
| `pcs[p]` | `peerConnections_`: `"none"` when `p` is not a key, `"live"`, or `"closed"` after `Close()` without erase |
| `registered` | the handler slots set |
| `sigClient` | `signalingClient_ != nullptr` |
| `isRunning`, `link`, `asio` | `SignalingClientImpl::isRunning_`, the WebSocket, and whether the asio thread is alive (part_007) |
| `out` | the frames `sendSignal` wrote, with their `from` |

**Actions.**
- `init`, `start` and `stop` are each split into their compare-and-exchange (`InitCas`, `StartCas`, `StopCas`) and their locked body (`InitLocked`, `StartLocked`, `StopLocked`).
  - `StartLocked` includes `connect()`.
  - `StopLocked` includes the erase of every connection and `disconnect()`.
  - `StopJoined` is the return of the join.
- Public calls are entered with `CallOp`, then run with `ConnectToPeerLocked`, `DisconnectFromPeerLocked`, `SendLocked` and `SetHandlerLocked`.
- The asio thread:
  - `SigOpen` and `SigFail` are websocketpp's `on_open` and `on_fail`;
  - `SigHandlerLocked` is `handleSignalingConnected` or `handleSignalingError`;
  - `AsioExit` is `run()` returning after `disconnect()`.
- The WebRTC thread:
  - `RtcEvent` is the callback contract. A live connection may report anything; a closed one reports only its end.
  - `PeerGone` is the existence check that every handler starts with.
  - The remaining actions are one per handler: `PeerLocalSdpGenerated`, `PeerLocalCandidateGenerated`, `PeerConnectionStateChange` (with `destroyPeerConnection`), `PeerInfoChanged`, `PeerDataChannelMessage` and `PeerError`.

**Properties checked by `manager_safety`:**

| Property | Meaning |
|---|---|
| `TypeOK` | Every variable has its type. |
| `LifecycleMonotone` | `state_` never moves back, whatever the interleaving of compare-and-exchanges and locked stores (action property). |
| `StoppedIndexEmpty` | Once `state_` is Stopped, `peerConnections_` is empty. A `connectToPeer` racing `stop()` is either erased or refused by the locked Running check. |
| `ManagerInv` | The inductive invariant of the proofs below (defined in `WebrtcManagerProofs.tla`). |
| `ManagerRefines` | The manager implements `ManagerAbstract` (below): every step leaves `state_` and the index alone or is an abstract lifecycle or connection step. |

`LifecycleMonotone` does not catch the race at h:303. A whole `stop()` can run between `start()`'s exchange and its lock, and `start()` then connects a signaling client that nobody disconnects, yet `state_` never moves back. `StoppedSignalingDown` states that hazard, and TLC finds it violated. No run is kept for it.

Mutants: `init` without its compare-and-exchange breaks `LifecycleMonotone`; `connectToPeer` without the Running check breaks `StoppedIndexEmpty`, `ManagerInv` and `ManagerRefines`; an SDP frame built without `from` breaks `TypeOK`.

**Violation runs.** These are the findings of this module:

| Run | Property | Counterexample |
|---|---|---|
| `manager_relock` | `CallbacksOutsideLock` (spec §5) | `init`, `start`, then `on_fail`: `handleSignalingError` holds `mutex_` and calls `invokeSignalingErrorCallback`, which locks it again (7 states). `on_open` does the same. |
| `manager_join_deadlock` | `NoJoinUnderLock` (spec §5) | `on_open` fires while `stop()` holds `mutex_`. `stop()` then joins the asio thread, which waits for `mutex_` (8 states). |
| `manager_dummy_from` | `EmittedFromLocal` (spec §4.2) | A local SDP is sent with `from = "client_dummy_id"`, which the relay drops (10 states). |

**Bounds.** `MC_WebrtcManager` has two caller threads, two peers and one handler slot. With these bounds:
- a second caller can run `stop()` or `connectToPeer` inside the first caller's call;
- one peer can be closed while the other is live.

Symmetry over callers and over peers is sound, because no property names one. The passing run reaches 802,938 distinct states at depth 32 in about 50 s, with the refinement check.

`CHECK_DEADLOCK FALSE`: the states without successors are exactly the self-deadlock and the join deadlock that the violation runs report, and an idle, stopped manager.

**What is not an action, and why.**
- `handleSignalingMessage` (peer_connection.h:654-767) and `getOrCreatePeerConnection` (771-846) are not actions. websocketpp delivers `on_message` only after `on_open` has returned, and `handleSignalingConnected` never returns.
- `handleSignalingDisconnected` and `onClose` are not actions, for the same reason. Also, the asio thread's exit path finds `isRunning_` already false.
- The heartbeat (`startHeartbeatTimer` … `attemptReconnection`, 1207-1339) is dead code. The timer is never started and the codec has no heartbeat type.
- `connect()`'s `get_connection` error path is not an action. `init()` always passes the well-formed URI `ws://dummy`.

**Proofs** (`WebrtcManagerProofs.tla`). These theorems hold for every finite set of caller threads, every finite set of peers and every set of handler slots. They assume only `ManagerAssumption`: the asio thread, the WebRTC thread and the "no owner" value are distinct from the callers, and `NoPeer` is not a peer.

| Theorem | Statement |
|---|---|
| `ManagerInvariant` | `Spec ⇒ □ManagerInv` |
| `ManagerTypeOK` | `Spec ⇒ □TypeOK` |
| `ManagerStoppedIndexEmpty` | `Spec ⇒ □StoppedIndexEmpty` |
| `ManagerLifecycleMonotone` | `Spec ⇒ LifecycleMonotone` |

None of the three properties is inductive alone. The locked halves of `init`, `start` and `stop` run after their compare-and-exchange, with `mutex_` free in between. So the proof has to know what `state_` is while a caller sits between the two halves. `ManagerInv` is `TypeOK` and:
- `RtcShape`: the WebRTC thread's pending event names a peer, and a local SDP is an offer or an answer. Without it, `sendSignal`'s frame could be ill-typed.
- Callers are never in a Sig or Rtc operation. A pending `setHandler` carries a handler slot.
- A thread in `"join"` or `"relock"` owns `mutex_`. So a locked section that finds the mutex free knows no `stop()` is mid-join.
- At most one caller is inside `init` or `stop`. A caller in `init` sees Initializing, and one in `stop` or `join` sees Stopping. No other compare-and-exchange can leave those states.
- The signaling client exists from the end of `init` on, and whenever a `start` is pending. So `StartLocked`'s "no client" branch is never taken. That branch stores Stopped without erasing the index.
- When Stopped, or while a `stop()` is joining, the index is empty.

The proof has the following parts:
- `ManagerInvStep` has one step per action.
  - The handlers of the asio and WebRTC threads share two lemmas. `SignalFrameFact` says `sendSignal` either writes a well-formed frame and returns, or blocks re-locking. `RtcHandlerInv` says a WebRTC handler that returns or blocks, and may erase its own connection, keeps `ManagerInv`.
  - `FreeUnblocked` says that no thread is joining or re-locking while `mutex_` is free.
- `LifecycleStep` derives the monotone lifecycle from `ManagerInv`.

`ManagerInv` was first checked by TLC on the `manager_safety` instance, where it is still checked. tlapm proves the 421 obligations from scratch in about two and a half minutes.

**`ManagerAbstract.tla` and the refinement (`WebrtcManagerRefinement.tla`).** `ManagerAbstract` states the lifecycle and connection contract of `IWebrtcManager` (i_webrtc_manager.h) without threads, the mutex, the signaling client or the callbacks. It has two variables: `life`, the lifecycle stage, and `conn[p]`, the connection to peer `p` ("none", "live" or "closed"). Its actions are:
- the lifecycle steps `BeginInit`, `EndInit`, `Start` and `BeginStop`;
- `CloseAll`: every connection is erased while Stopping;
- `EndStop`: Stopping to Stopped, with no connection left;
- `Open(p)`: only while Running, and only for a peer without a connection;
- `Close(p)`: a live connection becomes closed;
- `Drop(p)`: the WebRTC stack drops a connection at any time.

The mapping is `life ← state`, `conn ← pcs`. `manager_safety` checks `ManagerRefines` (`M!MSpec`).

| Theorem | Statement |
|---|---|
| `ManagerImplementsAbstract` | `Spec ⇒ ManagerRefines` |

The proof rests on `ManagerInv`. `ManagerStepRefines` has one lemma per group of actions:
- `LifecycleRefines`. Each compare-and-exchange is its abstract step. `InitLocked` is `EndInit`, because a caller inside `init` sees Initializing. `StartLocked` only connects the signaling client, because the client exists. `StopLocked` is `CloseAll` when it goes on to join, and `EndStop` otherwise. `StopJoined` is `EndStop`, because the joining thread holds `mutex_` over the index it has already erased.
- `PeerCallRefines`. `connectToPeer` is `Open` or a stutter. `disconnectFromPeer` is `Close` of a live connection, or a stutter.
- `StateChangeRefines`. A state change to Disconnected, Failed or Closed is `Drop`, because the connection is still present.
- Every other handler leaves `state_` and the index alone (`Untouched`).

`AbstractStoppedEmpty` proves that the abstract specification keeps a stopped manager empty. `StoppedIndexEmptyByRefinement` then derives `StoppedIndexEmpty` a second time, through the mapping.

**Only model-checked.** The violations `CallbacksOutsideLock`, `NoJoinUnderLock` and `EmittedFromLocal` are counterexamples and need no proof.

### `CockpitApp.tla`: the cockpit application (cockpit_client_app.h)

**Threads.**
- `Main` runs `main()`: it creates the app and sets `global_app_instance`, then calls `init()` and `run()`. When `run()` returns, main clears the pointer, returns, and the destructor runs.
- `Sig` runs `signal_handler`. It tests `global_app_instance` and then calls `stop()` through it.

The constant `SignalOnMain` chooses where the handler runs:
- `TRUE`: on the main thread, interrupting it. Main's steps are disabled while the handler runs (`MainMay`).
- `FALSE`: on another thread, as with a `sigwait` thread.

**State.**
- `state` is the atomic `state_`.
- `mainPc` is main's position.
- `sp[t]` is the stop phase of thread `t`. `stop()` has two separate compare-exchanges (Running→Stopping, then Initialized→Stopping). These are followed by the component stops in the order monitor, polling, webrtc, transport, then the final store.
- `global` is `global_app_instance`.
- `running` is the set of components started.
- `signals` counts the Ctrl+C deliveries, bounded by `MaxSignals = 2`.

**Actions.**
- Each of `init`, `run` and `stop` is split at its atomic steps.
- `run()` starts transport, webrtc and polling one after the other, then the monitor. It never looks at `state_` between them.
- `Deliver` is a signal arriving at any time.

**Properties** (the run `cockpit_lifecycle`, `SignalOnMain = TRUE`, passes with 805 states):

| Property | Says | Mutant that breaks it |
|---|---|---|
| `NoUseAfterDestroy` | main never returns while the handler is inside `stop()` | `MainReturn` keeps the pointer set |
| `AppLifecycleMonotone` | `state_` never moves back, except Initializing→Uninitialized on a failed init | `run()`'s exchange becomes a plain store |
| `SignalHonoured` | a signal taken while Initialized or Running ends the process | `stop()` without its Initialized exchange |
| `CockpitInv` | the inductive invariant of the lifecycle proof (below) | `stop()` entering shutdown without its exchange from Running |
| `HandlerInv` | the handler part of the use-after-destroy proof (below) | `MainReturn` keeps the pointer set |

Two more properties are defined and violated by the code, but no run keeps them:
- `StoppedComponentsDown`: a `stop()` between two of `run()`'s starts leaves the later components running at exit. This diverges from spec §4 (hazard at h:415).
- `SignalAlwaysHonoured`: a Ctrl+C taken before `init()` completes is swallowed, and the app then runs forever (hazard at h:1003).

`TypeOK` is defined but no run checks it. No plausible bug of this code changes a variable's type.

**Violation runs.**

| Run | Shows |
|---|---|
| `cockpit_thread_lost_stop` | on another thread, `run()`'s exchange between `stop()`'s two exchanges makes both fail |
| `cockpit_thread_use_after_destroy` | on another thread, the handler calls `stop()` on a destroyed app |

**Fairness.** `WF_vars(MainStep) /\ WF_vars(SigStep)`. A thread that is running is scheduled by the OS. Signal delivery (`Deliver`) is not fair: nobody has to press Ctrl+C.

`CHECK_DEADLOCK FALSE`: main's exit is a terminal state.

**Proofs** (`CockpitAppProofs.tla`). These theorems hold for every `MaxSignals`:

| Theorem | Statement |
|---|---|
| `CockpitInvariant` | `Spec ⇒ □CockpitInv`, for either placement of the handler |
| `CockpitLifecycleMonotone` | `Spec ⇒ AppLifecycleMonotone`, for either placement of the handler |
| `SignalOnMainNoUseAfterDestroy` | `SignalOnMain ⇒ (Spec ⇒ □NoUseAfterDestroy)` |
| `SignalOnMainHandlerInv` | `SignalOnMain ⇒ (Spec ⇒ □HandlerInv)` |

- `CockpitInv` is `TypeOK` and two more facts. First, a `stop()` past its compare-and-exchanges (in the component stops or at the final store) sees Stopping or Stopped. Second, `init()`'s body runs on an Initializing app. Together these rule out the one dangerous step: `init()`'s failure reset stores Uninitialized, and `stop()`'s final store of Stopped could land while `init()` is still running. `CockpitInvariant` and `CockpitLifecycleMonotone` do not assume where the handler runs. They also hold in the mode whose other properties the violation runs break.
- `HandlerInv` says:
  - a handler that is idle or still checking the pointer is not inside `stop()`;
  - `global_app_instance` is clear from main's return on;
  - when main has exited, no handler is inside `stop()`.

  The step lemma `HandlerInvStep` needs `SignalOnMain`. Main's steps are enabled only while no handler runs, and the destructor's last step is one of them. Without `SignalOnMain` this is exactly the step the `cockpit_thread_use_after_destroy` counterexample takes.

Both invariants were checked by TLC first, with either value of `SignalOnMain` for `CockpitInv`. They stay in the `cockpit_lifecycle` run.

**Only model-checked.** `SignalHonoured` is liveness under the weak fairness of main and the handler. TLAPS here cannot reason about `ENABLED`, so it stays with TLC.

### `SensorSource.tla`: the chassis and camera sources (part_005, part_006)

`CanBusChassisSource` and `V4L2CameraSource` share one structure:
- an atomic flag (`isUpdating_` or `isCapturing_`);
- a `std::thread` member;
- a loop `while (flag) { handler(...); sleep; }`.

The module is mapped to the chassis source. The camera source differs only in its names.

**State.**
- `updating` is the flag.
- `thr` is the thread held by `updateThread_`, or 0 when it is not joinable.
- `loop[i]` is the state of the i-th update thread.
- `pc[p]` is where each caller, or the destroying `Owner`, is in its call.
- `fault` records a `std::terminate` (a move-assignment to, or destruction of, a joinable thread) or a thread joined twice.

Every load or store of the flag and of `updateThread_` is a step of its own.

**Modes.** The constant `Serial` chooses how calls arrive:
- `TRUE`: a call begins only when no other call is in progress.
- `FALSE`: calls overlap. The vehicle app calls `startUpdates` from `handlePeerConnected`, once per peer, on WebRTC threads, and `stopUpdates` from `stop()`.

**Properties** (the run `sensor_serial`: two callers, the owner, four calls, `Serial = TRUE`):

| Property | Says | Mutant that breaks it |
|---|---|---|
| `NoFatalError` | never `std::terminate`, never a double join | `startUpdates` without its already-active test |
| `StopQuiescent` | when `stopUpdates` returns, no update thread is running (the `IChassisSource` contract, part_004:28-31) | `stopUpdates` returns without joining |
| `StopReturns` | every `stopUpdates` returns | the loop stops re-testing the flag |
| `SerialInv`, `LoopInv` | the inductive invariants of the proofs below | `stopUpdates` keeps the flag set; the thread detached, not joined |

**Fairness.** Weak fairness of each thread inside a call, of the destructor's last step, and of each update thread. These are running threads that the OS schedules. Making a call is never forced.

**Violation runs** (`Serial = FALSE`):
- `sensor_concurrent_terminate`: two overlapping starts both see the flag clear, and the second assigns a thread to a joinable `updateThread_`.

The same check-then-act gap breaks `StopQuiescent` in this mode. A stop that overlaps another stop sees the flag already clear and returns while the update thread runs. No run is kept for it, because it has the same cause as `sensor_concurrent_terminate`.

**Proof** (`SensorSourceProofs.tla`). The theorem `SerialNoFatalError` proves `Serial => (Spec => []NoFatalError)` for every set of callers and every `MaxCalls`. It assumes `SensorAssumption`: the owner is not a caller.

`NoFatalError` is not inductive: whether a step of a call is safe depends on what the earlier steps of that call saw. The strengthening `SerialInv` says:
- at most one call is in progress;
- only the owner reaches `dFree`/`gone`, and then no caller is in a call;
- each point of a call fixes the flag and the thread (`CallFacts`): at `sSpawn` the flag is set and `updateThread_` is empty; at `xJoin` the flag is clear and `joinT` is the held thread;
- outside a call, the flag is set exactly when `updateThread_` is joinable.

The proof shows:
- `SerialInvInit`: `Init => SerialInv`;
- `SerialInvStep`: each action keeps `SerialInv`, one step per action. The load and joinable steps split on their branch. All other threads are idle or gone, because at most one is busy.

`SerialInvariant` states `Serial => (Spec => []SerialInv)` as a theorem of its own, and `SerialLoopInvariant` states `Serial => (Spec => []LoopInv)`.

`SerialStopQuiescent` proves `Serial => (Spec => StopQuiescent)`, the action property. It needs one more invariant, `LoopInv`: only the thread that `updateThread_` holds may still be in `updateLoop`. `LoopInv` holds for two reasons. A thread is spawned only into an empty `updateThread_`, which is `CallFacts` at `sSpawn`. And `updateThread_` is emptied only by a `join()` that waited for its thread to be done. `QuiescentStep` then covers each of the three ways a `stopUpdates` returns:
- the flag is clear at the load, so outside any other call `updateThread_` is empty;
- `updateThread_` is not joinable;
- the join of the held thread returns.

In each case no update thread is running.

The `sensor_serial` run also checks `SerialInv` and `LoopInv`. The mutant "`stopUpdates` forgets to clear the flag" breaks `SerialInv`. The mutant "the thread is detached instead of joined" breaks `LoopInv`.

`StopReturns` is liveness under weak fairness, so it stays with TLC. `StopReturns` is not checked in the concurrent mode: after a fault the model stops, so it fails for that reason alone.

## 3. Plan

Next steps, in order:
1. **`Negotiation`**: a composition of the relay, signaling clients and managers. It will show the `client_dummy_id` and missing-`targetVehicleId` divergences end to end. With them repaired in a variant, it will check offer/answer delivery under weak fairness of the relay's handlers.
2. **`VehicleApp`**: the vehicle application's lifecycle and its peer handlers, composed with `SensorSource`. It will show the missing safety coupling of spec §4.4. The app does not build as written: `main` passes six arguments to a five-parameter `init`, and the sensor calls do not match the interfaces. So it will be modelled as written, with those mismatches noted.
3. Split `stop()`'s two compare-exchanges in `WebrtcManager` into separate steps, as in `CockpitApp`.

Liveness stays with TLC: TLAPS cannot reason about `ENABLED` or fairness here.

## 4. Not modelled

- **Server shutdown.** The relay's SIGINT/SIGTERM shutdown (`wss.close`) and the HTTP/TLS setup.
- **Token checks.** JWT verification itself: it is abstracted to "an id or a rejection".
- **Media and hardware I/O.** Capture, CAN, video sinks and the browser's rendering.
- **Skeleton code.** The peer-connection wrapper's libwebrtc calls: `init` always fails in this code. The manager model will take its callbacks as an environment contract.
- **Cockpit event handlers.** The cockpit's telemetry and video forwarding handlers only pass data to the local WebSocket. `CockpitApp` keeps only the lifecycle they run inside.
- **Apps against absent interfaces.** Both apps include headers that are not in the repository (`webrtc_manager_impl.h`, the concrete sensor classes). The vehicle app also calls `startUpdates()` and `startCapture()` without the handler argument that part_005 and part_006 require. The models follow the code as written and do not model the missing headers.
