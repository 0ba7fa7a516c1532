--------------------------- MODULE SignalingRelay ---------------------------
(***************************************************************************)
(* The signaling relay of whl-air: signaling_server/src/server.js and      *)
(* signaling_server/src/session_manager.js (src/unnamed/part_003 and       *)
(* part_001).  Node runs every WebSocket event handler to completion on    *)
(* one thread, so each handler is one atomic step here; the interleaving   *)
(* that matters is the order in which the events of different links       *)
(* (connection, message, close) reach the relay.                           *)
(*                                                                         *)
(* Data is abstracted: a link is a model value, a client id is a member of *)
(* Ids, SDP and candidate payloads are dropped (they are forwarded         *)
(* verbatim and no property looks at them), error texts are dropped.       *)
(***************************************************************************)
EXTENDS Naturals, Sequences, FiniteSets

CONSTANTS
    Links,      \* WebSocket connections that may reach the server
    Ids,        \* client ids a valid JWT can carry (decoded.clientId)
    FwdTypes,   \* the forwarded kinds 'offer', 'answer', 'candidate' in use
    NoId,       \* null / '' for an id
    NoLink,     \* undefined returned by sessions.get
    Server,     \* the 'server' sender of relay-generated errors
    MaxRouted   \* bound on the number of client frames the relay processes

ASSUME RelayAssumption ==
    /\ IsFiniteSet(Links) /\ IsFiniteSet(Ids)
    /\ NoId \notin Ids /\ Server \notin Ids /\ NoLink \notin Links
    /\ FwdTypes \subseteq {"offer", "answer", "candidate"}
    /\ MaxRouted \in Nat

VARIABLES
    readyState,        \* ws.readyState of each link, "idle" before connection
    wsId,              \* ws.id, set from the verified token (server.js:58)
    connectedClients,  \* Map<WebSocket, {id, targetId}>; Absent = not a key
    sessions,          \* Map<string, WebSocket>; NoLink = not a key
    sent,              \* frames the relay has written to each link, in order
    routed             \* client frames processed so far (model bound only)

vars == <<readyState, wsId, connectedClients, sessions, sent, routed>>

Absent == [id |-> NoId, targetId |-> NoId]
ClientInfo == [id : Ids, targetId : Ids \cup {NoId}]

(***************************************************************************)
(* Frames.  `via' is the link whose event produced the frame (NoLink for   *)
(* frames of the server's own making); it is not on the wire, it names the *)
(* origin so that properties can speak about it.                           *)
(***************************************************************************)
OutTypes == {"connected", "error", "join_request", "leave"} \cup FwdTypes
Frame == [type : OutTypes, from : Ids \cup {Server},
          to : Ids \cup {NoId}, via : Links \cup {NoLink}]
Msg(t, f, r, v) == [type |-> t, from |-> f, to |-> r, via |-> v]

(* Frames a client can send: the parsed JSON message handed to routeMessage. *)
InMsgs ==
       [type : {"join"}, from : Ids, to : {NoId}, target : Ids \cup {NoId}]
  \cup [type : {"leave"}, from : Ids, to : {NoId}, target : {NoId}]
  \cup [type : FwdTypes, from : Ids, to : Ids \cup {NoId}, target : {NoId}]
  \cup [type : {"unknown"}, from : Ids, to : {NoId}, target : {NoId}]

IsClient(ws) == connectedClients[ws] /= Absent

(* sendMessage: written only when ws.readyState === OPEN, else dropped.    *)
sendMessage(s, ws, m) ==
    IF readyState[ws] = "open" THEN [s EXCEPT ![ws] = Append(@, m)] ELSE s

-----------------------------------------------------------------------------
Init ==
    /\ readyState = [l \in Links |-> "idle"]
    /\ wsId = [l \in Links |-> NoId]
    /\ connectedClients = [l \in Links |-> Absent]
    /\ sessions = [i \in Ids |-> NoLink]
    /\ sent = [l \in Links |-> <<>>]
    /\ routed = 0

(* wss.on('connection') with a token that verifies to clientId: ws.id is    *)
(* set, addClient registers the link under its id (replacing any link      *)
(* already registered under that id), then 'connected' is sent.            *)
(* Mutant: the record is created without its targetId field.            *)
addClientNoTarget(ws, clientId) ==
    /\ connectedClients' = [connectedClients EXCEPT ![ws] = [id |-> clientId]]
    /\ sessions' = [sessions EXCEPT ![clientId] = ws]

addClient(ws, clientId) ==
    /\ connectedClients' = [connectedClients EXCEPT
                               ![ws] = [id |-> clientId, targetId |-> NoId]]
    /\ sessions' = [sessions EXCEPT ![clientId] = ws]

Connection(ws, clientId) ==
    /\ readyState[ws] = "idle"
    /\ readyState' = [readyState EXCEPT ![ws] = "open"]
    /\ wsId' = [wsId EXCEPT ![ws] = clientId]
    /\ addClient(ws, clientId)
    /\ sent' = [sent EXCEPT ![ws] = Append(@, Msg("connected", Server, clientId, NoLink))]
    /\ UNCHANGED routed

(* wss.on('connection') with a token verifyToken rejects: an error frame is *)
(* written and the socket terminated at once, so the frame may be lost.    *)
RejectConnection(ws) ==
    /\ readyState[ws] = "idle"
    /\ readyState' = [readyState EXCEPT ![ws] = "closed"]
    /\ \/ sent' = [sent EXCEPT ![ws] = Append(@, Msg("error", Server, NoId, NoLink))]
       \/ UNCHANGED sent
    /\ UNCHANGED <<wsId, connectedClients, sessions, routed>>

(* The peer starts the closing handshake: the socket is CLOSING and the    *)
(* relay's writes to it are dropped until 'close' fires.  (ws library.)    *)
CloseStart(ws) ==
    /\ readyState[ws] = "open"
    /\ readyState' = [readyState EXCEPT ![ws] = "closing"]
    /\ UNCHANGED <<wsId, connectedClients, sessions, sent, routed>>
-----------------------------------------------------------------------------
(* routeMessage, one operator per case of its switch.  Each is evaluated   *)
(* after the sender lookup and the from-check of routeMessage.             *)

(* 'join': remember the target and send it a join_request, or answer      *)
(* 'not found' and clear the target.                                      *)
(* Mutant: the join_request is written back to the sender's link.         *)
RouteJoinToSender(ws, msg) ==
    LET info == connectedClients[ws]
        targetWs == sessions[msg.target]
    IN  /\ msg.target /= NoId
        /\ IF targetWs /= NoLink /\ IsClient(targetWs)
           THEN /\ connectedClients' = [connectedClients EXCEPT ![ws].targetId = msg.target]
                /\ sent' = sendMessage(sent, ws, Msg("join_request", info.id, msg.target, ws))
           ELSE /\ connectedClients' = [connectedClients EXCEPT ![ws].targetId = NoId]
                /\ sent' = sendMessage(sent, ws, Msg("error", Server, info.id, NoLink))
        /\ UNCHANGED sessions

RouteJoin(ws, msg) ==
    LET info == connectedClients[ws]
        targetWs == sessions[msg.target]
    IN  /\ msg.target /= NoId
        /\ IF targetWs /= NoLink /\ IsClient(targetWs)
           THEN /\ connectedClients' = [connectedClients EXCEPT ![ws].targetId = msg.target]
                /\ sent' = sendMessage(sent, targetWs,
                                Msg("join_request", info.id, msg.target, ws))
           ELSE /\ connectedClients' = [connectedClients EXCEPT ![ws].targetId = NoId]
                /\ sent' = sendMessage(sent, ws, Msg("error", Server, info.id, NoLink))
        /\ UNCHANGED sessions

(* 'leave': tell the current target, if it is connected; clear the target. *)
RouteLeave(ws, msg) ==
    LET info == connectedClients[ws]
        targetWs == IF info.targetId = NoId THEN NoLink ELSE sessions[info.targetId]
    IN  /\ sent' = IF targetWs /= NoLink /\ IsClient(targetWs)
                   THEN sendMessage(sent, targetWs, Msg("leave", info.id, info.targetId, ws))
                   ELSE sent
        /\ connectedClients' = [connectedClients EXCEPT ![ws].targetId = NoId]
        /\ UNCHANGED sessions

(* 'offer' / 'answer' / 'candidate': forward verbatim to the link         *)
(* registered under msg.to, or answer 'recipient not found'.               *)
RouteSignal(ws, msg) ==
    LET recipientWs == sessions[msg.to]
    IN  /\ msg.to /= NoId
        /\ sent' = IF recipientWs /= NoLink /\ IsClient(recipientWs)
                   THEN sendMessage(sent, recipientWs, Msg(msg.type, msg.from, msg.to, ws))
                   ELSE sendMessage(sent, ws, Msg("error", Server, connectedClients[ws].id, NoLink))
        /\ UNCHANGED <<connectedClients, sessions>>

(* any other type: answer 'unknown message type'.                          *)
RouteUnknown(ws, msg) ==
    /\ sent' = sendMessage(sent, ws, Msg("error", Server, connectedClients[ws].id, NoLink))
    /\ UNCHANGED <<connectedClients, sessions>>

(* A frame whose `from' is not the sender's authenticated id is ignored,   *)
(* and so are joins without a target and signals without a recipient      *)
(* (the early returns of routeMessage): the step changes nothing but the  *)
(* frame counter.                                                          *)
(* Mutant: routeMessage without the check of message.from.               *)
routeMessageNoFromCheck(ws, msg) ==
    IF \/ (msg.type = "join" /\ msg.target = NoId)
       \/ (msg.type \in FwdTypes /\ msg.to = NoId)
    THEN UNCHANGED <<connectedClients, sessions, sent>>
    ELSE CASE msg.type = "join"      -> RouteJoin(ws, msg)
           [] msg.type = "leave"     -> RouteLeave(ws, msg)
           [] msg.type \in FwdTypes  -> RouteSignal(ws, msg)
           [] OTHER                  -> RouteUnknown(ws, msg)

routeMessage(ws, msg) ==
    IF msg.from /= connectedClients[ws].id
       \/ (msg.type = "join" /\ msg.target = NoId)
       \/ (msg.type \in FwdTypes /\ msg.to = NoId)
    THEN UNCHANGED <<connectedClients, sessions, sent>>
    ELSE CASE msg.type = "join"      -> RouteJoin(ws, msg)
           [] msg.type = "leave"     -> RouteLeave(ws, msg)
           [] msg.type \in FwdTypes  -> RouteSignal(ws, msg)
           [] OTHER                  -> RouteUnknown(ws, msg)

(* ws.on('message') with a frame that parses as JSON.                      *)
Message(ws, msg) ==
    /\ readyState[ws] = "open"
    /\ IsClient(ws)
    /\ routed < MaxRouted
    /\ routeMessage(ws, msg)
    /\ routed' = routed + 1
    /\ UNCHANGED <<readyState, wsId>>

(* ws.on('message') with a frame JSON.parse rejects: error reply.          *)
MalformedMessage(ws) ==
    /\ readyState[ws] = "open"
    /\ IsClient(ws)
    /\ routed < MaxRouted
    /\ sent' = [sent EXCEPT ![ws] = Append(@, Msg("error", Server, NoId, NoLink))]
    /\ routed' = routed + 1
    /\ UNCHANGED <<readyState, wsId, connectedClients, sessions>>
-----------------------------------------------------------------------------
(* removeClient: drop the link; if it is the link registered under its id, *)
(* unregister it and send 'leave' to every remaining client whose target  *)
(* is that id.  Targets are not cleared.                                   *)
(* Mutant: the departing client's own target is notified instead of the  *)
(* clients that target it.                                                *)
NotifiedOwnTarget(ws) ==
    {o \in Links : /\ o /= ws
                   /\ IsClient(o)
                   /\ connectedClients[o].id = connectedClients[ws].targetId}

Notified(ws) ==
    {o \in Links : /\ o /= ws
                   /\ IsClient(o)
                   /\ connectedClients[o].targetId = connectedClients[ws].id}

(* Mutant: the link leaves connectedClients but stays in sessions.       *)
removeClientKeepSession(ws) ==
    /\ connectedClients' = [connectedClients EXCEPT ![ws] = Absent]
    /\ UNCHANGED <<sessions, sent>>

removeClient(ws) ==
    LET id == connectedClients[ws].id
    IN  /\ connectedClients' = [connectedClients EXCEPT ![ws] = Absent]
        /\ IF sessions[id] = ws
           THEN /\ sessions' = [sessions EXCEPT ![id] = NoLink]
                /\ sent' = [o \in Links |->
                              IF o \in Notified(ws) /\ readyState[o] = "open"
                              THEN Append(sent[o], Msg("leave", id, connectedClients[o].id, ws))
                              ELSE sent[o]]
           ELSE UNCHANGED <<sessions, sent>>

(* ws.on('close') of an accepted link.  Rejected links never registered a *)
(* close handler.                                                          *)
Close(ws) ==
    /\ readyState[ws] \in {"open", "closing"}
    /\ readyState' = [readyState EXCEPT ![ws] = "closed"]
    /\ removeClient(ws)
    /\ UNCHANGED <<wsId, routed>>
-----------------------------------------------------------------------------
Next ==
    \/ \E ws \in Links, id \in Ids : Connection(ws, id)
    \/ \E ws \in Links : RejectConnection(ws)
    \/ \E ws \in Links : CloseStart(ws)
    \/ \E ws \in Links, msg \in InMsgs : Message(ws, msg)
    \/ \E ws \in Links : MalformedMessage(ws)
    \/ \E ws \in Links : Close(ws)

Spec == Init /\ [][Next]_vars
-----------------------------------------------------------------------------
(* Every variable holds a value of its intended kind.                     *)
TypeOK ==
    /\ readyState \in [Links -> {"idle", "open", "closing", "closed"}]
    /\ wsId \in [Links -> Ids \cup {NoId}]
    /\ connectedClients \in [Links -> ClientInfo \cup {Absent}]
    /\ sessions \in [Ids -> Links \cup {NoLink}]
    /\ sent \in [Links -> Seq(Frame)]
    /\ routed \in 0..MaxRouted

Sent(l) == {sent[l][k] : k \in 1..Len(sent[l])}

(* Spec section 8: every frame the relay writes on behalf of a link (a     *)
(* forwarded offer/answer/candidate, a join_request, a leave) carries as   *)
(* `from' the id that link authenticated with -- the from-check of         *)
(* routeMessage and the use of clientInfo.id in removeClient.              *)
FromAuthenticated ==
    \A l \in Links : \A m \in Sent(l) :
        m.via /= NoLink => m.from = wsId[m.via]

(* A frame addressed to a peer is only ever written to a link that         *)
(* authenticated as that peer: sessions.get(to) in routeMessage never      *)
(* yields a link of another id, even after links of the same id replaced   *)
(* one another in sessions (addClient) or left (removeClient).            *)
AddresseeOnly ==
    \A l \in Links : \A m \in Sent(l) : m.to /= NoId => m.to = wsId[l]

(* The directory only names live clients under their own id: whenever     *)
(* sessions maps id i to a link, that link is in connectedClients with id  *)
(* i and has not closed.  removeClient must unregister exactly the closing *)
(* link, and addClient's overwrite must keep the entry pointing at a live  *)
(* client.                                                                 *)
DirectoryConsistent ==
    \A i \in Ids : sessions[i] /= NoLink =>
        /\ IsClient(sessions[i])
        /\ connectedClients[sessions[i]].id = i
        /\ readyState[sessions[i]] \in {"open", "closing"}

(* Spec section 4.3, Departure: a client still open whose target has left  *)
(* the directory has been sent a 'leave' from that target.  This is the    *)
(* forEach over connectedClients in removeClient, which must pick the      *)
(* clients that target the departing id.                                   *)
DepartureNotified ==
    \A o \in Links :
        LET t == connectedClients[o].targetId
        IN  (readyState[o] = "open" /\ IsClient(o) /\ t /= NoId /\ sessions[t] = NoLink)
              => \E m \in Sent(o) : m.type = "leave" /\ m.from = t /\ m.to = wsId[o]

(* Spec section 2 (PeerId): two peers with the same id cannot be connected *)
(* at once.  addClient registers a second link under an id already in use  *)
(* and leaves the first one connected.                                     *)
UniqueConnectedId ==
    \A l1, l2 \in Links :
        (l1 /= l2 /\ IsClient(l1) /\ IsClient(l2))
            => connectedClients[l1].id /= connectedClients[l2].id

(* Spec section 4.3, Departure: the partner of every peer whose partner    *)
(* departed is cleared, so a client's target is always a registered id.    *)
(* removeClient sends the 'leave' but leaves otherClientInfo.targetId set. *)
PartnerCleared ==
    \A o \in Links :
        (IsClient(o) /\ connectedClients[o].targetId /= NoId)
            => sessions[connectedClients[o].targetId] /= NoLink
=============================================================================
