------------------------ MODULE SignalingRelayProofs ------------------------
(***************************************************************************)
(* Proofs, for every finite set of links and ids, of the relay's type     *)
(* invariant and of the directory and routing invariants the model        *)
(* checker verifies on MC_SignalingRelay.                                  *)
(***************************************************************************)
EXTENDS SignalingRelay, SequenceTheorems, TLAPS

(* Accepted links are exactly the open and closing ones: Connection moves *)
(* a link to OPEN and addClient registers it in the same handler, and     *)
(* 'close' both closes it and removes it (server.js:63, 80-84).            *)
ClientsLive ==
    \A l \in Links : IsClient(l) <=> readyState[l] \in {"open", "closing"}

(* A client's recorded id is the ws.id set from its token.                *)
ClientIdMatches ==
    \A l \in Links : IsClient(l) => connectedClients[l].id = wsId[l]

(* A link the server has not accepted yet has no frames and no id.        *)
IdleFresh ==
    \A l \in Links : readyState[l] = "idle" => sent[l] = <<>> /\ wsId[l] = NoId

(* What every frame written to link l satisfies: its origin is an         *)
(* accepted link whose id it carries as `from', and its addressee is the  *)
(* id of l.                                                                *)
FrameOK(l, m) ==
    /\ m.via /= NoLink => m.from = wsId[m.via] /\ readyState[m.via] /= "idle"
    /\ m.to /= NoId => m.to = wsId[l]

LogOK == \A l \in Links : \A m \in Sent(l) : FrameOK(l, m)

(* The inductive strengthening of TypeOK, DirectoryConsistent,            *)
(* FromAuthenticated and AddresseeOnly.                                    *)
IInv ==
    /\ TypeOK
    /\ ClientsLive
    /\ ClientIdMatches
    /\ IdleFresh
    /\ DirectoryConsistent
    /\ LogOK

Elems(s) == {s[k] : k \in 1..Len(s)}
-----------------------------------------------------------------------------
(* Appending a frame to a log adds exactly that frame to its elements.    *)
LEMMA AppendElems ==
    ASSUME NEW S, NEW s \in Seq(S), NEW m \in S
    PROVE  Elems(Append(s, m)) = Elems(s) \cup {m}
<1>1. /\ Len(Append(s, m)) = Len(s) + 1
      /\ \A i \in 1..Len(s) : Append(s, m)[i] = s[i]
      /\ Append(s, m)[Len(s) + 1] = m
  BY AppendProperties
<1>2. Len(s) \in Nat
  BY LenProperties
<1>. QED
  BY <1>1, <1>2 DEF Elems

(* Appending a frame to the log of one link keeps the logs well typed   *)
(* and adds exactly that frame, to that log only.                         *)
LEMMA AppendLog ==
    ASSUME NEW s \in [Links -> Seq(Frame)], NEW ws \in Links, NEW m \in Frame
    PROVE  /\ [s EXCEPT ![ws] = Append(@, m)] \in [Links -> Seq(Frame)]
           /\ \A l \in Links :
                Elems([s EXCEPT ![ws] = Append(@, m)][l])
                    \subseteq Elems(s[l]) \cup (IF l = ws THEN {m} ELSE {})
<1>1. Append(s[ws], m) \in Seq(Frame)
  BY AppendProperties
<1>2. Elems(Append(s[ws], m)) = Elems(s[ws]) \cup {m}
  BY AppendElems
<1>. QED
  BY <1>1, <1>2

(* sendMessage keeps the logs well typed and adds at most the frame it    *)
(* was given, to the log of the link it was given.                        *)
LEMMA SendMessageLog ==
    ASSUME sent \in [Links -> Seq(Frame)], NEW ws \in Links, NEW m \in Frame
    PROVE  /\ sendMessage(sent, ws, m) \in [Links -> Seq(Frame)]
           /\ \A l \in Links :
                Elems(sendMessage(sent, ws, m)[l])
                    \subseteq Elems(sent[l]) \cup (IF l = ws THEN {m} ELSE {})
           /\ \A l \in Links : readyState[l] /= "open" => sendMessage(sent, ws, m)[l] = sent[l]
<1>1. CASE readyState[ws] = "open"
  <2>1. sendMessage(sent, ws, m) = [sent EXCEPT ![ws] = Append(@, m)]
    BY <1>1 DEF sendMessage
  <2>2. /\ [sent EXCEPT ![ws] = Append(@, m)] \in [Links -> Seq(Frame)]
        /\ \A l \in Links :
             Elems([sent EXCEPT ![ws] = Append(@, m)][l])
                 \subseteq Elems(sent[l]) \cup (IF l = ws THEN {m} ELSE {})
    BY AppendLog
  <2>. QED
    BY <1>1, <2>1, <2>2
<1>2. CASE readyState[ws] /= "open"
  BY <1>2 DEF sendMessage
<1>. QED
  BY <1>1, <1>2

(* The frames of a link are the elements of its log.                      *)
LEMMA SentElems == \A l : Sent(l) = Elems(sent[l]) /\ Sent(l)' = Elems(sent'[l])
BY DEF Sent, Elems

(* A frame already in a log stays well formed across a step that keeps  *)
(* every accepted link accepted and its ws.id unchanged.                  *)
LEMMA FrameStable ==
    ASSUME IInv, NEW l \in Links, NEW m \in Sent(l),
           \A x \in Links : readyState[x] /= "idle" =>
                  readyState'[x] /= "idle" /\ wsId'[x] = wsId[x]
    PROVE  FrameOK(l, m)'
<1>1. FrameOK(l, m)
  BY DEF IInv, LogOK
<1>2. readyState[l] /= "idle"
  <2>1. Sent(l) /= {}
    OBVIOUS
  <2>. QED
    BY <2>1 DEF IInv, IdleFresh, Sent
<1>3. m \in Frame
  <2>1. sent[l] \in Seq(Frame)
    BY DEF IInv, TypeOK
  <2>. QED
    BY <2>1 DEF Sent
<1>. QED
  BY <1>1, <1>2, <1>3, RelayAssumption DEF FrameOK, Frame

(* The initial state satisfies the strengthened invariant.               *)
LEMMA InitIInv == Init => IInv
<1>. SUFFICES ASSUME Init PROVE IInv
  OBVIOUS
<1>1. TypeOK
  BY RelayAssumption DEF Init, TypeOK, Absent
<1>2. ClientsLive /\ ClientIdMatches /\ IdleFresh /\ DirectoryConsistent
  BY RelayAssumption DEF Init, ClientsLive, ClientIdMatches, IdleFresh,
                         DirectoryConsistent, IsClient
<1>3. LogOK
  BY DEF Init, LogOK, Sent
<1>. QED
  BY <1>1, <1>2, <1>3 DEF IInv
(* Connection: the accepted link was idle, so no directory entry and no  *)
(* frame names it; addClient points the id at it and 'connected' is its  *)
(* first frame.                                                           *)
LEMMA ConnectionIInv ==
    ASSUME IInv, NEW ws \in Links, NEW c \in Ids, Connection(ws, c)
    PROVE  IInv'
<1>. USE RelayAssumption
<1>. DEFINE hello == Msg("connected", Server, c, NoLink)
<1>1. hello \in Frame
  BY DEF Msg, Frame, OutTypes, hello
<1>2. sent[ws] = <<>> /\ \A i \in Ids : sessions[i] /= ws
  BY DEF Connection, IInv, IdleFresh, DirectoryConsistent
<1>3. sent' = [sent EXCEPT ![ws] = <<hello>>]
  BY <1>2 DEF Connection, hello
<1>4. TypeOK'
  BY <1>1, <1>3 DEF IInv, TypeOK, Connection, addClient, ClientInfo
<1>5. (ClientsLive /\ ClientIdMatches /\ IdleFresh)'
  BY <1>3 DEF IInv, TypeOK, Connection, addClient, ClientsLive, ClientIdMatches,
              IdleFresh, IsClient, Absent
<1>6. DirectoryConsistent'
  BY <1>2 DEF IInv, TypeOK, Connection, addClient, DirectoryConsistent, IsClient,
              Absent
<1>7. LogOK'
  <2>. SUFFICES ASSUME NEW l \in Links, NEW m \in Sent(l)' PROVE FrameOK(l, m)'
    BY DEF LogOK
  <2>1. CASE l = ws
    <3>1. m = hello
      BY <1>3, <2>1, <1>4 DEF Sent, TypeOK
    <3>. QED
      BY <3>1, <2>1 DEF FrameOK, Msg, Connection, hello, IInv, TypeOK
  <2>2. CASE l /= ws
    <3>1. m \in Sent(l)
      BY <1>3, <2>2 DEF Sent
    <3>2. \A x \in Links : readyState[x] /= "idle" =>
                  readyState'[x] /= "idle" /\ wsId'[x] = wsId[x]
      BY DEF Connection, IInv, TypeOK
    <3>. QED
      BY <3>1, <3>2, FrameStable
  <2>. QED
    BY <2>1, <2>2
<1>. QED
  BY <1>4, <1>5, <1>6, <1>7 DEF IInv
(* A step that keeps accepted links accepted with their ids, and whose  *)
(* new frames are well formed, keeps every log well formed.               *)
LEMMA LogStep ==
    ASSUME IInv,
           \A x \in Links : readyState[x] /= "idle" =>
                  readyState'[x] /= "idle" /\ wsId'[x] = wsId[x],
           \A l \in Links : \A m \in Sent(l)' : m \in Sent(l) \/ FrameOK(l, m)'
    PROVE  LogOK'
BY FrameStable DEF LogOK

(* A frame of the server's own, to no peer, is well formed anywhere.     *)
LEMMA ServerFrameOK ==
    ASSUME NEW l, NEW t PROVE FrameOK(l, Msg(t, Server, NoId, NoLink))'
BY DEF FrameOK, Msg

(* RejectConnection: the idle link closes; at most the auth error frame  *)
(* is added.                                                              *)
LEMMA RejectConnectionIInv ==
    ASSUME IInv, NEW ws \in Links, RejectConnection(ws)
    PROVE  IInv'
<1>. USE RelayAssumption
<1>. DEFINE err == Msg("error", Server, NoId, NoLink)
<1>1. err \in Frame
  BY DEF Msg, Frame, OutTypes, err
<1>2. ~IsClient(ws) /\ \A i \in Ids : sessions[i] /= ws
  BY DEF RejectConnection, IInv, ClientsLive, DirectoryConsistent, TypeOK
<1>3. \/ sent' = [sent EXCEPT ![ws] = Append(@, err)]
      \/ sent' = sent
  BY DEF RejectConnection, err
<1>4. /\ sent' \in [Links -> Seq(Frame)]
      /\ \A l \in Links : Sent(l)' \subseteq Sent(l) \cup {err}
  <2>0. /\ [sent EXCEPT ![ws] = Append(@, err)] \in [Links -> Seq(Frame)]
        /\ \A l \in Links :
             Elems([sent EXCEPT ![ws] = Append(@, err)][l])
                 \subseteq Elems(sent[l]) \cup (IF l = ws THEN {err} ELSE {})
    <3>1. sent \in [Links -> Seq(Frame)]
      BY DEF IInv, TypeOK
    <3>. QED
      BY <1>1, <3>1, AppendLog
  <2>1. CASE sent' = [sent EXCEPT ![ws] = Append(@, err)]
    BY <2>0, <2>1, SentElems
  <2>2. CASE sent' = sent
    BY <2>2, SentElems DEF IInv, TypeOK
  <2>. QED
    BY <1>3, <2>1, <2>2
<1>5. TypeOK'
  BY <1>4 DEF IInv, TypeOK, RejectConnection
<1>6. (ClientsLive /\ ClientIdMatches /\ IdleFresh /\ DirectoryConsistent)'
  BY <1>2, <1>3 DEF IInv, TypeOK, RejectConnection, ClientsLive, ClientIdMatches,
                    IdleFresh, DirectoryConsistent, IsClient
<1>7. LogOK'
  <2>1. FrameOK(ws, err)' /\ \A l \in Links : FrameOK(l, err)'
    BY ServerFrameOK DEF err
  <2>. QED
    BY <1>4, <2>1, LogStep DEF RejectConnection, IInv, TypeOK
<1>. QED
  BY <1>5, <1>6, <1>7 DEF IInv

(* CloseStart: an open link starts closing; nothing else changes.         *)
LEMMA CloseStartIInv ==
    ASSUME IInv, NEW ws \in Links, CloseStart(ws)
    PROVE  IInv'
<1>1. (TypeOK /\ ClientsLive /\ ClientIdMatches /\ IdleFresh /\ DirectoryConsistent)'
  BY DEF IInv, TypeOK, CloseStart, ClientsLive, ClientIdMatches, IdleFresh,
         DirectoryConsistent, IsClient
<1>2. LogOK'
  BY LogStep DEF CloseStart, IInv, TypeOK, Sent
<1>. QED
  BY <1>1, <1>2 DEF IInv

(* MalformedMessage: the parse error goes to the sender, to no peer.      *)
LEMMA MalformedMessageIInv ==
    ASSUME IInv, NEW ws \in Links, MalformedMessage(ws)
    PROVE  IInv'
<1>. USE RelayAssumption
<1>. DEFINE err == Msg("error", Server, NoId, NoLink)
<1>1. err \in Frame
  BY DEF Msg, Frame, OutTypes, err
<1>2. sent' = [sent EXCEPT ![ws] = Append(@, err)]
  BY DEF MalformedMessage, err
<1>3. /\ sent' \in [Links -> Seq(Frame)]
      /\ \A l \in Links : Sent(l)' \subseteq Sent(l) \cup {err}
  <2>0. /\ [sent EXCEPT ![ws] = Append(@, err)] \in [Links -> Seq(Frame)]
        /\ \A l \in Links :
             Elems([sent EXCEPT ![ws] = Append(@, err)][l])
                 \subseteq Elems(sent[l]) \cup (IF l = ws THEN {err} ELSE {})
    <3>1. sent \in [Links -> Seq(Frame)]
      BY DEF IInv, TypeOK
    <3>. QED
      BY <1>1, <3>1, AppendLog
  <2>. QED
    BY <2>0, <1>2, SentElems
<1>4. TypeOK'
  BY <1>3 DEF IInv, TypeOK, MalformedMessage
<1>5. (ClientsLive /\ ClientIdMatches /\ IdleFresh /\ DirectoryConsistent)'
  BY <1>2 DEF IInv, TypeOK, MalformedMessage, ClientsLive, ClientIdMatches,
              IdleFresh, DirectoryConsistent, IsClient
<1>6. LogOK'
  BY <1>3, ServerFrameOK, LogStep DEF MalformedMessage, IInv, TypeOK, err
<1>. QED
  BY <1>4, <1>5, <1>6 DEF IInv
(* What routeMessage can do: it leaves the directory alone, at most it    *)
(* rewrites the sender's target, and at most it writes one well-formed    *)
(* frame.                                                                 *)
(* A frame relayed on behalf of a link goes to the link the directory     *)
(* holds for its addressee (sessions.get(to) in routeMessage).             *)
Routed(x, f) == f.via /= NoLink => f.to \in Ids /\ sessions[f.to] = x

RouteEffect(ws) ==
    /\ UNCHANGED sessions
    /\ \/ connectedClients' = connectedClients
       \/ \E t \in Ids \cup {NoId} :
             /\ t = NoId \/ sessions[t] /= NoLink
             /\ connectedClients' = [connectedClients EXCEPT ![ws].targetId = t]
    /\ \/ sent' = sent
       \/ \E x \in Links, f \in Frame : FrameOK(x, f) /\ Routed(x, f)
                              /\ sent' = sendMessage(sent, x, f)

(* The facts about a routed frame's sender that every case relies on.    *)
RouteContext(ws, msg) ==
    /\ IInv
    /\ ws \in Links /\ msg \in InMsgs
    /\ readyState[ws] = "open" /\ IsClient(ws)
    /\ msg.from = connectedClients[ws].id

(* The error reply of routeMessage goes to the sender, addressed to it.  *)
LEMMA ErrorToSender ==
    ASSUME NEW ws, NEW msg, RouteContext(ws, msg)
    PROVE  /\ Msg("error", Server, connectedClients[ws].id, NoLink) \in Frame
           /\ FrameOK(ws, Msg("error", Server, connectedClients[ws].id, NoLink))
BY RelayAssumption DEF RouteContext, IInv, TypeOK, ClientIdMatches, IsClient, Absent,
   ClientInfo, Msg, Frame, OutTypes, FrameOK

(* A frame relayed on behalf of the sender to the link registered under  *)
(* id t is well formed.                                                   *)
LEMMA RelayedFrameOK ==
    ASSUME NEW ws, NEW msg, RouteContext(ws, msg), NEW t \in Ids,
           sessions[t] /= NoLink, NEW ty \in OutTypes
    PROVE  /\ Msg(ty, connectedClients[ws].id, t, ws) \in Frame
           /\ FrameOK(sessions[t], Msg(ty, connectedClients[ws].id, t, ws))
BY RelayAssumption DEF RouteContext, IInv, TypeOK, ClientIdMatches, DirectoryConsistent,
   IsClient, Absent, ClientInfo, Msg, Frame, FrameOK
LEMMA RouteJoinEffect ==
    ASSUME NEW ws, NEW msg, RouteContext(ws, msg), RouteJoin(ws, msg)
    PROVE  RouteEffect(ws)
<1>. DEFINE t == msg.target
            targetWs == sessions[t]
<1>1. t \in Ids /\ ws \in Links
  BY RelayAssumption DEF RouteJoin, RouteContext, InMsgs
<1>2. CASE targetWs /= NoLink /\ IsClient(targetWs)
  <2>1. /\ Msg("join_request", connectedClients[ws].id, t, ws) \in Frame
        /\ FrameOK(targetWs, Msg("join_request", connectedClients[ws].id, t, ws))
    BY <1>1, <1>2, RelayedFrameOK DEF OutTypes
  <2>2. targetWs \in Links
    BY <1>1, <1>2 DEF RouteContext, IInv, TypeOK
  <2>3. sent' = sendMessage(sent, targetWs, Msg("join_request", connectedClients[ws].id, t, ws))
    BY <1>2 DEF RouteJoin
  <2>4. connectedClients' = [connectedClients EXCEPT ![ws].targetId = t]
    BY <1>2 DEF RouteJoin
  <2>. QED
    BY <1>1, <1>2, <2>1, <2>2, <2>3, <2>4 DEF RouteJoin, RouteEffect, Routed, Msg
<1>3. CASE ~(targetWs /= NoLink /\ IsClient(targetWs))
  <2>1. /\ Msg("error", Server, connectedClients[ws].id, NoLink) \in Frame
        /\ FrameOK(ws, Msg("error", Server, connectedClients[ws].id, NoLink))
    BY ErrorToSender
  <2>2. sent' = sendMessage(sent, ws, Msg("error", Server, connectedClients[ws].id, NoLink))
    BY <1>3 DEF RouteJoin
  <2>3. connectedClients' = [connectedClients EXCEPT ![ws].targetId = NoId]
    BY <1>3 DEF RouteJoin
  <2>. QED
    BY <1>1, <2>1, <2>2, <2>3 DEF RouteJoin, RouteEffect, Routed, Msg
<1>. QED
  BY <1>2, <1>3

LEMMA RouteLeaveEffect ==
    ASSUME NEW ws, NEW msg, RouteContext(ws, msg), RouteLeave(ws, msg)
    PROVE  RouteEffect(ws)
<1>. DEFINE t == connectedClients[ws].targetId
            targetWs == IF t = NoId THEN NoLink ELSE sessions[t]
<1>1. ws \in Links /\ t \in Ids \cup {NoId}
  BY DEF RouteContext, IInv, TypeOK, IsClient, ClientInfo
<1>2. connectedClients' = [connectedClients EXCEPT ![ws].targetId = NoId]
  BY DEF RouteLeave
<1>3. CASE targetWs /= NoLink /\ IsClient(targetWs)
  <2>1. t \in Ids /\ targetWs = sessions[t] /\ sessions[t] /= NoLink
    BY <1>1, <1>3
  <2>2. /\ Msg("leave", connectedClients[ws].id, t, ws) \in Frame
        /\ FrameOK(targetWs, Msg("leave", connectedClients[ws].id, t, ws))
    BY <2>1, RelayedFrameOK DEF OutTypes
  <2>3. targetWs \in Links
    BY <2>1 DEF RouteContext, IInv, TypeOK
  <2>4. sent' = sendMessage(sent, targetWs, Msg("leave", connectedClients[ws].id, t, ws))
    BY <1>3 DEF RouteLeave
  <2>. QED
    BY <1>2, <2>1, <2>2, <2>3, <2>4 DEF RouteLeave, RouteEffect, Routed, Msg
<1>4. CASE ~(targetWs /= NoLink /\ IsClient(targetWs))
  BY <1>2, <1>4 DEF RouteLeave, RouteEffect
<1>. QED
  BY <1>3, <1>4
LEMMA RouteSignalEffect ==
    ASSUME NEW ws, NEW msg, RouteContext(ws, msg), msg.type \in FwdTypes,
           RouteSignal(ws, msg)
    PROVE  RouteEffect(ws)
<1>. DEFINE r == msg.to
            recipientWs == sessions[r]
<1>1. ws \in Links /\ r \in Ids /\ msg.from = connectedClients[ws].id
  BY RelayAssumption DEF RouteSignal, RouteContext, InMsgs
<1>2. CASE recipientWs /= NoLink /\ IsClient(recipientWs)
  <2>1. msg.type \in OutTypes
    BY DEF OutTypes
  <2>2. /\ Msg(msg.type, connectedClients[ws].id, r, ws) \in Frame
        /\ FrameOK(recipientWs, Msg(msg.type, connectedClients[ws].id, r, ws))
    BY <1>1, <1>2, <2>1, RelayedFrameOK
  <2>3. recipientWs \in Links
    BY <1>1, <1>2 DEF RouteContext, IInv, TypeOK
  <2>4. sent' = sendMessage(sent, recipientWs, Msg(msg.type, connectedClients[ws].id, r, ws))
    BY <1>1, <1>2 DEF RouteSignal
  <2>. QED
    BY <1>1, <2>2, <2>3, <2>4 DEF RouteSignal, RouteEffect, Routed, Msg
<1>3. CASE ~(recipientWs /= NoLink /\ IsClient(recipientWs))
  <2>1. /\ Msg("error", Server, connectedClients[ws].id, NoLink) \in Frame
        /\ FrameOK(ws, Msg("error", Server, connectedClients[ws].id, NoLink))
    BY ErrorToSender
  <2>2. sent' = sendMessage(sent, ws, Msg("error", Server, connectedClients[ws].id, NoLink))
    BY <1>3 DEF RouteSignal
  <2>. QED
    BY <1>1, <2>1, <2>2 DEF RouteSignal, RouteEffect, Routed, Msg
<1>. QED
  BY <1>2, <1>3

LEMMA RouteUnknownEffect ==
    ASSUME NEW ws, NEW msg, RouteContext(ws, msg), RouteUnknown(ws, msg)
    PROVE  RouteEffect(ws)
<1>1. /\ Msg("error", Server, connectedClients[ws].id, NoLink) \in Frame
      /\ FrameOK(ws, Msg("error", Server, connectedClients[ws].id, NoLink))
  BY ErrorToSender
<1>2. ws \in Links
  BY DEF RouteContext
<1>. QED
  BY <1>1, <1>2 DEF RouteUnknown, RouteEffect, Routed, Msg

(* routeMessage, whichever branch it takes, has a RouteEffect.           *)
LEMMA RouteMessageEffect ==
    ASSUME IInv, NEW ws \in Links, NEW msg \in InMsgs,
           readyState[ws] = "open", IsClient(ws), routeMessage(ws, msg)
    PROVE  RouteEffect(ws)
<1>1. CASE \/ msg.from /= connectedClients[ws].id
           \/ (msg.type = "join" /\ msg.target = NoId)
           \/ (msg.type \in FwdTypes /\ msg.to = NoId)
  BY <1>1 DEF routeMessage, RouteEffect
<1>2. CASE ~(\/ msg.from /= connectedClients[ws].id
             \/ (msg.type = "join" /\ msg.target = NoId)
             \/ (msg.type \in FwdTypes /\ msg.to = NoId))
  <2>1. RouteContext(ws, msg)
    BY <1>2 DEF RouteContext
  <2>2. "join" \notin FwdTypes /\ "leave" \notin FwdTypes
    BY RelayAssumption
  <2>3. CASE msg.type = "join"
    BY <1>2, <2>1, <2>2, <2>3, RouteJoinEffect DEF routeMessage
  <2>4. CASE msg.type = "leave"
    BY <1>2, <2>1, <2>2, <2>4, RouteLeaveEffect DEF routeMessage
  <2>5. CASE msg.type \in FwdTypes
    BY <1>2, <2>1, <2>2, <2>5, RouteSignalEffect DEF routeMessage
  <2>6. CASE msg.type \notin FwdTypes \cup {"join", "leave"}
    BY <1>2, <2>1, <2>6, RouteUnknownEffect DEF routeMessage
  <2>. QED
    BY <2>3, <2>4, <2>5, <2>6
<1>. QED
  BY <1>1, <1>2
LEMMA MessageIInv ==
    ASSUME IInv, NEW ws \in Links, NEW msg \in InMsgs, Message(ws, msg)
    PROVE  IInv'
<1>1. RouteEffect(ws)
  BY RouteMessageEffect DEF Message
<1>2. /\ UNCHANGED <<readyState, wsId, sessions>>
      /\ routed' \in 0..MaxRouted
  BY <1>1, RelayAssumption DEF Message, RouteEffect, IInv, TypeOK
<1>3. /\ sent' \in [Links -> Seq(Frame)]
      /\ \A l \in Links : \A m \in Sent(l)' : m \in Sent(l) \/ FrameOK(l, m)
      /\ \A l \in Links : readyState[l] /= "open" => sent'[l] = sent[l]
  <2>1. sent \in [Links -> Seq(Frame)]
    BY DEF IInv, TypeOK
  <2>2. CASE sent' = sent
    BY <2>1, <2>2 DEF Sent
  <2>3. CASE \E x \in Links, f \in Frame : FrameOK(x, f) /\ sent' = sendMessage(sent, x, f)
    <3>1. PICK x \in Links, f \in Frame : FrameOK(x, f) /\ sent' = sendMessage(sent, x, f)
      BY <2>3
    <3>2. /\ sendMessage(sent, x, f) \in [Links -> Seq(Frame)]
          /\ \A l \in Links :
               Elems(sendMessage(sent, x, f)[l])
                   \subseteq Elems(sent[l]) \cup (IF l = x THEN {f} ELSE {})
          /\ \A l \in Links : readyState[l] /= "open" => sendMessage(sent, x, f)[l] = sent[l]
      BY <2>1, <3>1, SendMessageLog
    <3>. QED
      BY <3>1, <3>2, SentElems
  <2>. QED
    BY <1>1, <2>2, <2>3 DEF RouteEffect
<1>4. /\ connectedClients' \in [Links -> ClientInfo \cup {Absent}]
      /\ \A l \in Links : IsClient(l)' = IsClient(l)
      /\ \A l \in Links : IsClient(l) => connectedClients'[l].id = connectedClients[l].id
  <2>1. connectedClients[ws] \in ClientInfo
    BY DEF Message, IInv, TypeOK, IsClient
  <2>2. CASE connectedClients' = connectedClients
    BY <2>2 DEF IInv, TypeOK, IsClient
  <2>3. CASE \E t \in Ids \cup {NoId} :
               connectedClients' = [connectedClients EXCEPT ![ws].targetId = t]
    <3>1. PICK t \in Ids \cup {NoId} :
               connectedClients' = [connectedClients EXCEPT ![ws].targetId = t]
      BY <2>3
    <3>2. connectedClients' \in [Links -> ClientInfo \cup {Absent}]
      BY <2>1, <3>1 DEF IInv, TypeOK, ClientInfo
    <3>3. connectedClients'[ws] \in ClientInfo
      BY <2>1, <3>1 DEF IInv, TypeOK, ClientInfo
    <3>4. ASSUME NEW l \in Links
          PROVE  /\ IsClient(l)' = IsClient(l)
                 /\ IsClient(l) => connectedClients'[l].id = connectedClients[l].id
      <4>1. CASE l = ws
        BY <2>1, <3>1, <3>3, <4>1, RelayAssumption DEF IInv, TypeOK, IsClient, ClientInfo, Absent
      <4>2. CASE l /= ws
        BY <3>1, <4>2 DEF IInv, TypeOK, IsClient
      <4>. QED
        BY <4>1, <4>2
    <3>. QED
      BY <3>2, <3>4
  <2>. QED
    BY <1>1, <2>2, <2>3 DEF RouteEffect
<1>5. TypeOK'
  BY <1>2, <1>3, <1>4 DEF IInv, TypeOK
<1>6. (ClientsLive /\ ClientIdMatches /\ DirectoryConsistent)'
  <2>1. ClientsLive'
    BY <1>2, <1>4 DEF IInv, ClientsLive
  <2>2. ClientIdMatches'
    BY <1>2, <1>4 DEF IInv, ClientIdMatches
  <2>3. DirectoryConsistent'
    <3>. SUFFICES ASSUME NEW i \in Ids, sessions'[i] /= NoLink
                  PROVE  (/\ IsClient(sessions[i])
                          /\ connectedClients[sessions[i]].id = i
                          /\ readyState[sessions[i]] \in {"open", "closing"})'
      BY DEF DirectoryConsistent
    <3>1. sessions[i] \in Links /\ IsClient(sessions[i])
          /\ connectedClients[sessions[i]].id = i
          /\ readyState[sessions[i]] \in {"open", "closing"}
      BY <1>2 DEF IInv, TypeOK, DirectoryConsistent
    <3>. QED
      BY <1>2, <1>4, <3>1 DEF IsClient
  <2>. QED
    BY <2>1, <2>2, <2>3
<1>7. IdleFresh'
  BY <1>2, <1>3 DEF IInv, IdleFresh
<1>8. LogOK'
  <2>1. \A l \in Links : \A m \in Sent(l)' : m \in Sent(l) \/ FrameOK(l, m)'
    BY <1>2, <1>3 DEF FrameOK
  <2>. QED
    BY <1>2, <2>1, LogStep
<1>. QED
  BY <1>5, <1>6, <1>7, <1>8 DEF IInv
LEMMA CloseIInv ==
    ASSUME IInv, NEW ws \in Links, Close(ws)
    PROVE  IInv'
<1>. USE RelayAssumption
<1>. DEFINE id == connectedClients[ws].id
            bye(o) == Msg("leave", id, connectedClients[o].id, ws)
<1>1. /\ IsClient(ws) /\ id \in Ids /\ id = wsId[ws]
      /\ connectedClients[ws] \in ClientInfo
  BY DEF Close, IInv, TypeOK, ClientsLive, ClientIdMatches, IsClient, ClientInfo, Absent
<1>2. \A i \in Ids : sessions[i] = ws => i = id
  BY DEF IInv, TypeOK, DirectoryConsistent
<1>3. /\ connectedClients' = [connectedClients EXCEPT ![ws] = Absent]
      /\ UNCHANGED <<wsId, routed>>
      /\ readyState' = [readyState EXCEPT ![ws] = "closed"]
  BY DEF Close, removeClient
<1>4. \A o \in Links : IsClient(o) =>
          bye(o) \in Frame /\ \A m \in {bye(o)} : FrameOK(o, m)'
  <2>. SUFFICES ASSUME NEW o \in Links, IsClient(o)
                PROVE  bye(o) \in Frame /\ \A m \in {bye(o)} : FrameOK(o, m)'
    OBVIOUS
  <2>1. connectedClients[o] \in ClientInfo /\ connectedClients[o].id = wsId[o]
    BY DEF IInv, TypeOK, ClientIdMatches, IsClient
  <2>2. bye(o) \in Frame
    BY <1>1, <2>1 DEF ClientInfo, Msg, Frame, OutTypes, bye, id
  <2>3. \A m \in {bye(o)} : FrameOK(o, m)'
    BY <1>1, <1>3, <2>1 DEF IInv, TypeOK, Msg, FrameOK, bye, id
  <2>. QED
    BY <2>2, <2>3
<1>5. /\ sent' \in [Links -> Seq(Frame)]
      /\ \A o \in Links : \A m \in Sent(o)' : m \in Sent(o) \/ FrameOK(o, m)'
      /\ \A o \in Links : readyState[o] /= "open" => sent'[o] = sent[o]
      /\ \/ sessions' = [sessions EXCEPT ![id] = NoLink]
         \/ sessions' = sessions /\ sessions[id] /= ws
  <2>1. CASE sessions[id] = ws
    <3>1. /\ sessions' = [sessions EXCEPT ![id] = NoLink]
          /\ sent' = [o \in Links |-> IF o \in Notified(ws) /\ readyState[o] = "open"
                                      THEN Append(sent[o], bye(o)) ELSE sent[o]]
      BY <2>1 DEF Close, removeClient
    <3>2. \A o \in Notified(ws) : IsClient(o)
      BY DEF Notified
    <3>3. \A o \in Links : o \in Notified(ws) =>
              /\ Append(sent[o], bye(o)) \in Seq(Frame)
              /\ Elems(Append(sent[o], bye(o))) = Elems(sent[o]) \cup {bye(o)}
      <4>. SUFFICES ASSUME NEW o \in Links, o \in Notified(ws)
                    PROVE  /\ Append(sent[o], bye(o)) \in Seq(Frame)
                           /\ Elems(Append(sent[o], bye(o))) = Elems(sent[o]) \cup {bye(o)}
        OBVIOUS
      <4>1. sent[o] \in Seq(Frame) /\ bye(o) \in Frame
        BY <1>4, <3>2 DEF IInv, TypeOK
      <4>. QED
        BY <4>1, AppendProperties, AppendElems
    <3>4. sent' \in [Links -> Seq(Frame)]
      BY <3>1, <3>3 DEF IInv, TypeOK
    <3>5. \A o \in Links : \A m \in Sent(o)' : m \in Sent(o) \/ FrameOK(o, m)'
      <4>. SUFFICES ASSUME NEW o \in Links, NEW m \in Sent(o)'
                    PROVE  m \in Sent(o) \/ FrameOK(o, m)'
        OBVIOUS
      <4>1. CASE o \in Notified(ws) /\ readyState[o] = "open"
        <5>1. Sent(o)' = Sent(o) \cup {bye(o)}
          BY <3>1, <3>3, <4>1, SentElems
        <5>. QED
          BY <5>1, <1>4, <3>2, <4>1
      <4>2. CASE ~(o \in Notified(ws) /\ readyState[o] = "open")
        BY <3>1, <4>2, SentElems
      <4>. QED
        BY <4>1, <4>2
    <3>. QED
      BY <3>1, <3>4, <3>5
  <2>5. CASE sessions[id] /= ws
    BY <2>5, SentElems DEF Close, removeClient, IInv, TypeOK
  <2>. QED
    BY <2>1, <2>5
<1>6. TypeOK'
  BY <1>3, <1>5 DEF IInv, TypeOK, Absent
<1>7. ClientsLive' /\ ClientIdMatches' /\ IdleFresh'
  BY <1>3, <1>5 DEF Close, IInv, TypeOK, ClientsLive, ClientIdMatches, IdleFresh,
                    IsClient
<1>8. DirectoryConsistent'
  <2>. SUFFICES ASSUME NEW i \in Ids, sessions'[i] /= NoLink
                PROVE  (/\ IsClient(sessions[i])
                        /\ connectedClients[sessions[i]].id = i
                        /\ readyState[sessions[i]] \in {"open", "closing"})'
    BY DEF DirectoryConsistent
  <2>1. sessions'[i] = sessions[i] /\ sessions[i] /= ws
    BY <1>1, <1>2, <1>5 DEF IInv, TypeOK
  <2>2. sessions[i] \in Links /\ IsClient(sessions[i])
        /\ connectedClients[sessions[i]].id = i
        /\ readyState[sessions[i]] \in {"open", "closing"}
    BY <2>1 DEF IInv, TypeOK, DirectoryConsistent
  <2>. QED
    BY <1>3, <2>1, <2>2 DEF IInv, TypeOK, IsClient
<1>9. LogOK'
  <2>1. \A x \in Links : readyState[x] /= "idle" =>
                readyState'[x] /= "idle" /\ wsId'[x] = wsId[x]
    BY <1>3 DEF IInv, TypeOK
  <2>. QED
    BY <1>5, <2>1, LogStep
<1>. QED
  BY <1>6, <1>7, <1>8, <1>9 DEF IInv
(* Every step of the relay, or a stutter, preserves IInv.                 *)
LEMMA NextIInv == IInv /\ [Next]_vars => IInv'
<1>. SUFFICES ASSUME IInv, [Next]_vars PROVE IInv'
  OBVIOUS
<1>1. CASE \E ws \in Links, id \in Ids : Connection(ws, id)
  BY <1>1, ConnectionIInv
<1>2. CASE \E ws \in Links : RejectConnection(ws)
  BY <1>2, RejectConnectionIInv
<1>3. CASE \E ws \in Links : CloseStart(ws)
  BY <1>3, CloseStartIInv
<1>4. CASE \E ws \in Links, msg \in InMsgs : Message(ws, msg)
  BY <1>4, MessageIInv
<1>5. CASE \E ws \in Links : MalformedMessage(ws)
  BY <1>5, MalformedMessageIInv
<1>6. CASE \E ws \in Links : Close(ws)
  BY <1>6, CloseIInv
<1>7. CASE UNCHANGED vars
  BY <1>7 DEF vars, IInv, TypeOK, ClientsLive, ClientIdMatches, IdleFresh,
              DirectoryConsistent, LogOK, FrameOK, Sent, IsClient
<1>. QED
  BY <1>1, <1>2, <1>3, <1>4, <1>5, <1>6, <1>7 DEF Next

(* The relay's reachable states all satisfy IInv.                         *)
THEOREM IInvHolds == Spec => []IInv
BY InitIInv, NextIInv, PTL DEF Spec

(* Every variable of the relay keeps its type in every reachable state.   *)
THEOREM TypeCorrect == Spec => []TypeOK
BY IInvHolds, PTL DEF IInv

(* sessions only ever names a live client under its own id: addClient's   *)
(* overwrite and removeClient's unregistration keep the directory exact.  *)
THEOREM DirectoryConsistentHolds == Spec => []DirectoryConsistent
BY IInvHolds, PTL DEF IInv

(* Every frame the relay writes on a client's behalf carries that        *)
(* client's authenticated id as `from' (routeMessage's from-check,        *)
(* removeClient's clientInfo.id).                                         *)
THEOREM FromAuthenticatedHolds == Spec => []FromAuthenticated
<1>1. IInv => FromAuthenticated
  BY DEF IInv, LogOK, FrameOK, FromAuthenticated
<1>. QED
  BY <1>1, IInvHolds, PTL

(* A frame addressed to a peer reaches only a link authenticated as that  *)
(* peer, whatever sequence of connections, displacements and closes led   *)
(* to it.                                                                 *)
THEOREM AddresseeOnlyHolds == Spec => []AddresseeOnly
<1>1. IInv => AddresseeOnly
  BY DEF IInv, LogOK, FrameOK, AddresseeOnly
<1>. QED
  BY <1>1, IInvHolds, PTL
=============================================================================
