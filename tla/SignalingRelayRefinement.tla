--------------------- MODULE SignalingRelayRefinement ---------------------
(***************************************************************************)
(* SignalingRelay implements RelayAbstract.  The refinement mapping keeps  *)
(* ws.id, sessions and the frames written to each link, and forgets the    *)
(* socket states, the client records with their targets and the frame     *)
(* counter: those are how the relay keeps its promise, not the promise.    *)
(***************************************************************************)
EXTENDS SignalingRelayProofs

A == INSTANCE RelayAbstract WITH auth <- wsId, dir <- sessions, mail <- sent,
                                 Frames <- Frame

(* The relay behaves as the directory-and-mailbox specification: every    *)
(* handler of server.js and session_manager.js either leaves ids,          *)
(* directory and frames alone or is one step of RelayAbstract.             *)
RelayRefines == A!ASpec
-----------------------------------------------------------------------------
(* Appending a frame to the log of link x is the abstract Write of that   *)
(* frame, and the frame is among those the step writes to x.              *)
LEMMA AppendWritten ==
    ASSUME sent \in [Links -> Seq(Frame)], NEW x \in Links, NEW f \in Frame,
           sent' = [sent EXCEPT ![x] = Append(@, f)]
    PROVE  f \in A!Written(x) /\ A!Write(x, f)
<1>1. /\ Len(sent'[x]) = Len(sent[x]) + 1
      /\ sent'[x][Len(sent[x]) + 1] = f
      /\ Len(sent[x]) \in Nat
  BY AppendProperties, LenProperties
<1>2. f \in A!Written(x)
  BY <1>1 DEF A!Written
<1>3. A!Write(x, f)
  BY DEF A!Write
<1>. QED
  BY <1>2, <1>3

(* A frame written to one open link, with ids and directory unchanged, is *)
(* an abstract Reply when the server made it, to nobody or to the link's *)
(* own id, and an abstract Relay when it is relayed on behalf of a link   *)
(* whose id it carries, to the link the directory holds for its          *)
(* addressee.                                                              *)
LEMMA WriteRefines ==
    ASSUME TypeOK, NEW x \in Links, NEW f \in Frame,
           sent' = [sent EXCEPT ![x] = Append(@, f)],
           UNCHANGED <<wsId, sessions>>,
           \/ f.via = NoLink /\ f.to \in {NoId, wsId[x]}
           \/ f.via /= NoLink /\ f.from = wsId[f.via] /\ f.to \in Ids /\ sessions[f.to] = x
    PROVE  A!ANext
<1>1. f \in A!Written(x) /\ A!Write(x, f)
  BY AppendWritten DEF TypeOK
<1>2. f.via \in Links \cup {NoLink}
  BY DEF Frame
<1>3. A!Reply(x, f) \/ A!Relay(x, f)
  BY <1>1, <1>2 DEF A!Reply, A!Relay
<1>. QED
  BY <1>1, <1>3 DEF A!ANext

(* Connection: the idle link had no id, so it authenticates, and          *)
(* 'connected', addressed to its id, is written to it.                    *)
LEMMA ConnectionRefines ==
    ASSUME IInv, NEW ws \in Links, NEW c \in Ids, Connection(ws, c)
    PROVE  A!ANext
<1>. DEFINE hello == Msg("connected", Server, c, NoLink)
<1>1. hello \in Frame /\ hello.via = NoLink /\ hello.to = c
  BY RelayAssumption DEF Msg, Frame, OutTypes, hello
<1>2. wsId[ws] = NoId
  BY DEF Connection, IInv, IdleFresh
<1>3. hello \in A!Written(ws) /\ A!Write(ws, hello)
  BY <1>1, AppendWritten DEF Connection, IInv, TypeOK, hello
<1>4. A!Authenticate(ws, c)
  BY <1>1, <1>2, <1>3 DEF A!Authenticate, Connection, addClient
<1>. QED
  BY <1>4 DEF A!ANext

(* A rejected connection writes at most the auth error, to nobody.        *)
LEMMA RejectConnectionRefines ==
    ASSUME IInv, NEW ws \in Links, RejectConnection(ws)
    PROVE  [A!ANext]_A!avars
<1>. DEFINE err == Msg("error", Server, NoId, NoLink)
<1>1. err \in Frame /\ err.via = NoLink /\ err.to = NoId
  BY RelayAssumption DEF Msg, Frame, OutTypes, err
<1>2. CASE sent' = [sent EXCEPT ![ws] = Append(@, err)]
  BY <1>1, <1>2, WriteRefines DEF RejectConnection, IInv
<1>3. CASE sent' = sent
  BY <1>3 DEF RejectConnection, A!avars
<1>. QED
  BY <1>2, <1>3 DEF RejectConnection, err

(* The parse error of a malformed frame goes to its sender, to nobody.   *)
LEMMA MalformedMessageRefines ==
    ASSUME IInv, NEW ws \in Links, MalformedMessage(ws)
    PROVE  A!ANext
<1>. DEFINE err == Msg("error", Server, NoId, NoLink)
<1>1. err \in Frame /\ err.via = NoLink /\ err.to = NoId
  BY RelayAssumption DEF Msg, Frame, OutTypes, err
<1>. QED
  BY <1>1, WriteRefines DEF MalformedMessage, IInv, err

(* routeMessage writes at most one frame, a Reply or a Relay; a frame for *)
(* a link that is not open is dropped, which the abstraction cannot see.  *)
LEMMA MessageRefines ==
    ASSUME IInv, NEW ws \in Links, NEW msg \in InMsgs, Message(ws, msg)
    PROVE  [A!ANext]_A!avars
<1>1. RouteEffect(ws)
  BY RouteMessageEffect DEF Message
<1>2. UNCHANGED <<wsId, sessions>>
  BY <1>1 DEF Message, RouteEffect
<1>3. CASE sent' = sent
  BY <1>2, <1>3 DEF A!avars
<1>4. CASE \E x \in Links, f \in Frame : FrameOK(x, f) /\ Routed(x, f)
                                         /\ sent' = sendMessage(sent, x, f)
  <2>1. PICK x \in Links, f \in Frame : FrameOK(x, f) /\ Routed(x, f)
                                        /\ sent' = sendMessage(sent, x, f)
    BY <1>4
  <2>2. CASE readyState[x] /= "open"
    BY <1>2, <2>1, <2>2 DEF sendMessage, A!avars
  <2>3. CASE readyState[x] = "open"
    <3>1. sent' = [sent EXCEPT ![x] = Append(@, f)]
      BY <2>1, <2>3 DEF sendMessage
    <3>2. \/ f.via = NoLink /\ f.to \in {NoId, wsId[x]}
          \/ f.via /= NoLink /\ f.from = wsId[f.via] /\ f.to \in Ids /\ sessions[f.to] = x
      BY <2>1 DEF FrameOK, Routed
    <3>. QED
      BY <1>2, <3>1, <3>2, WriteRefines DEF IInv
  <2>. QED
    BY <2>2, <2>3
<1>. QED
  BY <1>1, <1>3, <1>4 DEF RouteEffect

(* Close of the link registered under its id is an abstract Depart: the  *)
(* directory entry of that id is the only one naming the link, and the   *)
(* 'leave' written to each client that targets the id is the abstract    *)
(* Notice.  Close of a link displaced from the directory changes neither *)
(* ids, directory nor frames.                                              *)
LEMMA CloseRefines ==
    ASSUME IInv, NEW ws \in Links, Close(ws)
    PROVE  [A!ANext]_A!avars
<1>. USE RelayAssumption
<1>. DEFINE id == connectedClients[ws].id
            bye(o) == Msg("leave", id, connectedClients[o].id, ws)
<1>1. /\ IsClient(ws) /\ id \in Ids /\ id = wsId[ws]
  BY DEF Close, IInv, TypeOK, ClientsLive, ClientIdMatches, IsClient, ClientInfo, Absent
<1>2. UNCHANGED wsId
  BY DEF Close
<1>3. CASE sessions[id] /= ws
  BY <1>2, <1>3 DEF Close, removeClient, A!avars
<1>4. CASE sessions[id] = ws
  <2>1. /\ sessions' = [sessions EXCEPT ![id] = NoLink]
        /\ sent' = [o \in Links |-> IF o \in Notified(ws) /\ readyState[o] = "open"
                                    THEN Append(sent[o], bye(o)) ELSE sent[o]]
    BY <1>4 DEF Close, removeClient
  <2>2. sessions' = [i \in Ids |-> IF sessions[i] = ws THEN NoLink ELSE sessions[i]]
    <3>1. \A i \in Ids : sessions[i] = ws => i = id
      BY DEF IInv, TypeOK, DirectoryConsistent
    <3>. QED
      BY <1>1, <1>4, <2>1, <3>1 DEF IInv, TypeOK
  <2>3. ASSUME NEW o \in Links, o \in Notified(ws)
        PROVE  o /= ws /\ wsId[o] /= NoId /\ bye(o) = A!Notice(ws, o)
    <3>1. o /= ws /\ IsClient(o)
      BY <2>3 DEF Notified
    <3>2. connectedClients[o] \in ClientInfo /\ connectedClients[o].id = wsId[o]
      BY <3>1 DEF IInv, TypeOK, ClientIdMatches, IsClient
    <3>. QED
      BY <1>1, <3>1, <3>2 DEF ClientInfo, Msg, A!Notice
  <2>4. \A o \in Links :
           \/ sent'[o] = sent[o]
           \/ o # ws /\ wsId[o] # NoId /\ sent'[o] = Append(sent[o], A!Notice(ws, o))
    BY <2>1, <2>3
  <2>5. A!Depart(ws)
    BY <1>1, <1>2, <2>1, <2>2, <2>4 DEF A!Depart
  <2>. QED
    BY <2>5 DEF A!ANext
<1>. QED
  BY <1>3, <1>4

(* Every step of the relay, from a state of IInv, is a step of           *)
(* RelayAbstract or leaves ids, directory and frames unchanged.           *)
LEMMA StepRefines == IInv /\ [Next]_vars => [A!ANext]_A!avars
<1>. SUFFICES ASSUME IInv, [Next]_vars PROVE [A!ANext]_A!avars
  OBVIOUS
<1>1. CASE \E ws \in Links, id \in Ids : Connection(ws, id)
  BY <1>1, ConnectionRefines
<1>2. CASE \E ws \in Links : RejectConnection(ws)
  BY <1>2, RejectConnectionRefines
<1>3. CASE \E ws \in Links : CloseStart(ws)
  BY <1>3 DEF CloseStart, A!avars
<1>4. CASE \E ws \in Links, msg \in InMsgs : Message(ws, msg)
  BY <1>4, MessageRefines
<1>5. CASE \E ws \in Links : MalformedMessage(ws)
  BY <1>5, MalformedMessageRefines
<1>6. CASE \E ws \in Links : Close(ws)
  BY <1>6, CloseRefines
<1>7. CASE UNCHANGED vars
  BY <1>7 DEF vars, A!avars
<1>. QED
  BY <1>1, <1>2, <1>3, <1>4, <1>5, <1>6, <1>7 DEF Next

(* The relay's initial state is the abstract one: no ids, an empty       *)
(* directory, no frames.                                                   *)
LEMMA InitRefines == Init => A!AInit
BY DEF Init, A!AInit

(* The relay implements RelayAbstract under the refinement mapping: ids  *)
(* are authenticated once, the directory points an id only at a link of   *)
(* that id, relayed frames carry their origin's id and reach only the    *)
(* link the directory holds for their addressee, and a departure is      *)
(* announced only to other authenticated links -- for every finite set  *)
(* of links and ids.                                                       *)
THEOREM RelayImplementsAbstract == Spec => RelayRefines
<1>1. Init => A!AInit
  BY InitRefines
<1>2. IInv /\ [Next]_vars => [A!ANext]_A!avars
  BY StepRefines
<1>. QED
  BY <1>1, <1>2, IInvHolds, PTL DEF Spec, RelayRefines, A!ASpec
-----------------------------------------------------------------------------
(***************************************************************************)
(* DepartureNotified.  The refinement gives the fact it rests on: the log *)
(* of a link only ever grows, since every abstract step appends to it or  *)
(* leaves it alone.  Then a client still waiting on a departed target     *)
(* either was told before, or is told by the very Close that unregisters  *)
(* the target (removeClient's forEach).                                   *)
(***************************************************************************)

(* DepartureNotified for one client o.                                    *)
LeaveSeen(o) ==
    LET t == connectedClients[o].targetId
    IN  (readyState[o] = "open" /\ IsClient(o) /\ t /= NoId /\ sessions[t] = NoLink)
          => \E m \in Sent(o) : m.type = "leave" /\ m.from = t /\ m.to = wsId[o]

(* Appending to a log keeps the frames already in it.                     *)
LEMMA AppendKeeps ==
    ASSUME NEW s \in Seq(Frame), NEW m
    PROVE  Elems(s) \subseteq Elems(Append(s, m))
<1>1. s \in Seq(Frame \cup {m})
  BY SeqMonotonic
<1>2. m \in Frame \cup {m}
  OBVIOUS
<1>. QED
  BY <1>1, <1>2, AppendElems

(* No step of the relay removes a frame from a log: the step is an        *)
(* abstract one, and each of those appends or leaves the mailbox alone.   *)
LEMMA LogsGrow ==
    ASSUME IInv, [Next]_vars
    PROVE  \A o \in Links : Sent(o) \subseteq Sent(o)'
<1>1. [A!ANext]_A!avars
  BY StepRefines
<1>2. \A o \in Links : sent'[o] = sent[o] \/ \E m : sent'[o] = Append(sent[o], m)
  <2>1. CASE \E l \in Links, i \in Ids : A!Authenticate(l, i)
    BY <2>1 DEF A!Authenticate, A!Write, IInv, TypeOK
  <2>2. CASE \E l \in Links : \E m \in A!Written(l) : A!Reply(l, m) \/ A!Relay(l, m)
    <3>0. PICK l \in Links : \E m \in A!Written(l) : A!Reply(l, m) \/ A!Relay(l, m)
      BY <2>2
    <3>1. PICK m \in A!Written(l) : A!Reply(l, m) \/ A!Relay(l, m)
      BY <3>0
    <3>2. sent' = [sent EXCEPT ![l] = Append(@, m)]
      BY <3>1 DEF A!Reply, A!Relay, A!Write
    <3>. QED
      BY <3>2 DEF IInv, TypeOK
  <2>3. CASE \E l \in Links : A!Depart(l)
    BY <2>3 DEF A!Depart
  <2>4. CASE UNCHANGED A!avars
    BY <2>4 DEF A!avars
  <2>. QED
    BY <1>1, <2>1, <2>2, <2>3, <2>4 DEF A!ANext
<1>. SUFFICES ASSUME NEW o \in Links PROVE Sent(o) \subseteq Sent(o)'
  OBVIOUS
<1>3. sent[o] \in Seq(Frame)
  BY DEF IInv, TypeOK
<1>. QED
  BY <1>2, <1>3, AppendKeeps, SentElems

(* A client's target is a client id or none.                              *)
LEMMA TargetTyped ==
    ASSUME IInv PROVE \A o \in Links : connectedClients[o].targetId \in Ids \cup {NoId}
BY DEF IInv, TypeOK, ClientInfo, Absent

(* A step that keeps o's id, record and log, does not reopen it and does  *)
(* not unregister its target keeps o notified.                            *)
LEMMA NoticeStable ==
    ASSUME NEW o \in Links, LeaveSeen(o),
           Sent(o) \subseteq Sent(o)',
           wsId'[o] = wsId[o], connectedClients'[o] = connectedClients[o],
           readyState'[o] = "open" => readyState[o] = "open",
           connectedClients[o].targetId /= NoId
             => (sessions'[connectedClients[o].targetId] = NoLink
                   => sessions[connectedClients[o].targetId] = NoLink)
    PROVE  LeaveSeen(o)'
BY DEF LeaveSeen, IsClient

(* Every step keeps every open client whose target left the directory     *)
(* notified of that departure.                                             *)
LEMMA DepartureStep ==
    ASSUME IInv, DepartureNotified, [Next]_vars
    PROVE  DepartureNotified'
<1>. USE RelayAssumption
<1>. SUFFICES ASSUME NEW o \in Links PROVE LeaveSeen(o)'
  BY DEF DepartureNotified, LeaveSeen
<1>. DEFINE t == connectedClients[o].targetId
<1>1. Sent(o) \subseteq Sent(o)'
  BY LogsGrow
<1>2. LeaveSeen(o)
  BY DEF DepartureNotified, LeaveSeen
<1>3. CASE \E ws \in Links, c \in Ids : Connection(ws, c)
  <2>1. PICK ws \in Links, c \in Ids : Connection(ws, c)
    BY <1>3
  <2>2. CASE o = ws
    BY <2>1, <2>2 DEF Connection, addClient, LeaveSeen, IInv, TypeOK
  <2>3. CASE o /= ws
    <3>1. /\ wsId'[o] = wsId[o] /\ connectedClients'[o] = connectedClients[o]
          /\ readyState'[o] = "open" => readyState[o] = "open"
      BY <2>1, <2>3 DEF Connection, addClient, IInv, TypeOK
    <3>2. t /= NoId => (sessions'[t] = NoLink => sessions[t] = NoLink)
      BY <2>1, TargetTyped DEF Connection, addClient, IInv, TypeOK
    <3>. QED
      BY <1>1, <1>2, <3>1, <3>2, NoticeStable
  <2>. QED
    BY <2>2, <2>3
<1>4. CASE \E ws \in Links : RejectConnection(ws)
  BY <1>1, <1>2, <1>4, NoticeStable DEF RejectConnection, IInv, TypeOK
<1>5. CASE \E ws \in Links : CloseStart(ws)
  BY <1>1, <1>2, <1>5, NoticeStable DEF CloseStart, IInv, TypeOK
<1>6. CASE \E ws \in Links : MalformedMessage(ws)
  BY <1>1, <1>2, <1>6, NoticeStable DEF MalformedMessage, IInv, TypeOK
<1>7. CASE \E ws \in Links, msg \in InMsgs : Message(ws, msg)
  <2>1. PICK ws \in Links, msg \in InMsgs : Message(ws, msg)
    BY <1>7
  <2>2. RouteEffect(ws) /\ UNCHANGED <<readyState, wsId>>
    BY <2>1, RouteMessageEffect DEF Message
  <2>3. CASE connectedClients'[o] = connectedClients[o]
    BY <1>1, <1>2, <2>2, <2>3, NoticeStable DEF RouteEffect
  <2>4. CASE connectedClients'[o] /= connectedClients[o]
    <3>1. PICK u \in Ids \cup {NoId} :
               /\ u = NoId \/ sessions[u] /= NoLink
               /\ connectedClients' = [connectedClients EXCEPT ![ws].targetId = u]
      BY <2>2, <2>4 DEF RouteEffect
    <3>2. o = ws /\ connectedClients'[o].targetId = u
      BY <2>4, <3>1 DEF IInv, TypeOK
    <3>. QED
      BY <2>2, <3>1, <3>2 DEF RouteEffect, LeaveSeen
  <2>. QED
    BY <2>3, <2>4
<1>8. CASE \E ws \in Links : Close(ws)
  <2>1. PICK ws \in Links : Close(ws)
    BY <1>8
  <2>. DEFINE id == connectedClients[ws].id
              bye == Msg("leave", id, connectedClients[o].id, ws)
  <2>2. CASE o = ws
    BY <2>1, <2>2 DEF Close, LeaveSeen, IInv, TypeOK
  <2>3. CASE o /= ws
    <3>1. /\ connectedClients'[o] = connectedClients[o]
          /\ readyState'[o] = readyState[o]
          /\ UNCHANGED wsId
      BY <2>1, <2>3 DEF Close, removeClient, IInv, TypeOK
    <3>2. CASE sessions[id] /= ws
      BY <1>1, <1>2, <2>1, <3>1, <3>2, NoticeStable DEF Close, removeClient
    <3>3. CASE sessions[id] = ws /\ t /= id
      <4>1. t /= NoId => sessions'[t] = sessions[t]
        BY <2>1, <3>3, TargetTyped DEF Close, removeClient, IInv, TypeOK
      <4>. QED
        BY <1>1, <1>2, <3>1, <4>1, NoticeStable
    <3>4. CASE sessions[id] = ws /\ t = id
      <4>. SUFFICES ASSUME readyState'[o] = "open", IsClient(o)'
                    PROVE  \E m \in Sent(o)' : m.type = "leave" /\ m.from = t
                                               /\ m.to = wsId'[o]
        BY <3>1 DEF LeaveSeen
      <4>1. IsClient(o) /\ readyState[o] = "open" /\ o \in Notified(ws)
        BY <2>3, <3>1, <3>4 DEF IsClient, Notified
      <4>2. sent'[o] = Append(sent[o], bye)
        BY <2>1, <3>4, <4>1 DEF Close, removeClient
      <4>3. connectedClients[o] \in ClientInfo /\ connectedClients[o].id = wsId[o]
        BY <4>1 DEF IInv, TypeOK, ClientIdMatches, IsClient
      <4>4. connectedClients[ws] \in ClientInfo
        BY <2>1 DEF Close, IInv, TypeOK, ClientsLive, IsClient
      <4>5. bye \in Frame /\ sent[o] \in Seq(Frame)
        BY <4>3, <4>4 DEF Msg, Frame, OutTypes, ClientInfo, IInv, TypeOK
      <4>6. Elems(Append(sent[o], bye)) = Elems(sent[o]) \cup {bye}
        BY <4>5, AppendElems
      <4>7. bye \in Sent(o)'
        BY <4>2, <4>6, SentElems
      <4>. QED
        BY <3>1, <3>4, <4>3, <4>7 DEF Msg
    <3>. QED
      BY <3>2, <3>3, <3>4
  <2>. QED
    BY <2>2, <2>3
<1>9. CASE UNCHANGED vars
  BY <1>2, <1>9 DEF vars, LeaveSeen, Sent, IsClient
<1>. QED
  BY <1>3, <1>4, <1>5, <1>6, <1>7, <1>8, <1>9 DEF Next

(* Spec section 4.3: a client still open whose target has left the        *)
(* directory has been sent a 'leave' from that target (removeClient's     *)
(* forEach over connectedClients) -- for every finite set of links and    *)
(* ids, whatever the order of connections, joins, displacements and       *)
(* closes.                                                                 *)
THEOREM DepartureNotifiedHolds == Spec => []DepartureNotified
<1>1. Init => DepartureNotified
  BY DEF Init, DepartureNotified, IsClient, Absent
<1>2. IInv /\ DepartureNotified /\ [Next]_vars => DepartureNotified'
  BY DepartureStep
<1>. QED
  BY <1>1, <1>2, IInvHolds, PTL DEF Spec
=============================================================================
