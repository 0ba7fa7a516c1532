---------------------------- MODULE RelayAbstract ----------------------------
(***************************************************************************)
(* What the signaling relay promises its clients, without WebSockets,     *)
(* handlers or the per-link client records: a directory of authenticated  *)
(* ids and one mailbox per link.                                           *)
(*                                                                         *)
(*   auth[l]  the id link l authenticated with, NoId before               *)
(*   dir[i]   the link reachable under id i, NoLink when none              *)
(*   mail[l]  the frames written to link l, in order                       *)
(*                                                                         *)
(* A link authenticates once and becomes reachable under its id.  The     *)
(* server may write its own frames to a link, addressed to nobody or to   *)
(* the link's id.  A frame relayed on behalf of a link carries that       *)
(* link's id as `from' and is written only to the link the directory      *)
(* holds for its addressee.  A departing link leaves the directory and    *)
(* may tell any other authenticated link, by a frame addressed to it.     *)
(* SignalingRelay implements this specification (SignalingRelayRefinement).*)
(***************************************************************************)
EXTENDS Naturals, Sequences

CONSTANTS
    Links,    \* the connections
    Ids,      \* the client ids
    NoId,     \* no id
    NoLink,   \* no link
    Frames    \* the frames: records with type, from, to and via

VARIABLES auth, dir, mail

avars == <<auth, dir, mail>>

AInit ==
    /\ auth = [l \in Links |-> NoId]
    /\ dir = [i \in Ids |-> NoLink]
    /\ mail = [l \in Links |-> <<>>]

Write(l, m) == mail' = [mail EXCEPT ![l] = Append(@, m)]

(* The frames a step appends to the mailbox of l.                          *)
Written(l) == {mail'[l][k] : k \in Len(mail[l]) + 1 .. Len(mail'[l])}

(* Link l authenticates as i: it becomes the one reachable under i, and   *)
(* the server greets it.                                                   *)
Authenticate(l, i) ==
    /\ auth[l] = NoId
    /\ auth' = [auth EXCEPT ![l] = i]
    /\ dir' = [dir EXCEPT ![i] = l]
    /\ \E m \in Written(l) :
          m \in Frames /\ m.via = NoLink /\ m.to = i /\ Write(l, m)

(* A frame of the server's own, to nobody or to the link's own id.        *)
Reply(l, m) ==
    /\ m \in Frames
    /\ m.via = NoLink
    /\ m.to \in {NoId, auth[l]}
    /\ Write(l, m)
    /\ UNCHANGED <<auth, dir>>

(* A frame relayed on behalf of link m.via, to the link reachable under   *)
(* its addressee.                                                          *)
Relay(l, m) ==
    /\ m \in Frames
    /\ m.via \in Links
    /\ m.from = auth[m.via]
    /\ m.to \in Ids /\ dir[m.to] = l
    /\ Write(l, m)
    /\ UNCHANGED <<auth, dir>>

(* The notice of l's departure written to link o.                          *)
Notice(l, o) == [type |-> "leave", from |-> auth[l], to |-> auth[o], via |-> l]

(* Link l departs: no id reaches it any more, and some other links are    *)
(* told, each at most once.                                                *)
Depart(l) ==
    /\ auth[l] # NoId
    /\ dir' = [i \in Ids |-> IF dir[i] = l THEN NoLink ELSE dir[i]]
    /\ DOMAIN mail' = Links
    /\ \A o \in Links :
          \/ mail'[o] = mail[o]
          \/ o # l /\ auth[o] # NoId /\ mail'[o] = Append(mail[o], Notice(l, o))
    /\ UNCHANGED auth

ANext ==
    \/ \E l \in Links, i \in Ids : Authenticate(l, i)
    \/ \E l \in Links : \E m \in Written(l) : Reply(l, m) \/ Relay(l, m)
    \/ \E l \in Links : Depart(l)

ASpec == AInit /\ [][ANext]_avars
=============================================================================
