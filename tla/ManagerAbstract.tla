--------------------------- MODULE ManagerAbstract ---------------------------
(***************************************************************************)
(* What a WebRTC manager promises about its lifecycle and its peer         *)
(* connections (IWebrtcManager, src/webrtc/i_webrtc_manager.h), without    *)
(* threads, the mutex, the signaling client or the callbacks.              *)
(*                                                                         *)
(*   life     the lifecycle stage                                          *)
(*   conn[p]  the connection to peer p: "none", "live", or "closed" once   *)
(*            its closure was initiated                                    *)
(*                                                                         *)
(* init() goes through Initializing to Initialized, start() to Running,   *)
(* stop() through Stopping to Stopped and closes every connection on the  *)
(* way.  A connection is opened only while Running; one may be closed by   *)
(* the application, and dropped by the WebRTC stack, at any time.         *)
(* WebrtcManager implements this specification (WebrtcManagerRefinement). *)
(***************************************************************************)
CONSTANT Peers

VARIABLES life, conn

mvars == <<life, conn>>

NoConn == [p \in Peers |-> "none"]

MInit == life = "Uninitialized" /\ conn = NoConn

(* A lifecycle step that leaves the connections alone.                     *)
Advance(from, to) == life \in from /\ life' = to /\ UNCHANGED conn

BeginInit == Advance({"Uninitialized"}, "Initializing")
EndInit   == Advance({"Initializing"}, "Initialized")
Start     == Advance({"Initialized"}, "Running")
BeginStop == Advance({"Initialized", "Running"}, "Stopping")

(* stop() closes every connection while Stopping, and is Stopped only     *)
(* with none left.                                                         *)
CloseAll == life = "Stopping" /\ conn' = NoConn /\ UNCHANGED life
EndStop  == life = "Stopping" /\ life' = "Stopped" /\ conn' = NoConn

Open(p)  == life = "Running" /\ conn[p] = "none"
              /\ conn' = [conn EXCEPT ![p] = "live"] /\ UNCHANGED life
Close(p) == conn[p] = "live" /\ conn' = [conn EXCEPT ![p] = "closed"] /\ UNCHANGED life
Drop(p)  == conn[p] # "none" /\ conn' = [conn EXCEPT ![p] = "none"] /\ UNCHANGED life

MNext ==
    \/ BeginInit \/ EndInit \/ Start \/ BeginStop \/ CloseAll \/ EndStop
    \/ \E p \in Peers : Open(p) \/ Close(p) \/ Drop(p)

MSpec == MInit /\ [][MNext]_mvars

(* A stopped manager holds no connection.                                 *)
MStoppedEmpty == life = "Stopped" => conn = NoConn
=============================================================================
