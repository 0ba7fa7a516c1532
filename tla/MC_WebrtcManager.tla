------------------------- MODULE MC_WebrtcManager --------------------------
(* The manager with two application threads, so that a start() or a        *)
(* connectToPeer can race a stop() (the cockpit's SIGINT handler calls     *)
(* stop), and two remote peers, so that the index holds several entries.   *)
EXTENDS WebrtcManagerRefinement, TLC

CONSTANTS c1, c2, p1, p2

MCCallers == {c1, c2}
MCPeers == {p1, p2}
MCHandlers == {"onPeerDisconnected"}

(* Callers are interchangeable, and so are peers: no property names one.   *)
MCSymmetry == Permutations(MCCallers) \cup Permutations(MCPeers)
=============================================================================
