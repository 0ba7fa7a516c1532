------------------------- MODULE MC_SignalingRelay -------------------------
(* The relay on a small instance: three links, two client ids, so that a  *)
(* second link can claim an id in use and a third can join either peer.   *)
EXTENDS SignalingRelayRefinement, TLC

CONSTANTS l1, l2, l3, a, b

MCLinks == {l1, l2, l3}
MCIds == {a, b}
MCFwdTypes == {"offer"}
MCMaxRouted == 3

(* Links and ids are interchangeable for every invariant checked.         *)
MCSymmetry == Permutations(MCLinks) \cup Permutations(MCIds)
=============================================================================
