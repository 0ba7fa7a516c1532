---------------------------- MODULE MC_CockpitApp ----------------------------
(* Model-checking instance of CockpitApp: two signals, either placement of *)
(* the handler (chosen by the cfg).                                        *)
EXTENDS CockpitAppProofs, TLC
=============================================================================
