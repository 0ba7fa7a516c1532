--------------------------- MODULE MC_SensorSource ---------------------------
(***************************************************************************)
(* Model-checking instance of SensorSource: two callers, the owner, and   *)
(* up to four calls, enough for start, stop and a restart by one caller   *)
(* overlapping a call of the other.  It extends the proofs module so     *)
(* that the pass run also checks the inductive invariant SerialInv.     *)
(***************************************************************************)
EXTENDS SensorSourceProofs, TLC
=============================================================================
