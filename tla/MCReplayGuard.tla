---------------------------- MODULE MCReplayGuard ----------------------------
(***************************************************************************)
(* ReplayGuard for TLC: a window of three bits and eight sequence numbers, *)
(* so that arrivals fall inside it, on either side of its edge and, by a   *)
(* jump of more than its width, past all of it.                            *)
(***************************************************************************)
EXTENDS ReplayGuard

MCSeqs == 0 .. 7
=============================================================================
