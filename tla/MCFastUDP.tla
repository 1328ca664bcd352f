----------------------------- MODULE MCFastUDP -----------------------------
(***************************************************************************)
(* FastUDP for TLC.                                                        *)
(***************************************************************************)
EXTENDS FastUDPInvariant, TLC

NoncePairs == ClientNonces \X ServerNonces

NoRetries == [c \in Calls |-> 0]

Symmetry == Permutations(Calls) \cup Permutations(SessionIds)
=============================================================================
