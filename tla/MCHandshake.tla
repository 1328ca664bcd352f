----------------------------- MODULE MCHandshake -----------------------------
(***************************************************************************)
(* Handshake for TLC.                                                      *)
(***************************************************************************)
EXTENDS HandshakeInvariant

NoncePairs == ClientNonces \X ServerNonces
=============================================================================
