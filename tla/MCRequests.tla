----------------------------- MODULE MCRequests -----------------------------
(***************************************************************************)
(* Requests for TLC: one session and two calls, on one stream for the      *)
(* liveness properties and, for the others, on two of which the client may *)
(* open one.                                                               *)
(***************************************************************************)
EXTENDS RequestsInvariant, TLC

Once == [c \in Calls |-> 1]

\* One call retries, the others send once.
OneRetries ==
  LET patient == CHOOSE c \in Calls : TRUE
  IN [c \in Calls |-> IF c = patient THEN 1 ELSE 0]

Symmetry == Permutations(Calls) \cup Permutations(Streams)
=============================================================================
