--------------------------- MODULE DuplicateFilter ---------------------------
(***************************************************************************)
(* What a replay window promises, without a bitmap: the exact set of the   *)
(* sequence numbers let through is remembered, and a number passes exactly *)
(* when it is not in that set and less than Width behind the newest one.   *)
(***************************************************************************)
EXTENDS Integers

CONSTANTS Seqs, Width

VARIABLES passed,     \* the numbers let through so far
          verdict     \* the last number offered and what was decided

Fresh(q) == q \notin passed /\ \A p \in passed : p - q < Width

Init == passed = {} /\ verdict = [seq |-> -1, accepted |-> FALSE]

Offer(q) ==
  IF Fresh(q)
  THEN passed' = passed \cup {q} /\ verdict' = [seq |-> q, accepted |-> TRUE]
  ELSE passed' = passed /\ verdict' = [seq |-> q, accepted |-> FALSE]

Next == \E q \in Seqs : Offer(q)

Spec == Init /\ [][Next]_<<passed, verdict>>
=============================================================================
