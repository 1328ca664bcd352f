----------------------------- MODULE TokenBucket -----------------------------
(***************************************************************************)
(* The token bucket of fastudp/security.py (class TokenBucket). Tokens are *)
(* counted in a unit that makes `elapsed * rate` whole: COST of them are   *)
(* the 1.0 a datagram costs. Rounding of floats is left out.               *)
(***************************************************************************)
EXTENDS Integers

CONSTANTS
  RATE,              \* tokens per tick of the clock
  BURST,             \* what a bucket holds
  COST               \* what a datagram costs

ASSUME BucketAssumption == RATE \in Nat /\ BURST \in Nat /\ COST \in Nat \ {0}

Buckets == [tokens : 0 .. BURST, updated : Nat]

NewBucket(t) == [tokens |-> BURST, updated |-> t]

\* Mutant: the bucket has no brim.
RefilledUncapped(b, t) == b.tokens + (t - b.updated) * RATE

\* The tokens at time t.
Refilled(b, t) ==
  LET level == b.tokens + (t - b.updated) * RATE
  IN IF level < BURST THEN level ELSE BURST

\* The verdict of allow().
Grants(b, t) == Refilled(b, t) >= COST

\* Mutant: the time of the last refill is kept on a grant.
AllowRefillingTwice(b, t) ==
  IF Grants(b, t)
  THEN [b EXCEPT !.tokens = Refilled(b, t) - COST]
  ELSE [tokens |-> Refilled(b, t), updated |-> t]

\* Mutant: a refusal is charged as well.
AllowOnCredit(b, t) == [tokens |-> Refilled(b, t) - COST, updated |-> t]

\* The bucket after allow().
Allow(b, t) ==
  [tokens |-> IF Grants(b, t) THEN Refilled(b, t) - COST ELSE Refilled(b, t),
   updated |-> t]
=============================================================================
