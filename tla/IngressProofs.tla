---------------------------- MODULE IngressProofs ----------------------------
(***************************************************************************)
(* The rate limit is exact, what the server drops in silence is explained, *)
(* and what it answers is what the templates of the routes ask for: for    *)
(* every rate, burst and cost, every set of addresses, every size limit,   *)
(* and every set of templates, signatures and calls.                       *)
(***************************************************************************)
EXTENDS Ingress, SequenceTheorems, WellFoundedInduction, TLAPS

LimitTypes ==
  /\ now \in 0 .. MaxTime
  /\ rate_limits \in [Ips -> Buckets \cup {NoBucket}]
  /\ \A ip \in Ips : rate_limits[ip].updated <= now
  /\ since \in [Ips -> [0 .. MaxTime -> Nat]] /\ refused \in [Ips -> Nat]

\* What a stretch of time earns and what datagrams cost, named so that the steps
\* below are linear.
Earned(d) == d * RATE

Price(c) == COST * c

\* What a bucket holds and what it let through add up, for every stretch of time to
\* its last refill, to no more than the contract, and for one of them to just that.
Balanced(b, count) ==
  /\ \A t \in 0 .. b.updated :
       Price(count[t]) + b.tokens <= BURST + Earned(b.updated - t)
  /\ \E t \in 0 .. b.updated :
       Price(count[t]) + b.tokens = BURST + Earned(b.updated - t)
  /\ \A t \in 0 .. MaxTime : t > b.updated => count[t] = 0

BucketsBalanced ==
  \A ip \in Ips :
    IF rate_limits[ip] = NoBucket
    THEN \A t \in 0 .. MaxTime : since[ip][t] = 0
    ELSE Balanced(rate_limits[ip], since[ip])

LimitInv == LimitTypes /\ BucketsBalanced

-----------------------------------------------------------------------------

LEMMA Distribute == \A k, a, b \in Int : k * (a + b) = k * a + k * b /\ (a + b) * k = a * k + b * k
BY SMT

LEMMA Times == \A a, b \in Nat : a * b \in Nat /\ a * b = b * a
BY SMT

LEMMA EarnedFacts ==
  /\ Earned(0) = 0
  /\ \A d \in Nat : Earned(d) \in Nat
  /\ \A d, e \in Nat : Earned(d + e) = Earned(d) + Earned(e)
  /\ \A d \in Nat : Earned(d) = RATE * d
<1>1. RATE \in Nat
  BY BucketAssumption
<1>2. Earned(0) = 0
  BY <1>1 DEF Earned
<1>3. \A d \in Nat : Earned(d) \in Nat /\ Earned(d) = RATE * d
  BY <1>1, Times DEF Earned
<1>4. \A d, e \in Nat : Earned(d + e) = Earned(d) + Earned(e)
  BY <1>1, Distribute DEF Earned
<1> QED
  BY <1>2, <1>3, <1>4

LEMMA PriceFacts ==
  /\ Price(0) = 0
  /\ \A c \in Nat : Price(c) \in Nat
  /\ \A c \in Nat : Price(c + 1) = Price(c) + COST
<1>1. COST \in Nat
  BY BucketAssumption
<1>2. Price(0) = 0
  BY <1>1 DEF Price
<1>3. \A c \in Nat : Price(c) \in Nat
  BY <1>1, Times DEF Price
<1>4. ASSUME NEW c \in Nat PROVE Price(c + 1) = Price(c) + COST
  <2>1. COST * (c + 1) = COST * c + COST * 1
    BY <1>1, Distribute
  <2>2. COST * 1 = COST
    BY <1>1
  <2> QED
    BY <2>1, <2>2 DEF Price
<1> QED
  BY <1>2, <1>3, <1>4

\* Refilling keeps the balance: what the brim cuts off is what the shortest stretch,
\* the present, allows.
LEMMA RefillBalanced ==
  ASSUME NEW b \in Buckets, NEW count \in [0 .. MaxTime -> Nat], NEW n \in 0 .. MaxTime,
         b.updated <= n, Balanced(b, count)
  PROVE  Balanced([tokens |-> Refilled(b, n), updated |-> n], count)
<1> DEFINE gain == Earned(n - b.updated)
           r == Refilled(b, n)
           full == [tokens |-> r, updated |-> n]
<1>1. /\ b.tokens \in Nat /\ b.tokens <= BURST /\ b.updated \in Nat /\ n \in Nat
      /\ n - b.updated \in Nat /\ BURST \in Nat /\ MaxTime \in Nat
  BY BucketAssumption, IngressAssumption DEF Buckets
<1>2. gain \in Nat
  BY <1>1, EarnedFacts
<1>3. r = (IF b.tokens + gain < BURST THEN b.tokens + gain ELSE BURST)
  BY DEF Refilled, Earned
<1>4. ASSUME NEW t \in 0 .. b.updated
      PROVE  /\ Earned(n - t) = Earned(b.updated - t) + gain
             /\ Earned(b.updated - t) \in Nat /\ Price(count[t]) \in Nat
             /\ t \in 0 .. n
  <2>1. /\ n - t = (b.updated - t) + (n - b.updated) /\ b.updated - t \in Nat
        /\ count[t] \in Nat /\ t \in 0 .. n
    BY <1>1, SMTT(30)
  <2>2. Earned((b.updated - t) + (n - b.updated)) = Earned(b.updated - t) + Earned(n - b.updated)
    BY <1>1, <2>1, EarnedFacts, Zenon
  <2>3. Earned(b.updated - t) \in Nat /\ Price(count[t]) \in Nat
    BY <2>1, EarnedFacts, PriceFacts, Zenon
  <2> QED
    BY <2>1, <2>2, <2>3, Zenon
<1>5. ASSUME NEW t \in 0 .. n, t > b.updated
      PROVE  Price(count[t]) = 0 /\ Earned(n - t) \in Nat
  <2>1. count[t] = 0 /\ n - t \in Nat
    BY <1>1, <1>5 DEF Balanced
  <2> QED
    BY <2>1, EarnedFacts, PriceFacts
<1>6. full.tokens = r /\ full.updated = n
  OBVIOUS
<1> HIDE DEF gain, r, full
<1>7. ASSUME NEW t \in 0 .. n
      PROVE  Price(count[t]) + r <= BURST + Earned(n - t)
  <2>1. CASE t <= b.updated
    <3>1. t \in 0 .. b.updated
      BY <1>1, <2>1
    <3>2. Price(count[t]) + b.tokens <= BURST + Earned(b.updated - t)
      BY <3>1 DEF Balanced
    <3>3. r <= b.tokens + gain /\ r \in Nat
      BY <1>1, <1>2, <1>3, SMTT(30)
    <3>4. /\ Earned(n - t) = Earned(b.updated - t) + gain
          /\ Earned(b.updated - t) \in Nat /\ Price(count[t]) \in Nat
      BY <1>4, <3>1, Zenon
    <3> QED
      BY <1>1, <1>2, <3>2, <3>3, <3>4, SMTT(30)
  <2>2. CASE t > b.updated
    <3>1. r <= BURST /\ r \in Nat
      BY <1>1, <1>2, <1>3, SMTT(30)
    <3> QED
      BY <1>1, <1>5, <2>2, <3>1
  <2> QED
    BY <1>1, <2>1, <2>2
<1>8. \E t \in 0 .. n : Price(count[t]) + r = BURST + Earned(n - t)
  <2>1. PICK t \in 0 .. b.updated : Price(count[t]) + b.tokens = BURST + Earned(b.updated - t)
    BY DEF Balanced
  <2>2. CASE b.tokens + gain < BURST
    <3>1. r = b.tokens + gain
      BY <1>3, <2>2
    <3>2. /\ Earned(n - t) = Earned(b.updated - t) + gain /\ t \in 0 .. n
          /\ Earned(b.updated - t) \in Nat /\ Price(count[t]) \in Nat
      BY <1>4, Zenon
    <3>3. (Price(count[t]) + b.tokens) + gain = (BURST + Earned(b.updated - t)) + gain
      BY <2>1, Zenon
    <3>4. Price(count[t]) + r = BURST + Earned(n - t)
      BY <1>1, <1>2, <3>1, <3>2, <3>3, SMTT(30)
    <3> QED
      BY <3>2, <3>4
  <2>3. CASE ~ (b.tokens + gain < BURST) /\ b.updated < n
    <3>1. n \in 0 .. n /\ n - n = 0 /\ r = BURST
      BY <1>1, <1>3, <2>3
    <3>2. Price(count[n]) = 0
      BY <1>5, <2>3, <3>1
    <3>3. Price(count[n]) + r = BURST + Earned(n - n)
      BY <1>1, <3>1, <3>2, EarnedFacts
    <3> QED
      BY <3>1, <3>3
  <2>4. CASE ~ (b.tokens + gain < BURST) /\ b.updated = n
    <3>1. gain = 0
      BY <1>1, <2>4, EarnedFacts DEF gain
    <3>2. r = b.tokens
      BY <1>1, <1>3, <2>4, <3>1
    <3> QED
      BY <2>1, <2>4, <3>2
  <2> QED
    BY <1>1, <2>2, <2>3, <2>4
<1>9. \A t \in 0 .. MaxTime : t > n => count[t] = 0
  BY <1>1 DEF Balanced
<1>10. Balanced(full, count)
  BY <1>6, <1>7, <1>8, <1>9 DEF Balanced
<1> QED
  BY <1>10 DEF full, r

\* A bucket is balanced when it is made.
LEMMA FreshBalanced ==
  ASSUME NEW count \in [0 .. MaxTime -> Nat], NEW n \in 0 .. MaxTime,
         \A t \in 0 .. MaxTime : count[t] = 0
  PROVE  Balanced(NewBucket(n), count)
<1>1. /\ n \in Nat /\ BURST \in Nat /\ MaxTime \in Nat
      /\ NewBucket(n).tokens = BURST /\ NewBucket(n).updated = n
  BY BucketAssumption, IngressAssumption DEF NewBucket
<1>2. ASSUME NEW t \in 0 .. n PROVE Price(count[t]) = 0 /\ Earned(n - t) \in Nat
  <2>1. count[t] = 0 /\ n - t \in Nat
    BY <1>1
  <2> QED
    BY <2>1, EarnedFacts, PriceFacts
<1>3. n \in 0 .. n /\ n - n = 0
  BY <1>1
<1>4. Price(count[n]) + BURST = BURST + Earned(n - n)
  BY <1>1, <1>2, <1>3, EarnedFacts
<1>5. ASSUME NEW t \in 0 .. n PROVE Price(count[t]) + BURST <= BURST + Earned(n - t)
  BY <1>1, <1>2
<1> QED
  BY <1>1, <1>3, <1>4, <1>5 DEF Balanced

\* A datagram takes its cost from the bucket and counts in every stretch.
LEMMA ChargeBalanced ==
  ASSUME NEW level \in Nat, NEW n \in 0 .. MaxTime, NEW count \in [0 .. MaxTime -> Nat],
         Balanced([tokens |-> level, updated |-> n], count), level >= COST
  PROVE  Balanced([tokens |-> level - COST, updated |-> n],
                  [t \in 0 .. MaxTime |-> IF t <= n THEN count[t] + 1 ELSE count[t]])
<1> DEFINE more == [t \in 0 .. MaxTime |-> IF t <= n THEN count[t] + 1 ELSE count[t]]
           b == [tokens |-> level, updated |-> n]
           less == [tokens |-> level - COST, updated |-> n]
<1>1. n \in Nat /\ COST \in Nat /\ MaxTime \in Nat
  BY BucketAssumption, IngressAssumption
<1>2. ASSUME NEW t \in 0 .. n
      PROVE  Price(more[t]) = Price(count[t]) + COST /\ Price(count[t]) \in Nat
  <2>1. count[t] \in Nat /\ more[t] = count[t] + 1
    BY <1>1
  <2> QED
    BY <2>1, PriceFacts
<1>3. \A t \in 0 .. MaxTime : t > n => more[t] = count[t]
  BY <1>1
<1>4. b.tokens = level /\ b.updated = n /\ less.tokens = level - COST /\ less.updated = n
  OBVIOUS
<1> HIDE DEF more, b, less
<1>5. /\ \A t \in 0 .. n : Price(count[t]) + level <= BURST + Earned(n - t)
      /\ \E t \in 0 .. n : Price(count[t]) + level = BURST + Earned(n - t)
      /\ \A t \in 0 .. MaxTime : t > n => count[t] = 0
  <2>1. Balanced(b, count)
    BY DEF b
  <2> QED
    BY <1>4, <2>1 DEF Balanced
<1>6. ASSUME NEW t \in 0 .. n
      PROVE  Price(more[t]) + (level - COST) = Price(count[t]) + level
  BY <1>1, <1>2
<1>7. Balanced(less, more)
  BY <1>3, <1>4, <1>5, <1>6 DEF Balanced
<1> QED
  BY <1>7 DEF less, more

-----------------------------------------------------------------------------

\* The bucket of an address, refilled to the present, is balanced.
LEMMA PresentBalanced ==
  ASSUME LimitInv, NEW ip \in Ips
  PROVE  /\ Bucket(ip) \in Buckets /\ Bucket(ip).updated <= now
         /\ Refilled(Bucket(ip), now) \in 0 .. BURST
         /\ Balanced([tokens |-> Refilled(Bucket(ip), now), updated |-> now], since[ip])
<1>1. now \in Nat /\ now \in 0 .. MaxTime /\ since[ip] \in [0 .. MaxTime -> Nat]
  BY IngressAssumption DEF LimitInv, LimitTypes
<1>2. Bucket(ip) \in Buckets /\ Bucket(ip).updated <= now /\ Balanced(Bucket(ip), since[ip])
  <2>1. CASE rate_limits[ip] = NoBucket
    <3>1. Bucket(ip) = NewBucket(now) /\ \A t \in 0 .. MaxTime : since[ip][t] = 0
      BY <2>1 DEF Bucket, LimitInv, BucketsBalanced
    <3>2. NewBucket(now) \in Buckets /\ NewBucket(now).updated <= now
      BY <1>1, BucketAssumption DEF NewBucket, Buckets
    <3> QED
      BY <1>1, <3>1, <3>2, FreshBalanced
  <2>2. CASE rate_limits[ip] # NoBucket
    BY <2>2 DEF Bucket, LimitInv, LimitTypes, BucketsBalanced
  <2> QED
    BY <2>1, <2>2
<1>3. Refilled(Bucket(ip), now) \in 0 .. BURST
  <2>1. Bucket(ip).tokens \in Nat /\ now - Bucket(ip).updated \in Nat /\ BURST \in Nat
    BY <1>1, <1>2, BucketAssumption DEF Buckets
  <2>2. Earned(now - Bucket(ip).updated) \in Nat
    BY <2>1, EarnedFacts
  <2> QED
    BY <2>1, <2>2 DEF Refilled, Earned
<1> QED
  BY <1>1, <1>2, <1>3, RefillBalanced

\* The bucket grants exactly what the contract allows.
LEMMA GrantsConforming ==
  ASSUME LimitInv, NEW ip \in Ips
  PROVE  Grants(Bucket(ip), now) <=> Meter!Conforms(ip)
<1> DEFINE level == Refilled(Bucket(ip), now)
           b == [tokens |-> level, updated |-> now]
<1>1. /\ now \in Nat /\ MaxTime \in Nat /\ now <= MaxTime /\ COST \in Nat /\ BURST \in Nat
      /\ since[ip] \in [0 .. MaxTime -> Nat]
  BY BucketAssumption, IngressAssumption DEF LimitInv, LimitTypes
<1>0. level \in Nat
  <2>1. level \in 0 .. BURST
    BY PresentBalanced
  <2> QED
    BY <1>1, <2>1
<1>2. Balanced(b, since[ip]) /\ b.tokens = level /\ b.updated = now
  BY PresentBalanced
<1> HIDE DEF b, level
<1>3. ASSUME NEW t \in 0 .. now
      PROVE  /\ COST * (since[ip][t] + 1) = Price(since[ip][t]) + COST
             /\ Price(since[ip][t]) \in Nat
             /\ RATE * (now - t) = Earned(now - t) /\ Earned(now - t) \in Nat
  <2>1. since[ip][t] \in Nat /\ now - t \in Nat
    BY <1>1
  <2>2. Price(since[ip][t] + 1) = COST * (since[ip][t] + 1)
    BY DEF Price
  <2> QED
    BY <2>1, <2>2, EarnedFacts, PriceFacts
<1>4. Meter!Conforms(ip) <=>
        \A t \in 0 .. now : Price(since[ip][t]) + COST <= BURST + Earned(now - t)
  BY <1>3 DEF Meter!Conforms
<1>5. ASSUME level >= COST, NEW t \in 0 .. now
      PROVE  Price(since[ip][t]) + COST <= BURST + Earned(now - t)
  <2>1. Price(since[ip][t]) + level <= BURST + Earned(now - t)
    BY <1>2 DEF Balanced
  <2>2. Price(since[ip][t]) \in Nat /\ Earned(now - t) \in Nat
    BY <1>3, Zenon
  <2> QED
    BY <1>0, <1>1, <1>5, <2>1, <2>2
<1>6. ASSUME \A t \in 0 .. now : Price(since[ip][t]) + COST <= BURST + Earned(now - t)
      PROVE  level >= COST
  <2>1. PICK t \in 0 .. now : Price(since[ip][t]) + level = BURST + Earned(now - t)
    BY <1>2 DEF Balanced
  <2>2. Price(since[ip][t]) + COST <= BURST + Earned(now - t)
    BY <1>6
  <2>3. Price(since[ip][t]) \in Nat /\ Earned(now - t) \in Nat
    BY <1>3, Zenon
  <2> QED
    BY <1>0, <1>1, <2>1, <2>2, <2>3
<1> QED
  BY <1>4, <1>5, <1>6 DEF Grants, level

-----------------------------------------------------------------------------

LEMMA LimitInit == Init => LimitInv
<1> SUFFICES ASSUME Init PROVE LimitInv
  OBVIOUS
<1>1. LimitTypes
  BY IngressAssumption DEF Init, LimitTypes, NoBucket
<1>2. BucketsBalanced
  BY DEF Init, BucketsBalanced
<1> QED
  BY <1>1, <1>2 DEF LimitInv

\* The verdict on a datagram of one address leaves its bucket typed and refilled to
\* the present, and the buckets of the others as they are.
LEMMA BucketAfter ==
  ASSUME LimitInv, NEW ip \in Ips, RateAllow(ip)
  PROVE  /\ rate_limits' \in [Ips -> Buckets \cup {NoBucket}]
         /\ \A other \in Ips : rate_limits'[other].updated <= now
         /\ \A other \in Ips \ {ip} : rate_limits'[other] = rate_limits[other]
         /\ rate_limits'[ip] = Allow(Bucket(ip), now) /\ rate_limits'[ip] # NoBucket
<1> DEFINE b == Allow(Bucket(ip), now)
<1>1. /\ rate_limits \in [Ips -> Buckets \cup {NoBucket}] /\ now \in Nat
      /\ \A other \in Ips : rate_limits[other].updated <= now
  BY IngressAssumption DEF LimitInv, LimitTypes
<1>2. b.updated = now /\ b \in Buckets
  <2>1. Refilled(Bucket(ip), now) \in 0 .. BURST
    BY PresentBalanced
  <2> QED
    BY <1>1, <2>1, BucketAssumption DEF Allow, Grants, Buckets
<1>3. b # NoBucket
  <2>1. NoBucket.updated = -1
    BY DEF NoBucket
  <2> QED
    BY <1>1, <1>2, <2>1
<1> HIDE DEF b
<1>4. rate_limits' = [rate_limits EXCEPT ![ip] = b]
  BY DEF RateAllow, b
<1>5. /\ rate_limits' \in [Ips -> Buckets \cup {NoBucket}] /\ rate_limits'[ip] = b
      /\ \A other \in Ips \ {ip} : rate_limits'[other] = rate_limits[other]
  BY <1>1, <1>2, <1>4
<1>6. \A other \in Ips : rate_limits'[other].updated <= now
  BY <1>1, <1>2, <1>5
<1> QED
  BY <1>3, <1>5, <1>6 DEF b

LEMMA LimitStep == ASSUME LimitInv, [Next]_vars PROVE LimitInv'
<1>1. /\ now \in Nat /\ now \in 0 .. MaxTime /\ MaxTime \in Nat
      /\ since \in [Ips -> [0 .. MaxTime -> Nat]] /\ refused \in [Ips -> Nat]
  BY IngressAssumption DEF LimitInv, LimitTypes
<1>2. CASE Tick
  <2>1. ASSUME NEW ip \in Ips PROVE rate_limits[ip].updated <= now + 1
    <3>1. rate_limits[ip] \in Buckets \/ rate_limits[ip] = NoBucket
      BY DEF LimitInv, LimitTypes
    <3>2. rate_limits[ip].updated \in Int
      <4>1. CASE rate_limits[ip] \in Buckets
        BY <4>1 DEF Buckets
      <4>2. CASE rate_limits[ip] = NoBucket
        BY <4>2 DEF NoBucket
      <4> QED
        BY <3>1, <4>1, <4>2
    <3>3. rate_limits[ip].updated <= now
      BY DEF LimitInv, LimitTypes
    <3> QED
      BY <1>1, <3>2, <3>3
  <2>2. now' = now + 1 /\ now' \in 0 .. MaxTime /\ UNCHANGED <<rate_limits, since, refused>>
    BY <1>1, <1>2 DEF Tick
  <2>3. LimitTypes'
    BY <2>1, <2>2 DEF LimitInv, LimitTypes
  <2>4. BucketsBalanced'
    BY <2>2 DEF LimitInv, BucketsBalanced, Balanced
  <2> QED
    BY <2>3, <2>4 DEF LimitInv
<1>3. ASSUME NEW ip \in Ips, LetThrough(ip) PROVE LimitInv'
  <2> DEFINE level == Refilled(Bucket(ip), now)
             more == [t \in 0 .. MaxTime |-> IF t <= now THEN since[ip][t] + 1 ELSE since[ip][t]]
  <2>1. /\ RateAllow(ip) /\ now' = now /\ refused' = refused /\ level >= COST
        /\ since' = [since EXCEPT ![ip] = more]
    BY <1>1, <1>3 DEF LetThrough, RateAllow, Grants
  <2>2. more \in [0 .. MaxTime -> Nat]
    BY <1>1
  <2>3. since' \in [Ips -> [0 .. MaxTime -> Nat]] /\ since'[ip] = more
        /\ \A other \in Ips \ {ip} : since'[other] = since[other]
    BY <1>1, <2>1, <2>2
  <2>4. LimitTypes'
    BY <1>1, <2>1, <2>3, BucketAfter DEF LimitTypes
  <2>5. level \in Nat /\ Balanced([tokens |-> level, updated |-> now], since[ip])
    BY PresentBalanced, BucketAssumption
  <2>6. Balanced([tokens |-> level - COST, updated |-> now], more)
    BY <1>1, <2>1, <2>5, ChargeBalanced
  <2>7. rate_limits'[ip] = [tokens |-> level - COST, updated |-> now]
    BY <2>1, BucketAfter DEF Allow, Grants
  <2> HIDE DEF level, more
  <2>8. BucketsBalanced'
    BY <2>1, <2>3, <2>6, <2>7, BucketAfter DEF LimitInv, BucketsBalanced, Balanced
  <2> QED
    BY <2>4, <2>8 DEF LimitInv
<1>4. ASSUME NEW ip \in Ips, Refuse(ip) PROVE LimitInv'
  <2>1. /\ RateAllow(ip) /\ now' = now /\ since' = since /\ ~ Grants(Bucket(ip), now)
        /\ refused' \in [Ips -> Nat]
    BY <1>1, <1>4 DEF Refuse, RateAllow
  <2>2. LimitTypes'
    BY <1>1, <2>1, BucketAfter DEF LimitTypes
  <2>3. rate_limits'[ip] = [tokens |-> Refilled(Bucket(ip), now), updated |-> now]
    BY <2>1, BucketAfter DEF Allow
  <2>4. Balanced(rate_limits'[ip], since[ip])
    BY <2>3, PresentBalanced
  <2>5. BucketsBalanced'
    BY <2>1, <2>4, BucketAfter DEF LimitInv, BucketsBalanced, Balanced
  <2> QED
    BY <2>2, <2>5 DEF LimitInv
<1>5. CASE UNCHANGED limitVars
  BY <1>5 DEF limitVars, LimitInv, LimitTypes, BucketsBalanced, Balanced
<1> QED
  BY <1>2, <1>3, <1>4, <1>5
     DEF Next, vars, Register, Issue, ReceiveOther, ReceiveRequest

\* What the buckets hold and let through is in balance, for every rate, burst, cost
\* and set of addresses.
THEOREM Invariance == Spec => []LimitInv
BY LimitInit, LimitStep, PTL DEF Spec

\* _rate_allow never lets more through than burst and rate allow, in any stretch of
\* time.
THEOREM RateKept == Spec => []WithinRate
<1>1. ASSUME LimitInv PROVE WithinRate
  <2> SUFFICES ASSUME NEW ip \in Ips, NEW t \in 0 .. now
               PROVE  COST * since[ip][t] <= BURST + RATE * (now - t)
    BY DEF WithinRate
  <2> DEFINE level == Refilled(Bucket(ip), now)
             b == [tokens |-> level, updated |-> now]
  <2>1. /\ now \in Nat /\ MaxTime \in Nat /\ now <= MaxTime /\ BURST \in Nat
        /\ since[ip] \in [0 .. MaxTime -> Nat]
    BY <1>1, BucketAssumption, IngressAssumption DEF LimitInv, LimitTypes
  <2>2. level \in 0 .. BURST /\ Balanced(b, since[ip]) /\ b.tokens = level /\ b.updated = now
    BY <1>1, PresentBalanced
  <2> HIDE DEF b, level
  <2>3. Price(since[ip][t]) + level <= BURST + Earned(now - t)
    BY <2>2 DEF Balanced
  <2>4. since[ip][t] \in Nat /\ now - t \in Nat
    BY <2>1
  <2>5. Price(since[ip][t]) \in Nat /\ Earned(now - t) \in Nat
    BY <2>4, PriceFacts, EarnedFacts, Zenon
  <2>6. Price(since[ip][t]) <= BURST + Earned(now - t)
    BY <2>1, <2>2, <2>3, <2>5
  <2>7. Earned(now - t) = RATE * (now - t)
    BY <2>4, EarnedFacts, Zenon
  <2> QED
    BY <2>6, <2>7 DEF Price
<1> QED
  BY <1>1, Invariance, PTL

\* The buckets implement the meter: a datagram is refused when it would exceed the
\* contract of its address in some stretch of time, and never otherwise.
THEOREM BucketsAreExact == Spec => ImplementsMeter
<1>1. Init => Meter!Init
  BY DEF Init, Meter!Init
<1>2. ASSUME LimitInv, [Next]_vars PROVE [Meter!Next]_(Meter!meterVars)
  <2>1. CASE Tick
    BY <2>1 DEF Tick, Meter!Next, Meter!Tick
  <2>2. ASSUME NEW ip \in Ips, LetThrough(ip) PROVE Meter!Next
    <3>1. Meter!Conforms(ip)
      BY <1>2, <2>2, GrantsConforming DEF LetThrough
    <3>2. Meter!Pass(ip)
      BY <2>2, <3>1 DEF LetThrough, RateAllow, Meter!Pass
    <3> QED
      BY <3>2 DEF Meter!Next
  <2>3. ASSUME NEW ip \in Ips, Refuse(ip) PROVE Meter!Next
    <3>1. ~ Meter!Conforms(ip)
      BY <1>2, <2>3, GrantsConforming DEF Refuse
    <3>2. Meter!TurnAway(ip)
      BY <2>3, <3>1 DEF Refuse, RateAllow, Meter!TurnAway
    <3> QED
      BY <3>2 DEF Meter!Next
  <2>4. CASE UNCHANGED limitVars
    BY <2>4 DEF limitVars, Meter!meterVars
  <2> QED
    BY <1>2, <2>1, <2>2, <2>3, <2>4
       DEF Next, vars, Register, Issue, ReceiveOther, ReceiveRequest
<1> QED
  BY <1>1, <1>2, Invariance, PTL DEF Spec, ImplementsMeter, Meter!Spec

-----------------------------------------------------------------------------

\* Every packet is what request() makes of a call within its limits and of a number
\* that was drawn, each number once; what was dropped in silence had no answer to
\* get, and what was answered had one.
Answerable(d) == Readable(d) /\ Splits(d.call)

PacketInv ==
  /\ next_seq \in Nat
  /\ \A d \in sent :
       /\ \E c \in Calls : \E q \in 0 .. next_seq - 1 :
            /\ d = Packet(c, q)
            /\ PathBytes(c) <= MAX_PATH_BYTES /\ c.body <= MAX_BODY_BYTES
       /\ d.seq \in silent => ~ Answerable(d)
       /\ (\E a \in answered : a.seq = d.seq) => Answerable(d)
  /\ NumbersUnique
  /\ \A q \in silent : q < next_seq /\ q \in Nat
  /\ \A a \in answered : a.seq < next_seq /\ a.seq \in Nat

LEMMA PacketFacts ==
  ASSUME NEW c \in Calls, NEW q \in Nat
  PROVE  /\ PathBytes(c) \in Nat /\ c.body \in Nat /\ TAG \in Nat /\ HEADER_SIZE \in Nat
         /\ Packet(c, q).call = c /\ Packet(c, q).seq = q
         /\ Packet(c, q).path_len = PathBytes(c) /\ Packet(c, q).body_len = c.body + TAG
         /\ Packet(c, q).size = HEADER_SIZE + PathBytes(c) + c.body + TAG
<1>1. Len(c.path) \in Nat /\ Len(c.query) \in Nat /\ c.body \in Nat
  BY CallsAssumption
<1>2. TAG \in Nat /\ HEADER_SIZE \in Nat
  BY IngressAssumption
<1>3. PathBytes(c) \in Nat
  <2>1. \A a, b \in Nat : a + b \in Nat
    OBVIOUS
  <2> QED
    BY <1>1, <2>1, Zenon DEF PathBytes
<1>4. /\ Packet(c, q).call = c /\ Packet(c, q).seq = q
      /\ Packet(c, q).path_len = PathBytes(c) /\ Packet(c, q).body_len = c.body + TAG
      /\ Packet(c, q).size = HEADER_SIZE + PathBytes(c) + c.body + TAG
  BY DEF Packet
<1> QED
  BY <1>1, <1>2, <1>3, <1>4, Zenon

LEMMA PacketStep == ASSUME PacketInv, [Next]_vars PROVE PacketInv'
<1> USE DEF PacketInv
<1>1. ASSUME NEW call \in Calls, Issue(call) PROVE PacketInv'
  <2> DEFINE p == Packet(call, next_seq)
  <2>1. /\ next_seq' = next_seq + 1 /\ next_seq' \in Nat /\ silent' = silent
        /\ answered' = answered /\ call.body <= MAX_BODY_BYTES
    BY <1>1 DEF Issue
  <2>2. ASSUME NEW d \in sent
        PROVE  /\ \E c \in Calls : \E q \in 0 .. next_seq' - 1 :
                    /\ d = Packet(c, q)
                    /\ PathBytes(c) <= MAX_PATH_BYTES /\ c.body <= MAX_BODY_BYTES
               /\ d.seq \in silent' => ~ Answerable(d)
               /\ (\E a \in answered' : a.seq = d.seq) => Answerable(d)
               /\ d.seq \in Nat /\ d.seq < next_seq
    <3>1. PICK c \in Calls, q \in 0 .. next_seq - 1 :
            /\ d = Packet(c, q)
            /\ PathBytes(c) <= MAX_PATH_BYTES /\ c.body <= MAX_BODY_BYTES
      OBVIOUS
    <3>2. q \in 0 .. next_seq' - 1 /\ q \in Nat /\ q < next_seq
      BY <2>1
    <3>3. d.seq = q
      BY <3>1, <3>2, PacketFacts
    <3>4. /\ d.seq \in silent' => ~ Answerable(d)
          /\ (\E a \in answered' : a.seq = d.seq) => Answerable(d)
      BY <2>1
    <3> QED
      BY <3>1, <3>2, <3>3, <3>4
  <2>3. CASE sent' = sent
    BY <2>1, <2>2, <2>3 DEF NumbersUnique
  <2>4. CASE sent' = sent \cup {p} /\ PathBytes(call) <= MAX_PATH_BYTES
    <3>1. p.seq = next_seq /\ next_seq \in 0 .. next_seq' - 1
      BY <2>1, PacketFacts
    <3>2. \E c \in Calls : \E q \in 0 .. next_seq' - 1 :
            /\ p = Packet(c, q)
            /\ PathBytes(c) <= MAX_PATH_BYTES /\ c.body <= MAX_BODY_BYTES
      BY <2>1, <2>4, <3>1
    <3>3. p.seq \notin silent' /\ ~ \E a \in answered' : a.seq = p.seq
      BY <2>1, <3>1
    <3> HIDE DEF p
    <3>4. NumbersUnique'
      BY <2>2, <2>4, <3>1 DEF NumbersUnique
    <3>5. /\ \A q \in silent' : q < next_seq' /\ q \in Nat
          /\ \A a \in answered' : a.seq < next_seq' /\ a.seq \in Nat
      BY <2>1
    <3> QED
      BY <2>1, <2>2, <2>4, <3>2, <3>3, <3>4, <3>5 DEF Answerable, Readable
  <2>5. PathBytes(call) \in Nat /\ MAX_PATH_BYTES \in Nat
    BY PacketFacts, IngressAssumption
  <2> QED
    BY <1>1, <2>3, <2>4, <2>5 DEF Issue, Pack
<1>2. ASSUME NEW ip \in Ips, NEW d \in sent, ReceiveRequest(ip, d) PROVE PacketInv'
  <2>1. UNCHANGED <<next_seq, sent>>
    BY <1>2 DEF ReceiveRequest
  <2> DEFINE answer == [seq |-> d.seq, call |-> d.call, outcome |-> Outcome(routes, d.call)]
  <2>2. PICK c \in Calls, q \in 0 .. next_seq - 1 : d = Packet(c, q)
    OBVIOUS
  <2>3. d.seq = q /\ q \in Nat /\ q < next_seq
    BY <2>2, PacketFacts
  <2>4. CASE Answerable(d) /\ answered' = answered \cup {answer} /\ silent' = silent
    <3>1. answer.seq = d.seq
      OBVIOUS
    <3> HIDE DEF answer
    <3>2. \A e \in sent : (\E a \in answered' : a.seq = e.seq) => Answerable(e)
      BY <2>4, <3>1 DEF NumbersUnique
    <3>3. \A a \in answered' : a.seq < next_seq /\ a.seq \in Nat
      BY <2>3, <2>4, <3>1
    <3> QED
      BY <2>1, <2>4, <3>2, <3>3 DEF NumbersUnique
  <2>5. CASE ~ Answerable(d) /\ silent' = silent \cup {d.seq} /\ answered' = answered
    <3>1. \A e \in sent : e.seq \in silent' => ~ Answerable(e)
      BY <2>5 DEF NumbersUnique
    <3> QED
      BY <2>1, <2>3, <2>5, <3>1 DEF NumbersUnique
  <2> QED
    BY <1>2, <2>4, <2>5 DEF ReceiveRequest, Answerable
<1>3. CASE UNCHANGED <<next_seq, sent, answered, silent>>
  BY <1>3 DEF NumbersUnique
<1> QED
  BY <1>1, <1>2, <1>3
     DEF Next, vars, limitVars, requestVars, Tick, Register, Refuse, ReceiveOther

\* Packets keep their shape for any calls, sizes and numbers.
THEOREM PacketInvariance == Spec => []PacketInv
<1>1. Init => PacketInv
  BY DEF Init, PacketInv, NumbersUnique
<1> QED
  BY <1>1, PacketStep, PTL DEF Spec

\* A number of the stream is never sent with two requests, also where the header has
\* no room for more: request() raises there and does not wrap.
THEOREM NumbersStayUnique == Spec => []NumbersUnique
<1>1. PacketInv => NumbersUnique
  BY DEF PacketInv
<1> QED
  BY <1>1, PacketInvariance, PTL

\* Whatever request() sends is answered if it is let through, unless it is too long
\* for the server, has no path or one that urlsplit rejects, and these never are.
THEOREM SilenceHasReason == Spec => []SilenceExplained
<1>1. ASSUME PacketInv PROVE SilenceExplained
  <2> SUFFICES ASSUME NEW d \in sent
               PROVE  LET hopeless == \/ d.size > MAX_PACKET_SIZE
                                      \/ PathBytes(d.call) = 0
                                      \/ ~ Splits(d.call)
                      IN /\ d.seq \in silent => hopeless
                         /\ hopeless => \A a \in answered : a.seq # d.seq
    BY DEF SilenceExplained
  <2>1. PICK c \in Calls, q \in 0 .. next_seq - 1 :
          d = Packet(c, q) /\ PathBytes(c) <= MAX_PATH_BYTES
    BY <1>1 DEF PacketInv
  <2>2. q \in Nat
    BY <1>1 DEF PacketInv
  <2>3. /\ d.call = c /\ d.path_len = PathBytes(c) /\ d.body_len = c.body + TAG
        /\ d.size = HEADER_SIZE + PathBytes(c) + c.body + TAG
        /\ PathBytes(c) \in Nat /\ c.body \in Nat /\ TAG \in Nat /\ HEADER_SIZE \in Nat
    BY <2>1, <2>2, PacketFacts
  <2>4. MAX_PACKET_SIZE \in Nat /\ MAX_BODY_BYTES \in Nat
        /\ MAX_PACKET_SIZE - HEADER_SIZE <= MAX_BODY_BYTES
    BY IngressAssumption, SizesAssumption
  <2> DEFINE hopeless == \/ d.size > MAX_PACKET_SIZE \/ PathBytes(d.call) = 0
                         \/ ~ Splits(d.call)
  <2>5. ASSUME ~ hopeless PROVE Answerable(d)
    <3>1. d.size \in HEADER_SIZE .. MAX_PACKET_SIZE /\ d.body_len <= MAX_BODY_BYTES
          /\ d.path_len > 0 /\ HEADER_SIZE + d.path_len + d.body_len <= d.size
      BY <2>3, <2>4, <2>5
    <3> QED
      BY <2>1, <2>3, <2>5, <3>1 DEF Readable, Answerable
  <2>6. ASSUME hopeless PROVE ~ Answerable(d)
    BY <2>3, <2>4, <2>6 DEF Readable, Answerable
  <2>7. /\ d.seq \in silent => ~ Answerable(d)
        /\ (\E a \in answered : a.seq = d.seq) => Answerable(d)
    BY <1>1 DEF PacketInv
  <2> QED
    BY <2>5, <2>6, <2>7
<1> QED
  BY <1>1, PacketInvariance, PTL

-----------------------------------------------------------------------------

\* The routes of the registrations that compile.
Methods == UNION {Range(r.methods) : r \in Registrations}

Compiling == {r \in Registrations : Compiles(r.template)}

Compiled ==
  {[method |-> m, template |-> r.template, regex |-> Compile(r.template),
    handler |-> r.handler] : m \in Methods, r \in Compiling}

\* The table holds nothing but those, in the order they were added; packets have
\* numbers of the header, and answers are to calls.
RecordsTyped ==
  /\ routes \in Seq(Compiled) /\ sent \subseteq Packets
  /\ \A a \in answered :
       a.seq \in Nat /\ a.call \in Calls /\ a.outcome.status \in {200, 404, 500}

LEMMA AddTyped ==
  ASSUME NEW r \in Registrations, Compiles(r.template), NEW table \in Seq(Compiled)
  PROVE  /\ Add(table, r.methods, r.template, r.handler) \in Seq(Compiled)
         /\ Len(Add(table, r.methods, r.template, r.handler)) = Len(table) + Len(r.methods)
         /\ Len(r.methods) \in Nat
         /\ \A i \in 1 .. Len(table) :
              Add(table, r.methods, r.template, r.handler)[i] = table[i]
<1> DEFINE added == [i \in DOMAIN r.methods |->
                       [method |-> r.methods[i], template |-> r.template,
                        regex |-> Compile(r.template), handler |-> r.handler]]
<1>1. Len(r.methods) \in Nat /\ DOMAIN r.methods = 1 .. Len(r.methods)
  BY RegistrationsAssumption
<1>2. ASSUME NEW i \in 1 .. Len(r.methods) PROVE added[i] \in Compiled
  <2>1. r.methods[i] \in Methods /\ r \in Compiling
    BY <1>1 DEF Methods, Compiling, Range
  <2>2. added[i] = [method |-> r.methods[i], template |-> r.template,
                    regex |-> Compile(r.template), handler |-> r.handler]
    BY <1>1
  <2> HIDE DEF added
  <2> QED
    BY <2>1, <2>2 DEF Compiled
<1>3. added \in Seq(Compiled) /\ Len(added) = Len(r.methods)
  <2>1. added \in [1 .. Len(r.methods) -> Compiled]
    BY <1>1, <1>2
  <2> HIDE DEF added
  <2> QED
    BY <1>1, <2>1
<1>4. Add(table, r.methods, r.template, r.handler) = table \o added
  BY DEF Add
<1> HIDE DEF added
<1>5. /\ table \o added \in Seq(Compiled) /\ Len(table \o added) = Len(table) + Len(added)
      /\ \A i \in 1 .. Len(table) + Len(added) :
           (table \o added)[i] = IF i <= Len(table) THEN table[i] ELSE added[i - Len(table)]
  BY <1>3, ConcatProperties
<1>6. \A i \in 1 .. Len(table) : i \in 1 .. Len(table) + Len(added) /\ i <= Len(table)
  BY <1>1, <1>3
<1> QED
  BY <1>1, <1>3, <1>4, <1>5, <1>6, Zenon

LEMMA RecordsStep ==
  ASSUME RecordsTyped, PacketInv, [Next]_vars PROVE RecordsTyped'
<1> USE DEF RecordsTyped
<1>1. ASSUME NEW r \in Registrations, Register(r) PROVE RecordsTyped'
  BY <1>1, AddTyped DEF Register
<1>2. ASSUME NEW c \in Calls, Issue(c) PROVE RecordsTyped'
  <2>1. routes' = routes /\ answered' = answered
    BY <1>2 DEF Issue
  <2>2. CASE sent' = sent
    BY <2>1, <2>2
  <2>3. CASE sent' = sent \cup {Packet(c, next_seq)} /\ ~ (next_seq + 1 >= FIELD_VALUES)
    <3>1. next_seq \in 0 .. FIELD_VALUES - 2
      BY <2>3, IngressAssumption DEF PacketInv
    <3>2. Packet(c, next_seq) \in Packets
      BY <3>1 DEF Packets
    <3> QED
      BY <2>1, <2>3, <3>2
  <2> QED
    BY <1>2, <2>2, <2>3 DEF Issue, Pack
<1>3. ASSUME NEW ip \in Ips, NEW d \in sent, ReceiveRequest(ip, d) PROVE RecordsTyped'
  <2>1. PICK c \in Calls, q \in 0 .. next_seq - 1 : d = Packet(c, q)
    BY DEF PacketInv
  <2>2. q \in Nat
    BY DEF PacketInv
  <2>3. d.seq \in Nat /\ d.call \in Calls
    BY <2>1, <2>2, PacketFacts
  <2>4. Outcome(routes, d.call).status \in {200, 404, 500}
    BY DEF Outcome, Invoke
  <2> QED
    BY <1>3, <2>3, <2>4 DEF ReceiveRequest
<1>4. CASE UNCHANGED <<routes, sent, answered>>
  BY <1>4
<1> QED
  BY <1>1, <1>2, <1>3, <1>4
     DEF Next, vars, limitVars, requestVars, Tick, Refuse, ReceiveOther

\* The records keep their type for any routes and calls.
THEOREM RecordsInvariance == Spec => []RecordsTyped
<1>1. Init => RecordsTyped
  BY DEF Init, RecordsTyped
<1> QED
  BY <1>1, RecordsStep, PacketInvariance, PTL DEF Spec

\* Every table and counter keeps its type, for any routes, calls, sizes and rates:
\* the table holds routes that compile, and answers are a 404, a 500 or a handler's.
THEOREM TypeCorrect == Spec => []TypeOK
<1>1. ASSUME LimitInv, PacketInv, RecordsTyped PROVE TypeOK
  <2>1. ASSUME NEW r \in Range(routes)
        PROVE  /\ Compiles(r.template) /\ r.regex = Compile(r.template)
               /\ r.handler \in DOMAIN Signature
    <3>1. r \in Compiled
      BY <1>1 DEF RecordsTyped, Range
    <3>2. PICK q \in Compiling : /\ r.template = q.template /\ r.handler = q.handler
                                 /\ r.regex = Compile(q.template)
      BY <3>1 DEF Compiled
    <3>3. q \in Registrations /\ Compiles(q.template)
      BY DEF Compiling
    <3> QED
      BY <3>2, <3>3, RegistrationsAssumption
  <2>2. next_seq \in Nat /\ silent \subseteq Nat
    BY <1>1 DEF PacketInv
  <2> QED
    BY <1>1, <2>1, <2>2 DEF TypeOK, LimitInv, LimitTypes, RecordsTyped
<1> QED
  BY <1>1, Invariance, PacketInvariance, RecordsInvariance, PTL

-----------------------------------------------------------------------------
(***************************************************************************)
(* Routes. The provers at hand do not take theorems about an operator, so  *)
(* induction is put as a fact about sets of numbers; a function that is    *)
(* defined by recursion is first shown to exist, then found by it.         *)
(***************************************************************************)

\* Every set of numbers has a least one.
LEMMA Least ==
  ASSUME NEW T, T \subseteq Nat, T # {}
  PROVE  \E x \in T : \A y \in T : x <= y
<1>1. PICK x \in T : \A y \in T : ~ (<<y, x>> \in OpToRel(<, Nat))
  BY NatLessThanWellFounded, WFMin, Zenon
<1>2. \A y \in T : ~ (y < x)
  BY <1>1 DEF OpToRel
<1> QED
  BY <1>2

\* Induction up to a bound, for a set in place of a predicate.
LEMMA Climb ==
  ASSUME NEW N \in Nat, NEW S, 0 \in S, \A n \in 0 .. N - 1 : n \in S => n + 1 \in S
  PROVE  \A n \in 0 .. N : n \in S
<1> SUFFICES ASSUME NEW k \in 0 .. N, k \notin S PROVE FALSE
  OBVIOUS
<1> DEFINE T == {n \in 0 .. N : n \notin S}
<1>1. T \subseteq Nat /\ T # {}
  OBVIOUS
<1>2. PICK x \in T : \A y \in T : x <= y
  BY <1>1, Least
<1>3. x \in 1 .. N /\ x - 1 \in 0 .. N - 1
  BY <1>2
<1>4. x - 1 \in S
  BY <1>2, <1>3
<1> QED
  BY <1>2, <1>3, <1>4

LEMMA MinFacts ==
  ASSUME NEW T, T \subseteq Nat, T # {}
  PROVE  Min(T) \in T /\ \A y \in T : Min(T) <= y
BY Least, Zenon DEF Min

\* The greatest of a bounded set, as Starts and QueryParams take it.
LEMMA MaxFacts ==
  ASSUME NEW N \in Nat, NEW T, T \subseteq 0 .. N, T # {}
  PROVE  Max(T) \in T /\ \A y \in T : Max(T) >= y
<1> DEFINE U == {n \in 0 .. N : \A y \in T : n >= y}
<1>1. U \subseteq Nat /\ N \in U
  OBVIOUS
<1>2. PICK u \in U : \A y \in U : u <= y
  BY <1>1, Least
<1>3. u \in T
  <2>1. SUFFICES ASSUME u \notin T PROVE FALSE
    OBVIOUS
  <2>2. \A y \in T : y < u
    BY <1>2, <2>1
  <2>3. PICK y \in T : TRUE
    OBVIOUS
  <2>4. u \in Nat /\ u > y /\ y \in Nat
    BY <2>2, <2>3
  <2>5. u - 1 \in 0 .. N /\ \A z \in T : u - 1 >= z
    BY <2>2, <2>4
  <2> QED
    BY <1>2, <2>4, <2>5
<1>4. \E x \in T : \A y \in T : x >= y
  BY <1>2, <1>3
<1> QED
  BY <1>4, Zenon DEF Max

\* The equations of MatchesFrom, for a given table f.
MatchRow(regex, path, f, i) ==
  IF i > Len(regex) THEN {Len(path) + 1}
  ELSE {j \in 1 .. Len(path) : Stops(regex[i], path, j) \cap f[i + 1] # {}}

MatchTable(regex, path, f) == [i \in 1 .. Len(regex) + 1 |-> MatchRow(regex, path, f, i)]

\* MatchesFrom obeys the equation that defines it: a table that does is built from
\* the last element down, one element at a time.
LEMMA MatchRule ==
  ASSUME NEW regex, NEW path, Len(regex) \in Nat, Len(path) \in Nat
  PROVE  MatchesFrom(regex, path) = MatchTable(regex, path, MatchesFrom(regex, path))
<1> DEFINE L == Len(regex)
           Places == 1 .. Len(path) + 1
           Below(f, n) == \A i \in L + 1 - n .. L + 1 : f[i] = MatchRow(regex, path, f, i)
           S == {n \in 0 .. L : \E f \in [1 .. L + 1 -> SUBSET Places] : Below(f, n)}
<1>1. \A f, g, i : f[i + 1] = g[i + 1] => MatchRow(regex, path, f, i) = MatchRow(regex, path, g, i)
  BY Zenon DEF MatchRow
<1>0. L \in Nat
  OBVIOUS
<1>2. \A f : MatchRow(regex, path, f, L + 1) = {Len(path) + 1}
  BY DEF MatchRow
<1>3. \A f, i : MatchRow(regex, path, f, i) \in SUBSET Places
  BY DEF MatchRow
<1> HIDE DEF L, Places
<1>4. 0 \in S
  <2> DEFINE f == [i \in 1 .. L + 1 |-> {Len(path) + 1}]
  <2>1. f \in [1 .. L + 1 -> SUBSET Places] /\ f[L + 1] = {Len(path) + 1}
    BY <1>0, <1>2, <1>3
  <2> HIDE DEF f
  <2>2. \A i \in L + 1 - 0 .. L + 1 : i = L + 1
    BY <1>0
  <2>3. Below(f, 0)
    BY <1>2, <2>1, <2>2, Zenon
  <2> QED
    BY <1>0, <2>1, <2>3
<1>5. ASSUME NEW n \in 0 .. L - 1, n \in S PROVE n + 1 \in S
  <2>1. PICK f \in [1 .. L + 1 -> SUBSET Places] : Below(f, n)
    BY <1>5
  <2> DEFINE g == [f EXCEPT ![L - n] = MatchRow(regex, path, f, L - n)]
  <2>2. /\ L - n \in 1 .. L + 1 /\ n + 1 \in 0 .. L
        /\ L + 1 - (n + 1) = L - n
    BY <1>0
  <2>3. /\ g \in [1 .. L + 1 -> SUBSET Places]
        /\ g[L - n] = MatchRow(regex, path, f, L - n)
        /\ \A i \in 1 .. L + 1 : i # L - n => g[i] = f[i]
    BY <1>3, <2>2
  <2> HIDE DEF g
  <2>4. ASSUME NEW i \in L - n .. L + 1 PROVE g[i] = MatchRow(regex, path, g, i)
    <3>1. CASE i = L - n
      <4>1. g[i + 1] = f[i + 1]
        BY <1>0, <2>3, <3>1
      <4> QED
        BY <1>1, <2>3, <3>1, <4>1, Zenon
    <3>2. CASE i = L + 1
      <4>1. i \in L + 1 - n .. L + 1 /\ i \in 1 .. L + 1 /\ i # L - n
        BY <1>0, <3>2
      <4>2. g[i] = MatchRow(regex, path, f, L + 1)
        BY <2>1, <2>3, <3>2, <4>1, Zenon
      <4> QED
        BY <1>2, <3>2, <4>2, Zenon
    <3>3. CASE i # L - n /\ i # L + 1
      <4>0. /\ i \in 1 .. L + 1 /\ i + 1 \in 1 .. L + 1 /\ i + 1 # L - n
            /\ i \in L + 1 - n .. L + 1
        BY <1>0, <3>3
      <4>1. g[i + 1] = f[i + 1] /\ g[i] = f[i]
        BY <2>3, <3>3, <4>0, Zenon
      <4>2. f[i] = MatchRow(regex, path, f, i)
        BY <2>1, <4>0, Zenon
      <4> QED
        BY <1>1, <4>1, <4>2, Zenon
    <3> QED
      BY <3>1, <3>2, <3>3
  <2>5. Below(g, n + 1)
    BY <2>2, <2>4, Zenon
  <2> QED
    BY <2>2, <2>3, <2>5
<1> HIDE DEF S
<1>6. L \in S
  <2>1. \A n \in 0 .. L : n \in S
    BY <1>0, <1>4, <1>5, Climb, Zenon
  <2> QED
    BY <1>0, <2>1
<1>7. PICK f \in [1 .. L + 1 -> SUBSET Places] : Below(f, L)
  BY <1>6 DEF S
<1>8. f = MatchTable(regex, path, f)
  <2>1. \A i \in 1 .. L + 1 : f[i] = MatchRow(regex, path, f, i)
    BY <1>0, <1>7
  <2> QED
    BY <2>1 DEF MatchTable, L
<1>9. MatchesFrom(regex, path) = CHOOSE m : m = MatchTable(regex, path, m)
  BY SMT DEF MatchesFrom, MatchTable, MatchRow
<1> QED
  BY <1>8, <1>9, Zenon

\* What matches from a place: nothing but the end for the end of the regex, and for
\* an element a place from which it stops where the rest matches.
LEMMA MatchFacts ==
  ASSUME NEW regex, NEW path, Len(regex) \in Nat, Len(path) \in Nat
  PROVE  /\ MatchesFrom(regex, path)[Len(regex) + 1] = {Len(path) + 1}
         /\ \A i \in 1 .. Len(regex) : \A j :
              j \in MatchesFrom(regex, path)[i] <=>
                /\ j \in 1 .. Len(path)
                /\ \E k \in Stops(regex[i], path, j) : k \in MatchesFrom(regex, path)[i + 1]
         /\ \A i \in 1 .. Len(regex) + 1 : MatchesFrom(regex, path)[i] \subseteq 1 .. Len(path) + 1
<1> DEFINE m == MatchesFrom(regex, path)
<1>1. \A i \in 1 .. Len(regex) + 1 : m[i] = MatchRow(regex, path, m, i)
  <2>1. m = MatchTable(regex, path, m)
    BY MatchRule
  <2> HIDE DEF m
  <2> QED
    BY <2>1 DEF MatchTable
<1> HIDE DEF m
<1>2. m[Len(regex) + 1] = {Len(path) + 1}
  <2>1. Len(regex) + 1 \in 1 .. Len(regex) + 1 /\ Len(regex) + 1 > Len(regex)
    OBVIOUS
  <2> QED
    BY <1>1, <2>1, Zenon DEF MatchRow
<1>3. ASSUME NEW i \in 1 .. Len(regex)
      PROVE  m[i] = {j \in 1 .. Len(path) : Stops(regex[i], path, j) \cap m[i + 1] # {}}
  <2>1. i \in 1 .. Len(regex) + 1 /\ ~ (i > Len(regex))
    OBVIOUS
  <2> QED
    BY <1>1, <2>1, Zenon DEF MatchRow
<1>4. ASSUME NEW i \in 1 .. Len(regex) + 1 PROVE m[i] \subseteq 1 .. Len(path) + 1
  <2>1. CASE i = Len(regex) + 1
    BY <1>2, <2>1
  <2>2. CASE i # Len(regex) + 1
    <3>1. i \in 1 .. Len(regex)
      BY <2>2
    <3>2. m[i] \subseteq 1 .. Len(path)
      BY <1>3, <3>1
    <3> QED
      BY <3>2
  <2> QED
    BY <2>1, <2>2
<1>5. ASSUME NEW i \in 1 .. Len(regex), NEW j
      PROVE  j \in m[i] <=> /\ j \in 1 .. Len(path)
                            /\ \E k \in Stops(regex[i], path, j) : k \in m[i + 1]
  <2>1. m[i] = {n \in 1 .. Len(path) : Stops(regex[i], path, n) \cap m[i + 1] # {}}
    BY <1>3
  <2> QED
    BY <2>1, Zenon
<1> QED
  BY <1>2, <1>4, <1>5 DEF m

\* The equations of Starts, for a given row f.
StartRow(regex, path, f, i) ==
  IF i = 1 THEN 1
  ELSE Max(Stops(regex[i - 1], path, f[i - 1]) \cap MatchesFrom(regex, path)[i])

StartTable(regex, path, f) == [i \in 1 .. Len(regex) + 1 |-> StartRow(regex, path, f, i)]

\* From a place that the rest matches, the longest stop leads to another.
LEMMA NextStart ==
  ASSUME NEW regex, NEW path, Len(regex) \in Nat, Len(path) \in Nat,
         NEW i \in 1 .. Len(regex), NEW j \in MatchesFrom(regex, path)[i]
  PROVE  Max(Stops(regex[i], path, j) \cap MatchesFrom(regex, path)[i + 1])
           \in Stops(regex[i], path, j) \cap MatchesFrom(regex, path)[i + 1]
<1> DEFINE T == Stops(regex[i], path, j) \cap MatchesFrom(regex, path)[i + 1]
<1>1. T # {}
  BY MatchFacts
<1>2. T \subseteq 0 .. Len(path) + 1
  <2>1. i + 1 \in 1 .. Len(regex) + 1
    OBVIOUS
  <2>2. MatchesFrom(regex, path)[i + 1] \subseteq 1 .. Len(path) + 1
    BY <2>1, MatchFacts, Zenon
  <2> QED
    BY <2>2
<1> HIDE DEF T
<1>3. Len(path) + 1 \in Nat
  OBVIOUS
<1>4. Max(T) \in T
  BY <1>1, <1>2, <1>3, MaxFacts, Zenon
<1> QED
  BY <1>4 DEF T

\* Starts obeys its equation when the path matches: a row of starts is built from
\* the first element up, always at places that the rest matches.
LEMMA StartRule ==
  ASSUME NEW regex, NEW path, Len(regex) \in Nat, Len(path) \in Nat,
         FullMatches(regex, path)
  PROVE  Starts(regex, path) = StartTable(regex, path, Starts(regex, path))
<1> DEFINE L == Len(regex)
           m == MatchesFrom(regex, path)
           Above(f, n) == \A i \in 1 .. n + 1 : f[i] = StartRow(regex, path, f, i) /\ f[i] \in m[i]
           S == {n \in 0 .. L : \E f \in [1 .. L + 1 -> Nat] : Above(f, n)}
<1>0. L \in Nat /\ 1 \in m[1]
  BY DEF FullMatches
<1>1. \A f, g, i : f[i - 1] = g[i - 1] => StartRow(regex, path, f, i) = StartRow(regex, path, g, i)
  BY Zenon DEF StartRow
<1>2. \A f : StartRow(regex, path, f, 1) = 1
  BY DEF StartRow
<1>3. 0 \in S
  <2> DEFINE f == [i \in 1 .. L + 1 |-> 1]
  <2>1. f \in [1 .. L + 1 -> Nat] /\ f[1] = 1
    BY <1>0
  <2> HIDE DEF f
  <2>2. \A i \in 1 .. 0 + 1 : i = 1
    OBVIOUS
  <2>3. Above(f, 0)
    BY <1>0, <1>2, <2>1, <2>2, Zenon
  <2> QED
    BY <1>0, <2>1, <2>3
<1>4. ASSUME NEW n \in 0 .. L - 1, n \in S PROVE n + 1 \in S
  <2>1. PICK f \in [1 .. L + 1 -> Nat] : Above(f, n)
    BY <1>4
  <2> DEFINE next == StartRow(regex, path, f, n + 2)
             g == [f EXCEPT ![n + 2] = next]
  <2>2. n + 1 \in 1 .. L /\ n + 2 \in 1 .. L + 1 /\ n + 1 \in 0 .. L /\ n + 2 # 1
        /\ (n + 2) - 1 = n + 1 /\ (n + 1) + 1 = n + 2 /\ n + 1 \in 1 .. n + 1
    BY <1>0
  <2>3. next \in m[n + 2]
    <3>1. f[n + 1] \in m[n + 1]
      BY <2>1, <2>2, Zenon
    <3>2. next = Max(Stops(regex[n + 1], path, f[n + 1]) \cap m[n + 2])
      BY <2>2 DEF StartRow
    <3>3. Max(Stops(regex[n + 1], path, f[n + 1]) \cap m[(n + 1) + 1])
            \in Stops(regex[n + 1], path, f[n + 1]) \cap m[(n + 1) + 1]
      BY <2>2, <3>1, NextStart
    <3> HIDE DEF m, next
    <3> QED
      BY <2>2, <3>2, <3>3
  <2>4. next \in Nat
    <3>1. m[n + 2] \subseteq 1 .. Len(path) + 1
      BY <2>2, MatchFacts
    <3> HIDE DEF m, next
    <3> QED
      BY <2>3, <3>1
  <2> HIDE DEF m, next
  <2>5. /\ g \in [1 .. L + 1 -> Nat] /\ g[n + 2] = next
        /\ \A i \in 1 .. L + 1 : i # n + 2 => g[i] = f[i]
    BY <2>2, <2>4
  <2> HIDE DEF g, L
  <2>6. ASSUME NEW i \in 1 .. (n + 1) + 1
        PROVE  g[i] = StartRow(regex, path, g, i) /\ g[i] \in m[i]
    <3>1. CASE i = n + 2
      <4>1. i - 1 \in 1 .. L + 1 /\ i - 1 # n + 2
        BY <1>0, <2>2, <3>1
      <4>2. g[i - 1] = f[i - 1]
        BY <2>5, <4>1, Zenon
      <4>3. StartRow(regex, path, g, i) = StartRow(regex, path, f, i)
        BY <1>1, <4>2, Zenon
      <4>4. g[i] = StartRow(regex, path, f, i)
        BY <2>5, <3>1, Zenon DEF next
      <4>5. g[i] \in m[i]
        BY <2>3, <2>5, <3>1, Zenon
      <4> QED
        BY <4>3, <4>4, <4>5
    <3>2. CASE i # n + 2
      <4>1. i \in 1 .. n + 1 /\ i \in 1 .. L + 1 /\ (i = 1 \/ (i - 1 \in 1 .. L + 1 /\ i - 1 # n + 2))
        BY <1>0, <2>2, <3>2
      <4>2. g[i] = f[i] /\ (i = 1 \/ g[i - 1] = f[i - 1])
        BY <2>5, <3>2, <4>1, Zenon
      <4>3. f[i] = StartRow(regex, path, f, i) /\ f[i] \in m[i]
        BY <2>1, <4>1, Zenon
      <4>4. StartRow(regex, path, g, i) = StartRow(regex, path, f, i)
        <5>1. CASE i = 1
          BY <1>2, <5>1
        <5>2. CASE g[i - 1] = f[i - 1]
          BY <1>1, <5>2, Zenon
        <5> QED
          BY <4>2, <5>1, <5>2
      <4> QED
        BY <4>2, <4>3, <4>4
    <3> QED
      BY <3>1, <3>2
  <2>7. Above(g, n + 1)
    BY <2>6, Zenon
  <2> QED
    BY <2>2, <2>5, <2>7
<1> HIDE DEF S
<1>5. L \in S
  <2>1. \A n \in 0 .. L : n \in S
    BY <1>0, <1>3, <1>4, Climb, Zenon
  <2> QED
    BY <1>0, <2>1
<1>6. PICK f \in [1 .. L + 1 -> Nat] : Above(f, L)
  BY <1>5 DEF S
<1>7. f = StartTable(regex, path, f)
  BY <1>6 DEF StartTable
<1>8. Starts(regex, path) = CHOOSE s : s = StartTable(regex, path, s)
  BY SMT DEF Starts, StartTable, StartRow
<1> QED
  BY <1>7, <1>8, Zenon

\* The starts cut the path into a piece for each element, from its first place to
\* the end.
LEMMA StartFacts ==
  ASSUME NEW regex, NEW path, Len(regex) \in Nat, Len(path) \in Nat,
         FullMatches(regex, path)
  PROVE  /\ Starts(regex, path)[1] = 1
         /\ Starts(regex, path)[Len(regex) + 1] = Len(path) + 1
         /\ \A i \in 1 .. Len(regex) :
              Starts(regex, path)[i + 1] \in Stops(regex[i], path, Starts(regex, path)[i])
         /\ \A i \in 1 .. Len(regex) + 1 : Starts(regex, path)[i] \in 1 .. Len(path) + 1
<1> DEFINE L == Len(regex)
           m == MatchesFrom(regex, path)
           s == Starts(regex, path)
           S == {n \in 0 .. L : s[n + 1] \in m[n + 1]}
<1>0. L \in Nat /\ 1 \in m[1]
  BY DEF FullMatches
<1>1. \A i \in 1 .. L + 1 : s[i] = StartRow(regex, path, s, i)
  <2>1. s = StartTable(regex, path, s)
    BY StartRule
  <2> HIDE DEF s
  <2> QED
    BY <2>1 DEF StartTable
<1>2. s[1] = 1
  <2>1. 1 \in 1 .. L + 1
    BY <1>0
  <2> QED
    BY <1>1, <2>1, Zenon DEF StartRow
<1>3. ASSUME NEW i \in 1 .. L, s[i] \in m[i]
      PROVE  s[i + 1] \in Stops(regex[i], path, s[i]) \cap m[i + 1]
  <2>1. i + 1 \in 1 .. L + 1 /\ i + 1 # 1 /\ (i + 1) - 1 = i
    BY <1>0
  <2>2. s[i + 1] = StartRow(regex, path, s, i + 1)
    BY <1>1, <2>1, Zenon
  <2>3. s[i + 1] = Max(Stops(regex[i], path, s[i]) \cap m[i + 1])
    BY <2>1, <2>2 DEF StartRow
  <2>4. Max(Stops(regex[i], path, s[i]) \cap m[i + 1]) \in Stops(regex[i], path, s[i]) \cap m[i + 1]
    BY <1>3, NextStart
  <2> QED
    BY <2>3, <2>4, Zenon
<1> HIDE DEF s, m
<1>4. 0 \in S
  BY <1>0, <1>2
<1>5. ASSUME NEW n \in 0 .. L - 1, n \in S PROVE n + 1 \in S
  <2>1. n + 1 \in 1 .. L /\ n + 1 \in 0 .. L
    BY <1>0
  <2> QED
    BY <1>3, <1>5, <2>1
<1>6. ASSUME NEW i \in 1 .. L + 1 PROVE s[i] \in m[i]
  <2> HIDE DEF S
  <2>1. \A n \in 0 .. L : n \in S
    BY <1>0, <1>4, <1>5, Climb, Zenon
  <2>2. i - 1 \in 0 .. L /\ (i - 1) + 1 = i
    BY <1>0
  <2> QED
    BY <2>1, <2>2 DEF S
<1>7. ASSUME NEW i \in 1 .. L + 1 PROVE m[i] \subseteq 1 .. Len(path) + 1
  BY MatchFacts DEF m
<1>8. s[L + 1] = Len(path) + 1
  <2>1. m[L + 1] = {Len(path) + 1}
    BY MatchFacts DEF m
  <2>2. L + 1 \in 1 .. L + 1
    BY <1>0
  <2> QED
    BY <1>6, <2>1, <2>2
<1>9. ASSUME NEW i \in 1 .. L PROVE s[i + 1] \in Stops(regex[i], path, s[i])
  <2>1. i \in 1 .. L + 1
    BY <1>0
  <2> QED
    BY <1>3, <1>6, <2>1
<1>10. \A i \in 1 .. L + 1 : s[i] \in 1 .. Len(path) + 1
  BY <1>6, <1>7
<1> QED
  BY <1>2, <1>8, <1>9, <1>10 DEF s

\* The equations of FlattenSeq, for a given chain f.
FlatRow(seqs, f, i) == IF i = 1 THEN seqs[i] ELSE f[i - 1] \o seqs[i]

FlatTable(seqs, f) == [i \in 1 .. Len(seqs) |-> FlatRow(seqs, f, i)]

\* FlattenSeq is the last of a chain that takes one sequence more at each link.
LEMMA FlattenFacts ==
  ASSUME NEW C, NEW seqs \in Seq(Seq(C)), seqs # <<>>
  PROVE  \E f \in [1 .. Len(seqs) -> Seq(C)] :
           /\ FlattenSeq(seqs) = f[Len(seqs)] /\ f[1] = seqs[1]
           /\ \A i \in 1 .. Len(seqs) - 1 : f[i + 1] = f[i] \o seqs[i + 1]
<1> DEFINE L == Len(seqs)
           Above(f, n) == \A i \in 1 .. n + 1 : f[i] = FlatRow(seqs, f, i)
           S == {n \in 0 .. L - 1 : \E f \in [1 .. L -> Seq(C)] : Above(f, n)}
<1>0. L \in Nat \ {0} /\ L \in Nat /\ L - 1 \in Nat /\ 1 \in 1 .. L
      /\ \A i \in 1 .. L : seqs[i] \in Seq(C)
  BY EmptySeq
<1>1. \A f, g, i : f[i - 1] = g[i - 1] => FlatRow(seqs, f, i) = FlatRow(seqs, g, i)
  BY Zenon DEF FlatRow
<1>2. \A f : FlatRow(seqs, f, 1) = seqs[1]
  BY DEF FlatRow
<1> HIDE DEF L
<1>3. 0 \in S
  <2> DEFINE f == [i \in 1 .. L |-> seqs[1]]
  <2>1. f \in [1 .. L -> Seq(C)] /\ f[1] = seqs[1]
    BY <1>0
  <2> HIDE DEF f
  <2>2. \A i \in 1 .. 0 + 1 : i = 1
    OBVIOUS
  <2>3. Above(f, 0)
    BY <1>2, <2>1, <2>2, Zenon
  <2>4. 0 \in 0 .. L - 1
    BY <1>0
  <2> QED
    BY <2>1, <2>3, <2>4
<1>4. ASSUME NEW n \in 0 .. (L - 1) - 1, n \in S PROVE n + 1 \in S
  <2>1. PICK f \in [1 .. L -> Seq(C)] : Above(f, n)
    BY <1>4
  <2> DEFINE next == FlatRow(seqs, f, n + 2)
             g == [f EXCEPT ![n + 2] = next]
  <2>2. n + 1 \in 1 .. L /\ n + 2 \in 1 .. L /\ n + 1 \in 0 .. L - 1 /\ n + 2 # 1
        /\ (n + 2) - 1 = n + 1
    BY <1>0
  <2>3. next \in Seq(C)
    <3>1. next = f[n + 1] \o seqs[n + 2]
      BY <2>2 DEF FlatRow
    <3>2. f[n + 1] \in Seq(C) /\ seqs[n + 2] \in Seq(C)
      BY <1>0, <2>2
    <3> HIDE DEF next
    <3> QED
      BY <3>1, <3>2, ConcatProperties
  <2> HIDE DEF next
  <2>4. /\ g \in [1 .. L -> Seq(C)] /\ g[n + 2] = next
        /\ \A i \in 1 .. L : i # n + 2 => g[i] = f[i]
    BY <2>2, <2>3
  <2> HIDE DEF g
  <2>5. ASSUME NEW i \in 1 .. (n + 1) + 1 PROVE g[i] = FlatRow(seqs, g, i)
    <3>1. CASE i = n + 2
      <4>1. i - 1 \in 1 .. L /\ i - 1 # n + 2
        BY <1>0, <2>2, <3>1
      <4>2. g[i - 1] = f[i - 1]
        BY <2>4, <4>1, Zenon
      <4>3. FlatRow(seqs, g, i) = FlatRow(seqs, f, i)
        BY <1>1, <4>2, Zenon
      <4>4. g[i] = FlatRow(seqs, f, i)
        BY <2>4, <3>1, Zenon DEF next
      <4> QED
        BY <4>3, <4>4
    <3>2. CASE i # n + 2
      <4>1. i \in 1 .. n + 1 /\ i \in 1 .. L /\ (i = 1 \/ (i - 1 \in 1 .. L /\ i - 1 # n + 2))
        BY <1>0, <2>2, <3>2
      <4>2. g[i] = f[i] /\ (i = 1 \/ g[i - 1] = f[i - 1])
        BY <2>4, <3>2, <4>1, Zenon
      <4>3. f[i] = FlatRow(seqs, f, i)
        BY <2>1, <4>1, Zenon
      <4>4. FlatRow(seqs, g, i) = FlatRow(seqs, f, i)
        <5>1. CASE i = 1
          BY <1>2, <5>1
        <5>2. CASE g[i - 1] = f[i - 1]
          BY <1>1, <5>2, Zenon
        <5> QED
          BY <4>2, <5>1, <5>2
      <4> QED
        BY <4>2, <4>3, <4>4
    <3> QED
      BY <3>1, <3>2
  <2>6. Above(g, n + 1)
    BY <2>5, Zenon
  <2> QED
    BY <2>2, <2>4, <2>6
<1>5. \E f : f = FlatTable(seqs, f)
  <2>1. L - 1 \in S
    <3> HIDE DEF S
    <3>1. \A n \in 0 .. L - 1 : n \in S
      BY <1>0, <1>3, <1>4, Climb, Zenon
    <3> QED
      BY <1>0, <3>1
  <2>2. PICK f \in [1 .. L -> Seq(C)] : Above(f, L - 1)
    BY <2>1
  <2>3. f = FlatTable(seqs, f)
    BY <2>2 DEF FlatTable, L
  <2> QED
    BY <2>3
<1> DEFINE h == CHOOSE f : f = FlatTable(seqs, f)
<1>6. h = FlatTable(seqs, h)
  BY <1>5, Zenon
<1>7. FlattenSeq(seqs) = h[L]
  BY <1>0, SMT DEF FlattenSeq, FlatTable, FlatRow, L
<1> HIDE DEF h
<1>8. h = [i \in 1 .. L |-> FlatRow(seqs, h, i)]
  BY <1>6 DEF FlatTable, L
<1>9. \A i \in 1 .. L : h[i] = FlatRow(seqs, h, i)
  BY <1>8
<1>10. h[1] = seqs[1]
  BY <1>0, <1>2, <1>9
<1>11. ASSUME NEW i \in 1 .. L - 1 PROVE h[i + 1] = h[i] \o seqs[i + 1]
  <2>1. i + 1 \in 1 .. L /\ i + 1 # 1 /\ (i + 1) - 1 = i
    BY <1>0
  <2>2. h[i + 1] = FlatRow(seqs, h, i + 1)
    BY <1>9, <2>1, Zenon
  <2> QED
    BY <2>1, <2>2 DEF FlatRow
<1>12. \A i \in 1 .. L : h[i] \in Seq(C)
  <2> DEFINE T == {n \in 0 .. L - 1 : h[n + 1] \in Seq(C)}
  <2>1. 0 \in T
    BY <1>0, <1>10
  <2>2. ASSUME NEW n \in 0 .. (L - 1) - 1, n \in T PROVE n + 1 \in T
    <3>1. n + 1 \in 1 .. L - 1 /\ n + 1 \in 0 .. L - 1 /\ (n + 1) + 1 \in 1 .. L
      BY <1>0
    <3>2. h[(n + 1) + 1] = h[n + 1] \o seqs[(n + 1) + 1]
      BY <1>11, <3>1, Zenon
    <3>3. h[n + 1] \in Seq(C) /\ seqs[(n + 1) + 1] \in Seq(C)
      BY <1>0, <2>2, <3>1
    <3>4. h[(n + 1) + 1] \in Seq(C)
      BY <3>2, <3>3, ConcatProperties
    <3> QED
      BY <3>1, <3>4
  <2> HIDE DEF T
  <2>3. \A n \in 0 .. L - 1 : n \in T
    BY <1>0, <2>1, <2>2, Climb, Zenon
  <2>4. \A i \in 1 .. L : i - 1 \in 0 .. L - 1 /\ (i - 1) + 1 = i
    BY <1>0
  <2> QED
    BY <2>3, <2>4 DEF T
<1>13. h \in [1 .. L -> Seq(C)]
  BY <1>8, <1>12
<1> QED
  BY <1>7, <1>10, <1>11, <1>13 DEF L

PathCharacters == Characters \cup {"/"}

Texts == Seq(Characters \cup Names)

\* What Fill puts in the place of each element.
Segments(template, v) ==
  [i \in DOMAIN template |->
     IF template[i] \in Names THEN v[template[i]] ELSE <<template[i]>>]

\* A template that compiles has an element for each of its characters and names.
LEMMA CompileFacts ==
  ASSUME NEW t \in Texts, Compiles(t)
  PROVE  /\ Len(t) \in Nat \ {0} /\ DOMAIN t = 1 .. Len(t) /\ Len(Compile(t)) = Len(t)
         /\ \A i \in 1 .. Len(t) :
              /\ t[i] \in Characters \cup Names
              /\ t[i] \in Names => /\ Compile(t)[i].takes = Characters \ {"/"}
                                   /\ Compile(t)[i].many
              /\ t[i] \notin Names => Compile(t)[i].takes = {t[i]} /\ ~ Compile(t)[i].many
<1>1. t # <<>>
  BY DEF Compiles
<1>2. Len(t) \in Nat \ {0} /\ DOMAIN t = 1 .. Len(t)
  BY <1>1, EmptySeq, LenProperties DEF Texts
<1>3. \A i \in 1 .. Len(t) : t[i] \in Characters \cup Names
  BY DEF Texts
<1>4. Compile(t) = [i \in 1 .. Len(t) |->
                      IF t[i] \in Names THEN [takes |-> Characters \ {"/"}, many |-> TRUE]
                      ELSE [takes |-> {t[i]}, many |-> FALSE]]
  BY <1>2 DEF Compile
<1> DEFINE r == Compile(t)
<1> HIDE DEF r
<1>5. Len(r) = Len(t)
  BY <1>2, <1>4 DEF r
<1>6. ASSUME NEW i \in 1 .. Len(t)
      PROVE  /\ t[i] \in Names => r[i] = [takes |-> Characters \ {"/"}, many |-> TRUE]
             /\ t[i] \notin Names => r[i] = [takes |-> {t[i]}, many |-> FALSE]
  BY <1>4 DEF r
<1>7. ASSUME NEW i \in 1 .. Len(t)
      PROVE  /\ t[i] \in Names => r[i].takes = Characters \ {"/"} /\ r[i].many
             /\ t[i] \notin Names => r[i].takes = {t[i]} /\ ~ r[i].many
  <2>1. ASSUME t[i] \in Names PROVE r[i].takes = Characters \ {"/"} /\ r[i].many
    <3>1. r[i] = [takes |-> Characters \ {"/"}, many |-> TRUE]
      BY <1>6, <2>1
    <3>2. r[i].takes = Characters \ {"/"} /\ r[i].many = TRUE
      BY <3>1
    <3> QED
      BY <3>2
  <2>2. ASSUME t[i] \notin Names PROVE r[i].takes = {t[i]} /\ ~ r[i].many
    <3>1. r[i] = [takes |-> {t[i]}, many |-> FALSE]
      BY <1>6, <2>2
    <3>2. r[i].takes = {t[i]} /\ r[i].many = FALSE
      BY <3>1
    <3> QED
      BY <3>2
  <2> QED
    BY <2>1, <2>2
<1> QED
  BY <1>2, <1>3, <1>5, <1>7 DEF r

\* Where an element of a compiled template may stop, in terms of the template.
MayStop(t, path, i, j, k) ==
  /\ k \in j + 1 .. Len(path) + 1
  /\ t[i] \in Names => \A n \in j .. k - 1 : path[n] \in Characters \ {"/"}
  /\ t[i] \notin Names => k = j + 1 /\ path[j] = t[i]

LEMMA StopFacts ==
  ASSUME NEW t \in Texts, Compiles(t), NEW path, Len(path) \in Nat,
         NEW i \in 1 .. Len(t), NEW j \in Nat, NEW k
  PROVE  k \in Stops(Compile(t)[i], path, j) <=> MayStop(t, path, i, j, k)
<1> DEFINE e == Compile(t)[i]
<1>1. /\ t[i] \in Names => e.takes = Characters \ {"/"} /\ e.many
      /\ t[i] \notin Names => e.takes = {t[i]} /\ ~ e.many
  BY CompileFacts
<1> HIDE DEF e
<1>2. k \in Stops(e, path, j) <=>
        /\ k \in j + 1 .. Len(path) + 1
        /\ e.many \/ k = j + 1
        /\ \A n \in j .. k - 1 : path[n] \in e.takes
  BY DEF Stops
<1>3. CASE t[i] \in Names
  BY <1>1, <1>2, <1>3 DEF e, MayStop
<1>4. CASE t[i] \notin Names
  <2>1. k = j + 1 => \A n \in j .. k - 1 : n = j
    OBVIOUS
  <2>2. k = j + 1 => j \in j .. k - 1
    OBVIOUS
  <2>3. k = j + 1 => ((\A n \in j .. k - 1 : path[n] \in e.takes) <=> path[j] \in e.takes)
    BY <2>1, <2>2
  <2>4. path[j] \in e.takes <=> path[j] = t[i]
    BY <1>1, <1>4
  <2> QED
    BY <1>1, <1>2, <1>4, <2>3, <2>4, Zenon DEF e, MayStop
<1> QED
  BY <1>3, <1>4

\* Pieces of a path, end to end, are the path.
LEMMA MatchedFits ==
  ASSUME NEW route, route.template \in Texts, Compiles(route.template),
         route.regex = Compile(route.template), NEW path \in Seq(PathCharacters),
         FullMatches(route.regex, path)
  PROVE  GroupDict(route, path) \in Values(route.template, path)
<1> DEFINE t == route.template
           L == Len(t)
           P == Len(path)
           s == Starts(route.regex, path)
           v == GroupDict(route, path)
           segs == Segments(t, v)
           Piece(i) == SubSeq(path, s[i], s[i + 1] - 1)
<1>0. /\ t \in Texts /\ Compiles(t) /\ L \in Nat \ {0} /\ DOMAIN t = 1 .. L /\ P \in Nat
      /\ Len(route.regex) = L /\ \A i \in 1 .. L : t[i] \in Characters \cup Names
  BY CompileFacts
<1>1. /\ s[1] = 1 /\ s[L + 1] = P + 1
      /\ \A i \in 1 .. L : s[i + 1] \in Stops(route.regex[i], path, s[i])
      /\ \A i \in 1 .. L + 1 : s[i] \in 1 .. P + 1
  <2>1. Len(route.regex) \in Nat /\ Len(path) \in Nat
    BY <1>0
  <2>2. /\ s[1] = 1 /\ s[Len(route.regex) + 1] = Len(path) + 1
        /\ \A i \in 1 .. Len(route.regex) : s[i + 1] \in Stops(route.regex[i], path, s[i])
        /\ \A i \in 1 .. Len(route.regex) + 1 : s[i] \in 1 .. Len(path) + 1
    BY <2>1, StartFacts, Zenon
  <2> HIDE DEF s
  <2> QED
    BY <1>0, <2>2
<1>2. \A i \in 1 .. P : path[i] \in PathCharacters
  OBVIOUS
<1>3. v = [n \in NamesIn(t) |->
             LET i == CHOOSE i \in DOMAIN t : t[i] = n
             IN SubSeq(path, s[i], s[i + 1] - 1)]
  BY DEF GroupDict
<1> HIDE DEF s, v, P, L, t
<1>4. ASSUME NEW i \in 1 .. L
      PROVE  /\ s[i] \in 1 .. P /\ s[i + 1] - 1 \in s[i] .. P /\ s[i + 1] \in 1 .. P + 1
             /\ t[i] \in Names =>
                  \A n \in s[i] .. s[i + 1] - 1 : path[n] \in Characters \ {"/"}
             /\ t[i] \notin Names => s[i + 1] - 1 = s[i] /\ path[s[i]] = t[i]
  <2>1. /\ s[i + 1] \in Stops(Compile(t)[i], path, s[i]) /\ s[i] \in Nat
        /\ s[i] \in 1 .. P + 1 /\ i \in 1 .. Len(t) /\ Len(path) \in Nat
    <3>1. route.regex = Compile(t) /\ Len(t) = L /\ Len(path) = P
      BY DEF t, L, P
    <3>2. i \in 1 .. L + 1
      BY <1>0
    <3>3. s[i] \in 1 .. P + 1 /\ s[i + 1] \in Stops(route.regex[i], path, s[i])
      BY <1>1, <3>2, Zenon
    <3> QED
      BY <1>0, <3>1, <3>3
  <2>2. /\ s[i + 1] \in s[i] + 1 .. P + 1
        /\ t[i] \in Names => \A n \in s[i] .. s[i + 1] - 1 : path[n] \in Characters \ {"/"}
        /\ t[i] \notin Names => s[i + 1] = s[i] + 1 /\ path[s[i]] = t[i]
    <3>1. t \in Texts /\ Compiles(t) /\ Len(path) = P
      BY <1>0 DEF P
    <3>2. MayStop(t, path, i, s[i], s[i + 1])
      BY <2>1, <3>1, StopFacts
    <3> QED
      BY <3>1, <3>2 DEF MayStop
  <2> QED
    BY <1>0, <2>1, <2>2
<1>5. ASSUME NEW i \in 1 .. L
      PROVE  /\ Piece(i) \in Seq(PathCharacters) /\ Len(Piece(i)) = s[i + 1] - s[i]
             /\ Piece(i) \in Pieces(path) /\ Piece(i) # <<>>
             /\ \A k \in 1 .. Len(Piece(i)) :
                  Piece(i)[k] = path[s[i] + k - 1] /\ s[i] + k - 1 \in s[i] .. s[i + 1] - 1
  <2> DEFINE a == s[i]
             b == s[i + 1] - 1
  <2>1. a \in 1 .. P /\ b \in a .. P /\ DOMAIN path = 1 .. P /\ s[i + 1] \in Int
    BY <1>4 DEF P
  <2>2. \A k \in a .. b : path[k] \in PathCharacters
    BY <1>0, <1>2, <2>1
  <2>3. a \in Int /\ b \in Int
    BY <1>0, <2>1
  <2>4. b - a + 1 = s[i + 1] - s[i] /\ a <= b /\ b - a + 1 > 0
    BY <1>0, <2>1
  <2>5. a \in DOMAIN path /\ b \in DOMAIN path
    BY <1>0, <2>1
  <2>6. \A k \in 1 .. b - a + 1 : a + k - 1 \in a .. b
    BY <1>0, <2>1
  <2>7. Piece(i) = SubSeq(path, a, b)
    OBVIOUS
  <2> HIDE DEF a, b, Piece
  <2>8. /\ Piece(i) \in Seq(PathCharacters) /\ Len(Piece(i)) = b - a + 1
        /\ \A k \in 1 .. b - a + 1 : Piece(i)[k] = path[a + k - 1]
    BY <2>2, <2>3, <2>4, <2>7, SubSeqProperties
  <2>9. Piece(i) # <<>>
    BY <2>4, <2>8
  <2>10. Piece(i) \in Pieces(path)
    <3>1. \E x, y \in DOMAIN path : Piece(i) = SubSeq(path, x, y)
      BY <2>5, <2>7, Zenon
    <3> DEFINE Cut(x, y) == SubSeq(path, x, y)
    <3>2. Pieces(path) = {Cut(x, y) : x, y \in DOMAIN path} \ {<<>>}
      BY DEF Pieces
    <3>3. \E x, y \in DOMAIN path : Piece(i) = Cut(x, y)
      BY <3>1
    <3> HIDE DEF Cut
    <3> QED
      BY <2>9, <3>2, <3>3
  <2> QED
    BY <2>4, <2>6, <2>8, <2>9, <2>10 DEF a, b
<1> HIDE DEF Piece
<1>6. ASSUME NEW i \in 1 .. L, t[i] \in Names
      PROVE  t[i] \in NamesIn(t) /\ v[t[i]] = Piece(i)
  <2>1. t[i] \in NamesIn(t)
    BY <1>6 DEF NamesIn, Contains, L
  <2>2. \A k \in DOMAIN t : t[k] = t[i] => k = i
    BY <1>0, <1>6 DEF Compiles
  <2>3. (CHOOSE k \in DOMAIN t : t[k] = t[i]) = i
    BY <1>0, <2>2
  <2> QED
    BY <1>3, <2>1, <2>3 DEF Piece
<1>7. ASSUME NEW i \in 1 .. L PROVE segs[i] = Piece(i)
  <2>1. segs[i] = IF t[i] \in Names THEN v[t[i]] ELSE <<t[i]>>
    BY <1>0 DEF Segments
  <2>2. CASE t[i] \in Names
    BY <1>6, <2>1, <2>2
  <2>3. CASE t[i] \notin Names
    <3>1. s[i + 1] - s[i] = 1 /\ path[s[i]] = t[i] /\ s[i] + 1 - 1 = s[i]
      BY <1>4, <2>3
    <3>2. Len(Piece(i)) = 1 /\ Piece(i)[1] = t[i] /\ Piece(i) \in Seq(PathCharacters)
      <4>1. Len(Piece(i)) = 1
        BY <1>5, <3>1
      <4>2. 1 \in 1 .. Len(Piece(i))
        BY <4>1
      <4> QED
        BY <1>5, <3>1, <4>1, <4>2
    <3>3. Piece(i) = <<t[i]>>
      BY <3>2
    <3> QED
      BY <2>1, <2>3, <3>3
  <2> QED
    BY <2>2, <2>3
<1>8. v \in [NamesIn(t) -> {p \in Pieces(path) : ~ Contains(p, "/")}]
  <2>1. ASSUME NEW n \in NamesIn(t)
        PROVE  v[n] \in Pieces(path) /\ ~ Contains(v[n], "/")
    <3>1. PICK i \in 1 .. L : t[i] = n /\ t[i] \in Names
      BY DEF NamesIn, Contains, L
    <3>2. v[n] = Piece(i)
      BY <1>6, <3>1
    <3>3. \A k \in 1 .. Len(Piece(i)) : Piece(i)[k] # "/"
      <4>1. \A place \in s[i] .. s[i + 1] - 1 : path[place] \in Characters \ {"/"}
        BY <1>4, <3>1
      <4> QED
        BY <1>5, <4>1
    <3> QED
      BY <1>5, <3>2, <3>3 DEF Contains
  <2> QED
    BY <1>3, <2>1
<1>9. Fill(t, v) = FlattenSeq(segs)
  BY DEF Fill, Segments
<1>10. segs \in Seq(Seq(PathCharacters)) /\ Len(segs) = L /\ segs # <<>>
  <2>1. DOMAIN segs = 1 .. L
    BY <1>0 DEF Segments
  <2>2. segs = [i \in 1 .. L |-> segs[i]]
    BY <2>1 DEF Segments
  <2> HIDE DEF segs
  <2>3. \A i \in 1 .. L : segs[i] \in Seq(PathCharacters)
    BY <1>5, <1>7
  <2>4. segs \in [1 .. L -> Seq(PathCharacters)]
    BY <2>2, <2>3
  <2>5. segs \in Seq(Seq(PathCharacters))
    BY <1>0, <2>4
  <2> QED
    BY <1>0, <2>1, <2>5
<1> HIDE DEF segs
<1>11. PICK f \in [1 .. L -> Seq(PathCharacters)] :
         /\ FlattenSeq(segs) = f[L] /\ f[1] = segs[1]
         /\ \A i \in 1 .. L - 1 : f[i + 1] = f[i] \o segs[i + 1]
  <2>1. \E f \in [1 .. Len(segs) -> Seq(PathCharacters)] :
          /\ FlattenSeq(segs) = f[Len(segs)] /\ f[1] = segs[1]
          /\ \A i \in 1 .. Len(segs) - 1 : f[i + 1] = f[i] \o segs[i + 1]
    BY <1>10, FlattenFacts
  <2> QED
    BY <1>10, <2>1
<1> DEFINE S == {n \in 0 .. L - 1 : f[n + 1] = SubSeq(path, 1, s[n + 2] - 1)}
<1>12. 0 \in S
  <2>1. 1 \in 1 .. L /\ 0 \in 0 .. L - 1
    BY <1>0
  <2> QED
    BY <1>1, <1>7, <1>11, <2>1 DEF Piece
<1>13. ASSUME NEW n \in 0 .. (L - 1) - 1, n \in S PROVE n + 1 \in S
  <2>1. /\ n + 1 \in 1 .. L - 1 /\ n + 2 \in 1 .. L /\ n + 1 \in 0 .. L - 1
        /\ (n + 1) + 1 = n + 2 /\ (n + 2) + 1 = n + 3 /\ (n + 1) + 2 = n + 3
    BY <1>0
  <2>2. f[n + 2] = SubSeq(path, 1, s[n + 2] - 1) \o Piece(n + 2)
    BY <1>7, <1>11, <1>13, <2>1
  <2>3. s[n + 2] \in 1 .. P /\ s[n + 3] - 1 \in s[n + 2] .. P
    BY <1>4, <2>1
  <2>4. Piece(n + 2) = SubSeq(path, (s[n + 2] - 1) + 1, s[n + 3] - 1)
    <3>1. Piece(n + 2) = SubSeq(path, s[n + 2], s[n + 3] - 1)
      BY <2>1 DEF Piece
    <3>2. (s[n + 2] - 1) + 1 = s[n + 2]
      BY <2>3
    <3> QED
      BY <3>1, <3>2
  <2>5. /\ 1 \in 1 .. Len(path) + 1 /\ s[n + 2] - 1 \in 1 - 1 .. Len(path)
        /\ s[n + 3] - 1 \in s[n + 2] - 1 .. Len(path)
    BY <1>0, <2>3, SMTT(30) DEF P
  <2>6. SubSeq(path, 1, s[n + 2] - 1) \o SubSeq(path, (s[n + 2] - 1) + 1, s[n + 3] - 1)
          = SubSeq(path, 1, s[n + 3] - 1)
    BY <2>5, ConcatAdjacentSubSeq
  <2>7. f[(n + 1) + 1] = SubSeq(path, 1, s[(n + 1) + 2] - 1)
    BY <2>1, <2>2, <2>4, <2>6
  <2> QED
    BY <2>1, <2>7
<1>14. f[L] = path
  <2> HIDE DEF S
  <2>1. L - 1 \in Nat /\ L - 1 \in 0 .. L - 1 /\ (L - 1) + 1 = L /\ (L - 1) + 2 = L + 1
    BY <1>0
  <2>2. L - 1 \in S
    BY <1>12, <1>13, <2>1, Climb
  <2>3. f[L] = SubSeq(path, 1, s[L + 1] - 1)
    BY <2>1, <2>2 DEF S
  <2>4. s[L + 1] - 1 = Len(path)
    BY <1>0, <1>1 DEF P
  <2> QED
    BY <2>3, <2>4, SubSeqFull
<1> QED
  BY <1>8, <1>9, <1>11, <1>14 DEF Values, t, v

\* Where the elements of two sequences end up, end to end.
LEMMA ConcatFacts ==
  ASSUME NEW C, NEW a \in Seq(C), NEW b \in Seq(C), NEW c, c = a \o b
  PROVE  /\ Len(a) \in Nat /\ Len(c) = Len(a) + Len(b)
         /\ \A k \in Len(a) + 1 .. Len(c) : c[k] = b[k - Len(a)]
         /\ \A k \in 1 .. Len(a) : c[k] = a[k]
<1>1. Len(a) \in Nat /\ Len(b) \in Nat
  OBVIOUS
<1>2. /\ Len(c) = Len(a) + Len(b)
      /\ \A k \in 1 .. Len(a) + Len(b) : c[k] = IF k <= Len(a) THEN a[k] ELSE b[k - Len(a)]
  BY ConcatProperties
<1>3. \A k \in Len(a) + 1 .. Len(c) : k \in 1 .. Len(a) + Len(b) /\ ~ (k <= Len(a))
  BY <1>1, <1>2
<1>4. \A k \in 1 .. Len(a) : k \in 1 .. Len(a) + Len(b) /\ k <= Len(a)
  BY <1>1, <1>2
<1> QED
  BY <1>1, <1>2, <1>3, <1>4, Zenon

\* Pieces of a path are not empty and hold characters of paths.
LEMMA PieceFacts ==
  ASSUME NEW path \in Seq(PathCharacters), NEW p \in Pieces(path)
  PROVE  p \in Seq(PathCharacters) /\ Len(p) \in Nat \ {0}
<1> DEFINE Cut(x, y) == SubSeq(path, x, y)
<1>1. Pieces(path) = {Cut(x, y) : x, y \in DOMAIN path} \ {<<>>}
  BY DEF Pieces
<1>2. ASSUME NEW x \in DOMAIN path, NEW y \in DOMAIN path PROVE Cut(x, y) \in Seq(PathCharacters)
  <2>1. x \in Int /\ y \in Int /\ \A i \in x .. y : path[i] \in PathCharacters
    BY LenProperties
  <2> QED
    BY <2>1, SubSeqProperties
<1> HIDE DEF Cut
<1>3. p # <<>> /\ \E x, y \in DOMAIN path : p = Cut(x, y)
  BY <1>1
<1> QED
  BY <1>2, <1>3, EmptySeq

\* A template that can be filled in to give the path matches it.
LEMMA FittingMatches ==
  ASSUME NEW t \in Texts, Compiles(t), NEW path \in Seq(PathCharacters),
         NEW v \in Values(t, path)
  PROVE  FullMatches(Compile(t), path)
<1> DEFINE L == Len(t)
           P == Len(path)
           m == MatchesFrom(Compile(t), path)
           segs == Segments(t, v)
           C == PathCharacters \cup Names
<1>0. /\ L \in Nat \ {0} /\ L \in Nat /\ DOMAIN t = 1 .. L /\ P \in Nat
      /\ Len(Compile(t)) = L /\ \A i \in 1 .. L : t[i] \in Characters \cup Names
  BY CompileFacts
<1>1. /\ m[L + 1] = {P + 1}
      /\ \A i \in 1 .. L : \A j :
           j \in m[i] <=> /\ j \in 1 .. P
                          /\ \E k \in Stops(Compile(t)[i], path, j) : k \in m[i + 1]
  <2>1. Len(Compile(t)) \in Nat /\ Len(path) \in Nat
    BY <1>0
  <2>2. /\ m[Len(Compile(t)) + 1] = {Len(path) + 1}
        /\ \A i \in 1 .. Len(Compile(t)) : \A j :
             j \in m[i] <=> /\ j \in 1 .. Len(path)
                            /\ \E k \in Stops(Compile(t)[i], path, j) : k \in m[i + 1]
    BY <2>1, MatchFacts
  <2> HIDE DEF m
  <2> QED
    BY <1>0, <2>2
<1>2. /\ Fill(t, v) = path
      /\ v \in [NamesIn(t) -> {p \in Pieces(path) : ~ Contains(p, "/")}]
  BY DEF Values
<1>3. FlattenSeq(segs) = path
  BY <1>2 DEF Fill, Segments
<1>4. ASSUME NEW i \in 1 .. L
      PROVE  /\ segs[i] \in Seq(C) /\ Len(segs[i]) \in Nat \ {0}
             /\ t[i] \in Names => \A k \in 1 .. Len(segs[i]) : segs[i][k] \in Characters \ {"/"}
             /\ t[i] \notin Names => Len(segs[i]) = 1 /\ segs[i][1] = t[i]
  <2>1. segs[i] = IF t[i] \in Names THEN v[t[i]] ELSE <<t[i]>>
    BY <1>0 DEF Segments
  <2>2. CASE t[i] \in Names
    <3>1. t[i] \in NamesIn(t)
      BY <2>2 DEF NamesIn, Contains
    <3>2. segs[i] \in Pieces(path) /\ ~ Contains(segs[i], "/")
      BY <1>2, <2>1, <2>2, <3>1
    <3> HIDE DEF segs
    <3>3. segs[i] \in Seq(PathCharacters) /\ Len(segs[i]) \in Nat \ {0}
      BY <3>2, PieceFacts
    <3>4. \A k \in 1 .. Len(segs[i]) : segs[i][k] \in PathCharacters /\ segs[i][k] # "/"
      BY <3>2, <3>3 DEF Contains
    <3>5. segs[i] \in Seq(C)
      <4>1. PathCharacters \subseteq C
        OBVIOUS
      <4> HIDE DEF C
      <4> QED
        BY <3>3, <4>1, SeqMonotonic
    <3> QED
      BY <2>2, <3>3, <3>4, <3>5 DEF PathCharacters
  <2>3. CASE t[i] \notin Names
    <3>1. t[i] \in C
      BY <1>0 DEF PathCharacters
    <3>2. segs[i] = <<t[i]>>
      BY <2>1, <2>3
    <3> HIDE DEF segs, C
    <3> QED
      BY <2>3, <3>1, <3>2
  <2> QED
    BY <2>2, <2>3
<1>5. segs \in Seq(Seq(C)) /\ Len(segs) = L /\ segs # <<>>
  <2>1. DOMAIN segs = 1 .. L /\ segs = [i \in 1 .. L |-> segs[i]]
    BY <1>0 DEF Segments
  <2>2. \A i \in 1 .. L : segs[i] \in Seq(C)
    BY <1>4
  <2> HIDE DEF segs, C, L, P, m
  <2>3. segs \in [1 .. L -> Seq(C)]
    BY <2>1, <2>2
  <2>4. segs \in Seq(Seq(C))
    BY <1>0, <2>3
  <2> QED
    BY <1>0, <2>1, <2>4
<1> HIDE DEF segs, C, L, P, m
<1>6. PICK f \in [1 .. L -> Seq(C)] :
        /\ path = f[L] /\ f[1] = segs[1]
        /\ \A i \in 1 .. L - 1 : f[i + 1] = f[i] \o segs[i + 1]
  <2>1. \E f \in [1 .. Len(segs) -> Seq(C)] :
          /\ FlattenSeq(segs) = f[Len(segs)] /\ f[1] = segs[1]
          /\ \A i \in 1 .. Len(segs) - 1 : f[i + 1] = f[i] \o segs[i + 1]
    BY <1>5, FlattenFacts
  <2> QED
    BY <1>3, <1>5, <2>1
<1> DEFINE cut(i) == IF i = 1 THEN 1 ELSE Len(f[i - 1]) + 1
<1>7. ASSUME NEW i \in 1 .. L
      PROVE  /\ cut(i) \in Nat \ {0} /\ Len(f[i]) \in Nat /\ cut(i + 1) = Len(f[i]) + 1
             /\ Len(f[i]) + 1 = cut(i) + Len(segs[i])
             /\ \A k \in cut(i) .. Len(f[i]) : f[i][k] = segs[i][k - cut(i) + 1]
             /\ \A k \in 1 .. cut(i) - 1 : f[i][k] = f[i - 1][k]
  <2>1. f[i] \in Seq(C) /\ Len(f[i]) \in Nat /\ Len(segs[i]) \in Nat \ {0} /\ segs[i] \in Seq(C)
    BY <1>4, <1>6
  <2>2. i + 1 # 1 /\ (i + 1) - 1 = i
    BY <1>0
  <2>3. cut(i + 1) = Len(f[i]) + 1
    BY <2>2
  <2>4. CASE i = 1
    <3>1. cut(i) = 1 /\ f[i] = segs[i]
      BY <1>6, <2>4
    <3>2. \A k \in 1 .. Len(f[i]) : k - 1 + 1 = k
      OBVIOUS
    <3> HIDE DEF cut
    <3> QED
      BY <2>1, <2>3, <3>1, <3>2
  <2>5. CASE i # 1
    <3>1. i - 1 \in 1 .. L - 1 /\ i - 1 \in 1 .. L /\ (i - 1) + 1 = i
      BY <1>0, <2>5
    <3>2. f[i] = f[i - 1] \o segs[i] /\ f[i - 1] \in Seq(C)
      BY <1>6, <3>1
    <3> DEFINE before == f[i - 1]
    <3>3. cut(i) = Len(before) + 1 /\ f[i] = before \o segs[i] /\ before \in Seq(C)
      BY <2>5, <3>2
    <3> HIDE DEF cut, before
    <3>4. /\ Len(before) \in Nat /\ Len(f[i]) = Len(before) + Len(segs[i])
          /\ \A k \in Len(before) + 1 .. Len(f[i]) : f[i][k] = segs[i][k - Len(before)]
          /\ \A k \in 1 .. Len(before) : f[i][k] = before[k]
      BY <2>1, <3>3, ConcatFacts
    <3>5. Len(f[i]) + 1 = cut(i) + Len(segs[i]) /\ cut(i) \in Nat \ {0}
      <4>1. cut(i) \in Nat \ {0}
        BY <3>3, <3>4
      <4>2. Len(segs[i]) \in Nat /\ Len(f[i]) \in Nat
        BY <2>1
      <4>3. Len(f[i]) = (cut(i) - 1) + Len(segs[i])
        BY <3>3, <3>4, <4>1
      <4> QED
        BY <4>1, <4>2, <4>3
    <3>6. ASSUME NEW k \in cut(i) .. Len(f[i])
          PROVE  f[i][k] = segs[i][k - cut(i) + 1]
      <4>1. k - Len(before) = k - cut(i) + 1
        BY <2>1, <3>3, <3>4
      <4> QED
        BY <3>3, <3>4, <4>1
    <3>7. ASSUME NEW k \in 1 .. cut(i) - 1 PROVE f[i][k] = f[i - 1][k]
      <4>1. cut(i) - 1 = Len(before)
        BY <3>3, <3>4
      <4> QED
        BY <3>4, <4>1 DEF before
    <3> QED
      BY <2>1, <2>3, <3>5, <3>6, <3>7
  <2> QED
    BY <2>4, <2>5
<1> HIDE DEF cut
\* What is chained up to an element begins the path.
<1>8. ASSUME NEW i \in 1 .. L
      PROVE  Len(f[i]) <= P /\ \A k \in 1 .. Len(f[i]) : path[k] = f[i][k]
  <2> DEFINE Begins(x) == Len(x) <= P /\ \A k \in 1 .. Len(x) : path[k] = x[k]
             S == {n \in 0 .. L - 1 : Begins(f[L - n])}
  <2>0. L - 1 \in Nat /\ L - i \in 0 .. L - 1 /\ L - (L - i) = i /\ L - 0 = L
    BY <1>0
  <2>1. 0 \in S
    BY <1>0, <1>6, <2>0 DEF P
  <2>2. ASSUME NEW n \in 0 .. (L - 1) - 1, n \in S PROVE n + 1 \in S
    <3>1. /\ L - n \in 1 .. L /\ L - n # 1 /\ (L - n) - 1 = L - (n + 1) /\ n + 1 \in 0 .. L - 1
          /\ L - (n + 1) \in 1 .. L
      BY <1>0
    <3> DEFINE a == L - n
               b == L - (n + 1)
    <3>2. cut(a) = Len(f[b]) + 1 /\ a - 1 = b /\ a \in 1 .. L /\ b \in 1 .. L
      BY <3>1 DEF cut
    <3>3. Begins(f[a])
      BY <2>2
    <3> HIDE DEF a, b
    <3>4. /\ Len(f[a]) \in Nat /\ Len(f[b]) \in Nat /\ Len(segs[a]) \in Nat
          /\ Len(f[a]) + 1 = cut(a) + Len(segs[a])
      BY <1>4, <1>7, <3>2
    <3>5. Len(f[b]) <= Len(f[a])
      <4>1. Len(f[a]) + 1 = (Len(f[b]) + 1) + Len(segs[a])
        BY <3>2, <3>4, Zenon
      <4>2. \A x, y, z \in Nat : x + 1 = (y + 1) + z => y <= x
        OBVIOUS
      <4> QED
        BY <3>4, <4>1, <4>2, Zenon
    <3>8. \A k \in 1 .. cut(a) - 1 : f[a][k] = f[b][k]
      BY <1>7, <3>2
    <3>6. ASSUME NEW k \in 1 .. Len(f[b]) PROVE path[k] = f[b][k]
      <4>1. k \in 1 .. cut(a) - 1 /\ k \in 1 .. Len(f[a])
        BY <3>2, <3>4, <3>5
      <4> QED
        BY <3>3, <3>8, <4>1
    <3>7. Begins(f[b])
      BY <1>0, <3>3, <3>4, <3>5, <3>6
    <3> QED
      BY <3>1, <3>7 DEF b
  <2> HIDE DEF S
  <2>3. L - i \in S
    BY <2>0, <2>1, <2>2, Climb
  <2> QED
    BY <2>0, <2>3 DEF S
<1>9. ASSUME NEW i \in 1 .. L
      PROVE  cut(i) \in 1 .. P /\ cut(i + 1) \in Stops(Compile(t)[i], path, cut(i))
  <2>1. /\ cut(i) \in Nat \ {0} /\ cut(i + 1) = Len(f[i]) + 1 /\ Len(segs[i]) \in Nat \ {0}
        /\ cut(i + 1) = cut(i) + Len(segs[i]) /\ Len(f[i]) \in Nat /\ Len(f[i]) <= P
    BY <1>4, <1>7, <1>8
  <2>2. cut(i) \in 1 .. P /\ cut(i + 1) \in cut(i) + 1 .. Len(path) + 1
    <3>1. \A c, d, n, len \in Nat :
            (len # 0 /\ c # 0 /\ d = n + 1 /\ d = c + len /\ n <= P) =>
              c \in 1 .. P /\ d \in c + 1 .. P + 1
      BY <1>0
    <3>2. /\ cut(i) \in Nat /\ cut(i) # 0 /\ Len(segs[i]) \in Nat /\ Len(segs[i]) # 0
          /\ cut(i + 1) \in Nat
      BY <2>1
    <3>3. cut(i) \in 1 .. P /\ cut(i + 1) \in cut(i) + 1 .. P + 1
      BY <2>1, <3>1, <3>2, Zenon
    <3> QED
      BY <3>3 DEF P
  <2>3. ASSUME NEW k \in cut(i) .. cut(i + 1) - 1
        PROVE  path[k] = segs[i][k - cut(i) + 1] /\ k - cut(i) + 1 \in 1 .. Len(segs[i])
    <3>1. k \in cut(i) .. Len(f[i]) /\ k \in 1 .. Len(f[i])
      BY <2>1, SMTT(30)
    <3>2. k - cut(i) + 1 \in 1 .. Len(segs[i])
      BY <2>1, SMTT(30)
    <3> QED
      BY <1>7, <1>8, <3>1, <3>2
  <2>4. t[i] \in Names =>
          \A k \in cut(i) .. cut(i + 1) - 1 : path[k] \in Characters \ {"/"}
    BY <1>4, <2>3
  <2>5. t[i] \notin Names => cut(i + 1) = cut(i) + 1 /\ path[cut(i)] = t[i]
    <3> SUFFICES ASSUME t[i] \notin Names
                 PROVE  cut(i + 1) = cut(i) + 1 /\ path[cut(i)] = t[i]
      OBVIOUS
    <3>1. Len(segs[i]) = 1 /\ segs[i][1] = t[i]
      BY <1>4
    <3>2. cut(i) \in cut(i) .. cut(i + 1) - 1 /\ cut(i) - cut(i) + 1 = 1
      BY <2>1
    <3> QED
      BY <2>1, <2>3, <3>1, <3>2
  <2>6. MayStop(t, path, i, cut(i), cut(i + 1))
    BY <2>2, <2>4, <2>5 DEF MayStop
  <2>7. cut(i) \in Nat /\ i \in 1 .. Len(t) /\ Len(path) \in Nat
    BY <1>0, <2>1 DEF L, P
  <2> QED
    BY <2>2, <2>6, <2>7, StopFacts
<1> DEFINE T == {n \in 0 .. L : cut(L + 1 - n) \in m[L + 1 - n]}
<1>10. 0 \in T
  <2>1. L + 1 - 0 = L + 1 /\ L \in 1 .. L /\ 0 \in 0 .. L
    BY <1>0
  <2>2. cut(L + 1) = P + 1
    BY <1>6, <1>7, <2>1 DEF P
  <2> QED
    BY <1>1, <2>1, <2>2
<1>11. ASSUME NEW n \in 0 .. L - 1, n \in T PROVE n + 1 \in T
  <2>1. /\ L - n \in 1 .. L /\ (L - n) + 1 = L + 1 - n /\ L + 1 - (n + 1) = L - n
        /\ n + 1 \in 0 .. L
    BY <1>0
  <2>2. cut((L - n) + 1) \in m[(L - n) + 1]
    BY <1>11, <2>1
  <2>3. cut(L - n) \in m[L - n]
    BY <1>1, <1>9, <2>1, <2>2
  <2> QED
    BY <2>1, <2>3
<1>12. cut(1) \in m[1]
  <2> HIDE DEF T
  <2>1. L \in T
    <3>1. L \in 0 .. L
      BY <1>0
    <3> QED
      BY <1>0, <1>10, <1>11, <3>1, Climb
  <2>2. L + 1 - L = 1
    BY <1>0
  <2> QED
    BY <2>1, <2>2 DEF T
<1>13. cut(1) = 1
  BY DEF cut
<1> QED
  BY <1>12, <1>13 DEF FullMatches, m

\* A route of the table, as add() makes it.
CompiledRoute(r) ==
  r.template \in Texts /\ Compiles(r.template) /\ r.regex = Compile(r.template)

\* The regex of a route matches just the paths its template fits.
LEMMA HitsFit ==
  ASSUME NEW table, \A i \in DOMAIN table : CompiledRoute(table[i]),
         NEW call, RoutePath(call) \in Seq(PathCharacters)
  PROVE  Hits(table, MethodName(call.method), RoutePath(call)) = Fitting(table, call)
<1> DEFINE path == RoutePath(call)
<1>1. ASSUME NEW i \in DOMAIN table
      PROVE  FullMatches(table[i].regex, path) <=> Values(table[i].template, path) # {}
  <2> DEFINE r == table[i]
  <2>1. r.template \in Texts /\ Compiles(r.template) /\ r.regex = Compile(r.template)
    BY DEF CompiledRoute
  <2>2. path \in Seq(PathCharacters)
    OBVIOUS
  <2> HIDE DEF r, path
  <2>3. FullMatches(r.regex, path) => GroupDict(r, path) \in Values(r.template, path)
    BY <2>1, <2>2, MatchedFits
  <2>4. ASSUME NEW v \in Values(r.template, path) PROVE FullMatches(r.regex, path)
    BY <2>1, <2>2, FittingMatches
  <2>5. FullMatches(r.regex, path) <=> Values(r.template, path) # {}
    BY <2>3, <2>4
  <2> QED
    BY <2>5 DEF r
<1> HIDE DEF path
<1> QED
  BY <1>1, Zenon DEF Hits, Fitting, path

\* What the server answers is what the templates ask for, without a regex.
LEMMA OutcomeRight ==
  ASSUME NEW R, NEW table \in Seq(R), \A r \in R : CompiledRoute(r),
         NEW call, RoutePath(call) \in Seq(PathCharacters)
  PROVE  Outcome(table, call) \in RightAnswers(table, call)
<1> DEFINE method == MethodName(call.method)
           path == RoutePath(call)
           Q == QueryParams(call)
           F == Fitting(table, call)
<1>1. Len(table) \in Nat /\ DOMAIN table = 1 .. Len(table) /\ \A i \in DOMAIN table : table[i] \in R
  OBVIOUS
<1>2. Hits(table, method, path) = F
  BY <1>1, HitsFit
<1>3. CASE F = {}
  BY <1>2, <1>3 DEF Outcome, RightAnswers
<1>4. CASE F # {}
  <2> DEFINE first == table[Min(F)]
             v == GroupDict(first, path)
  <2>1. F \subseteq Nat /\ F \subseteq DOMAIN table
    BY <1>1 DEF Fitting
  <2>2. Min(F) \in F
    BY <1>4, <2>1, MinFacts
  <2>3. first \in R /\ FullMatches(first.regex, path)
    BY <1>1, <1>2, <2>1, <2>2 DEF Hits
  <2>4. v \in Values(first.template, path)
    BY <2>3, MatchedFits DEF CompiledRoute
  <2>5. Outcome(table, call) = Invoke(first.handler, Bindings(v, Q))
    BY <1>2, <1>4, Zenon DEF Outcome, Match
  <2>6. Bindings(v, Q) = [n \in DOMAIN Q \cup DOMAIN v |-> IF n \in DOMAIN v THEN v[n] ELSE Q[n]]
    <3> HIDE DEF v, Q
    <3> QED
      BY DEF Bindings
  <2>7. RightAnswers(table, call) =
          {Invoke(first.handler, [n \in DOMAIN Q \cup DOMAIN w |->
                                    IF n \in DOMAIN w THEN w[n] ELSE Q[n]]) :
             w \in Values(first.template, path)}
    BY <1>4, Zenon DEF RightAnswers
  <2> HIDE DEF v, first, Q, F, path
  <2> QED
    BY <2>4, <2>5, <2>6, <2>7
<1> QED
  BY <1>3, <1>4

\* Routes added after those of a table: the first that fits stays the first.
Extends(longer, table) ==
  /\ Len(table) <= Len(longer)
  /\ \A i \in 1 .. Len(table) : longer[i] = table[i]

LEMMA AnswersKept ==
  ASSUME NEW R, NEW table \in Seq(R), NEW longer \in Seq(R), Extends(longer, table),
         NEW call, Fitting(table, call) # {}
  PROVE  RightAnswers(longer, call) = RightAnswers(table, call)
<1> DEFINE F == Fitting(table, call)
           G == Fitting(longer, call)
<1>1. /\ Len(table) \in Nat /\ DOMAIN table = 1 .. Len(table)
      /\ Len(longer) \in Nat /\ DOMAIN longer = 1 .. Len(longer)
  OBVIOUS
<1>2. \A i \in 1 .. Len(table) : i \in 1 .. Len(longer) /\ longer[i] = table[i]
  BY <1>1 DEF Extends
<1>3. \A i \in 1 .. Len(table) : i \in F <=> i \in G
  BY <1>1, <1>2, Zenon DEF Fitting
<1>4. F \subseteq 1 .. Len(table) /\ G \subseteq 1 .. Len(longer)
  BY <1>1 DEF Fitting
<1>5. F \subseteq Nat /\ G \subseteq Nat /\ F # {} /\ G # {}
  <2>1. F # {}
    OBVIOUS
  <2> HIDE DEF F, G
  <2>2. PICK x \in F : TRUE
    BY <2>1
  <2>3. x \in 1 .. Len(table)
    BY <1>4, <2>2
  <2>4. x \in G
    BY <1>3, <2>2, <2>3
  <2>5. 1 .. Len(table) \subseteq Nat /\ 1 .. Len(longer) \subseteq Nat
    BY <1>1
  <2> QED
    BY <1>4, <2>1, <2>4, <2>5, Zenon
<1>6. Min(F) \in F /\ (\A y \in F : Min(F) <= y) /\ Min(G) \in G /\ (\A y \in G : Min(G) <= y)
  BY <1>5, MinFacts
<1> HIDE DEF F, G
<1>7. Min(F) = Min(G) /\ Min(F) \in 1 .. Len(table)
  <2> DEFINE x == Min(F)
             y == Min(G)
  <2> HIDE DEF x, y
  <2>0. x \in F /\ y \in G /\ \A z \in G : y <= z
    BY <1>6 DEF x, y
  <2>5. x \in 1 .. Len(table) /\ y \in 1 .. Len(longer)
    BY <1>4, <2>0, Zenon
  <2>6. x \in G
    BY <1>3, <2>0, <2>5, Zenon
  <2>1. x \in 1 .. Len(table) /\ y \in Nat /\ y >= 1 /\ y <= x
    BY <1>1, <2>0, <2>5, <2>6
  <2>2. y \in 1 .. Len(table)
    BY <1>1, <2>1
  <2>3. y \in F
    BY <1>3, <2>0, <2>2, Zenon
  <2>4. x <= y
    BY <1>6, <2>3 DEF x
  <2> QED
    BY <1>1, <2>1, <2>4 DEF x, y
<1>8. longer[Min(G)] = table[Min(F)]
  BY <1>2, <1>7, Zenon
<1> QED
  BY <1>5, <1>8, Zenon DEF RightAnswers, F, G

\* Adding routes leaves every earlier table a beginning of the present one.
LEMMA PrefixKept ==
  ASSUME NEW R, NEW table \in Seq(R), NEW longer \in Seq(R), Extends(longer, table),
         NEW n \in 0 .. Len(table)
  PROVE  SubSeq(longer, 1, n) = SubSeq(table, 1, n)
<1>1. Len(table) \in Nat /\ Len(longer) \in Nat /\ n \in Int /\ 1 \in Int
  OBVIOUS
<1>2. \A i \in 1 .. n : longer[i] = table[i] /\ table[i] \in R /\ longer[i] \in R
  BY <1>1, ElementOfSeq DEF Extends
<1>3. /\ SubSeq(table, 1, n) \in Seq(R) /\ SubSeq(longer, 1, n) \in Seq(R)
      /\ Len(SubSeq(table, 1, n)) = (IF 1 <= n THEN n - 1 + 1 ELSE 0)
      /\ Len(SubSeq(longer, 1, n)) = (IF 1 <= n THEN n - 1 + 1 ELSE 0)
      /\ \A i \in 1 .. n - 1 + 1 : SubSeq(table, 1, n)[i] = table[1 + i - 1]
      /\ \A i \in 1 .. n - 1 + 1 : SubSeq(longer, 1, n)[i] = longer[1 + i - 1]
  BY <1>1, <1>2, SubSeqProperties
<1> DEFINE a == SubSeq(table, 1, n)
           b == SubSeq(longer, 1, n)
<1>4. Len(a) = n /\ Len(b) = n
  BY <1>1, <1>3
<1>5. \A i \in 1 .. n : a[i] = table[i] /\ b[i] = longer[i]
  <2>1. \A i \in 1 .. n : i \in 1 .. n - 1 + 1 /\ 1 + i - 1 = i
    BY <1>1
  <2> HIDE DEF a, b
  <2> QED
    BY <1>3, <2>1, Zenon DEF a, b
<1>6. a \in Seq(R) /\ b \in Seq(R)
  BY <1>3
<1> HIDE DEF a, b
<1>7. a = b
  BY <1>2, <1>4, <1>5, <1>6, SeqEqual
<1> QED
  BY <1>7 DEF a, b

-----------------------------------------------------------------------------

\* The table holds compiled templates.
LEMMA CompiledFacts == \A r \in Compiled : CompiledRoute(r)
<1> SUFFICES ASSUME NEW r \in Compiled PROVE CompiledRoute(r)
  OBVIOUS
<1>1. PICK m \in Methods, q \in Compiling :
        r = [method |-> m, template |-> q.template, regex |-> Compile(q.template),
             handler |-> q.handler]
  BY DEF Compiled
<1>2. q.template \in Texts /\ Compiles(q.template)
  BY RegistrationsAssumption DEF Compiling, Texts
<1>3. r.template = q.template /\ r.regex = Compile(q.template)
  BY <1>1
<1> QED
  BY <1>2, <1>3 DEF CompiledRoute

LEMMA FirstFacts ==
  ASSUME NEW S, NEW text \in Seq(S), NEW chars
  PROVE  First(chars, text) \in 1 .. Len(text) + 1
<1> DEFINE T == {i \in DOMAIN text : text[i] \in chars} \cup {Len(text) + 1}
<1>1. Len(text) \in Nat /\ DOMAIN text = 1 .. Len(text)
  OBVIOUS
<1>2. T \subseteq 1 .. Len(text) + 1 /\ T # {}
  BY <1>1
<1>3. 1 .. Len(text) + 1 \subseteq Nat
  OBVIOUS
<1> HIDE DEF T
<1>4. Min(T) \in T
  BY <1>2, <1>3, MinFacts
<1> QED
  BY <1>2, <1>4 DEF First, T

LEMMA CutFacts ==
  ASSUME NEW S, NEW text \in Seq(S), NEW m \in Nat \ {0}, NEW n \in Int, n <= Len(text)
  PROVE  /\ SubSeq(text, m, n) \in Seq(S)
         /\ Len(SubSeq(text, m, n)) = IF m <= n THEN n - m + 1 ELSE 0
<1>1. \A i \in m .. n : text[i] \in S
  OBVIOUS
<1> QED
  BY <1>1, SubSeqProperties

\* What urlsplit cuts a path into are pieces of it.
LEMMA UrlFacts ==
  ASSUME NEW S, NEW path \in Seq(S)
  PROVE  AfterScheme(path) \in Seq(S) /\ Len(Netloc(path)) \in Nat
<1>0. Len(path) \in Nat
  OBVIOUS
<1>1. AfterScheme(path) \in Seq(S)
  <2> DEFINE colon == First({":"}, path)
  <2>1. colon \in 1 .. Len(path) + 1
    BY FirstFacts
  <2> HIDE DEF colon
  <2>2. colon + 1 \in Nat \ {0} /\ Len(path) \in Int /\ Len(path) <= Len(path)
    BY <1>0, <2>1
  <2>3. SubSeq(path, colon + 1, Len(path)) \in Seq(S)
    BY <2>2, CutFacts
  <2> QED
    BY <2>3, Zenon DEF AfterScheme, colon
<1>2. CASE ~ (Len(path) >= 2 /\ path[1] = "/" /\ path[2] = "/")
  <2>1. Netloc(path) = <<>>
    BY <1>2, Zenon DEF Netloc
  <2> QED
    BY <1>1, <2>1
<1>3. CASE Len(path) >= 2 /\ path[1] = "/" /\ path[2] = "/"
  <2> DEFINE rest == SubSeq(path, 3, Len(path))
             k == First({"/", "#"}, rest)
  <2>1. rest \in Seq(S) /\ Len(rest) = IF 3 <= Len(path) THEN Len(path) - 3 + 1 ELSE 0
    BY <1>0, CutFacts
  <2> HIDE DEF rest
  <2>2. k \in 1 .. Len(rest) + 1
    BY <2>1, FirstFacts
  <2> HIDE DEF k
  <2>3. 1 + k \in Int /\ 1 + k <= Len(path) /\ 1 <= 1 + k
    BY <1>0, <1>3, <2>1, <2>2
  <2>4. \A n \in Int : n <= Len(path) =>
          Len(SubSeq(path, 1, n)) = IF 1 <= n THEN n - 1 + 1 ELSE 0
    BY CutFacts
  <2>5. Len(SubSeq(path, 1, 1 + k)) \in Nat
    BY <2>3, <2>4
  <2>6. Netloc(path) = SubSeq(path, 1, 1 + k)
    BY <1>3, Zenon DEF Netloc, k, rest
  <2> QED
    BY <1>1, <2>5, <2>6
<1> QED
  BY <1>2, <1>3

\* What a call is matched by is a path.
LEMMA PathFacts == \A c \in Calls : RoutePath(c) \in Seq(PathCharacters)
<1> SUFFICES ASSUME NEW c \in Calls PROVE RoutePath(c) \in Seq(PathCharacters)
  OBVIOUS
<1>1. c.path \in Seq(Characters)
  BY CallsAssumption
<1>2. Characters \subseteq PathCharacters /\ "/" \in PathCharacters
  BY DEF PathCharacters
<1> HIDE DEF PathCharacters
<1>3. c.path \in Seq(PathCharacters)
  BY <1>1, <1>2, SeqMonotonic
<1>4. <<"/">> \in Seq(PathCharacters)
  BY <1>2
<1> DEFINE url == AfterScheme(c.path)
           from == Len(Netloc(url)) + 1
           to == First({"#"}, url) - 1
<1>5. url \in Seq(PathCharacters)
  BY <1>3, UrlFacts
<1> HIDE DEF url
<1>6. Len(Netloc(url)) \in Nat /\ First({"#"}, url) \in 1 .. Len(url) + 1 /\ Len(url) \in Nat
  BY <1>5, UrlFacts, FirstFacts
<1>7. from \in Nat \ {0} /\ to \in Int /\ to <= Len(url)
  BY <1>6
<1> HIDE DEF from, to
<1>8. SubSeq(url, from, to) \in Seq(PathCharacters)
  BY <1>5, <1>7, CutFacts
<1> QED
  BY <1>4, <1>8, Zenon DEF RoutePath, url, from, to

\* AnswersStand for one answer and one table.
Stands(table, a) ==
  \E n \in 0 .. Len(table) :
    /\ a.outcome \in RightAnswers(SubSeq(table, 1, n), a.call)
    /\ a.outcome.status # 404 => a.outcome \in RightAnswers(table, a.call)

\* A registration changes no answer that was given for a route; a new answer is right
\* for the table it is given from, which is the whole of it.
LEMMA AnswersStep ==
  ASSUME RecordsTyped, PacketInv, AnswersStand, [Next]_vars PROVE AnswersStand'
<1>0. /\ routes \in Seq(Compiled) /\ Len(routes) \in Nat
      /\ \A a \in answered : a.call \in Calls /\ Stands(routes, a)
  BY DEF RecordsTyped, AnswersStand, Stands
<1>1. ASSUME NEW r \in Registrations, Register(r) PROVE AnswersStand'
  <2> DEFINE longer == Add(routes, r.methods, r.template, r.handler)
  <2>1. routes' = longer /\ answered' = answered /\ Compiles(r.template)
    BY <1>1 DEF Register
  <2>2. longer \in Seq(Compiled) /\ Extends(longer, routes) /\ Len(routes) <= Len(longer)
        /\ Len(longer) \in Nat
    <3>1. /\ longer \in Seq(Compiled) /\ Len(longer) = Len(routes) + Len(r.methods)
          /\ Len(r.methods) \in Nat /\ \A i \in 1 .. Len(routes) : longer[i] = routes[i]
      BY <1>0, <2>1, AddTyped, Zenon
    <3> HIDE DEF longer
    <3>2. Len(routes) <= Len(longer) /\ Len(longer) \in Nat
      BY <1>0, <3>1
    <3> QED
      BY <3>1, <3>2 DEF Extends
  <2> HIDE DEF longer
  <2>3. ASSUME NEW a \in answered PROVE Stands(longer, a)
    <3>1. PICK n \in 0 .. Len(routes) :
            /\ a.outcome \in RightAnswers(SubSeq(routes, 1, n), a.call)
            /\ a.outcome.status # 404 => a.outcome \in RightAnswers(routes, a.call)
      BY <1>0 DEF Stands
    <3>2. n \in 0 .. Len(longer)
      BY <1>0, <2>2
    <3>3. SubSeq(longer, 1, n) = SubSeq(routes, 1, n)
      BY <1>0, <2>2, PrefixKept
    <3>4. ASSUME a.outcome.status # 404 PROVE a.outcome \in RightAnswers(longer, a.call)
      <4>1. a.outcome \in RightAnswers(routes, a.call)
        BY <3>1, <3>4
      <4>2. CASE Fitting(routes, a.call) = {}
        <5>1. a.outcome = [status |-> 404, handler |-> "none", kwargs |-> <<>>]
          BY <4>1, <4>2 DEF RightAnswers
        <5> QED
          BY <3>4, <5>1
      <4>3. CASE Fitting(routes, a.call) # {}
        BY <1>0, <2>2, <4>1, <4>3, AnswersKept
      <4> QED
        BY <4>2, <4>3
    <3> QED
      BY <3>1, <3>2, <3>3, <3>4 DEF Stands
  <2> QED
    BY <2>1, <2>3 DEF AnswersStand, Stands
<1>2. ASSUME NEW ip \in Ips, NEW d \in sent, ReceiveRequest(ip, d) PROVE AnswersStand'
  <2> DEFINE new == [seq |-> d.seq, call |-> d.call, outcome |-> Outcome(routes, d.call)]
  <2>1. routes' = routes
    BY <1>2 DEF ReceiveRequest
  <2>2. CASE answered' = answered
    BY <2>1, <2>2 DEF AnswersStand
  <2>3. CASE answered' = answered \cup {new}
    <3>1. d.call \in Calls
      <4>1. PICK c \in Calls, q \in 0 .. next_seq - 1 : d = Packet(c, q)
        BY DEF PacketInv
      <4>2. q \in Nat
        BY DEF PacketInv
      <4> QED
        BY <4>1, <4>2, PacketFacts
    <3>2. Outcome(routes, d.call) \in RightAnswers(routes, d.call)
      <4>1. RoutePath(d.call) \in Seq(PathCharacters)
        BY <3>1, PathFacts
      <4> QED
        BY <1>0, <4>1, OutcomeRight, CompiledFacts
    <3>3. SubSeq(routes, 1, Len(routes)) = routes /\ Len(routes) \in 0 .. Len(routes)
      BY <1>0, SubSeqFull
    <3>4. new.call = d.call /\ new.outcome = Outcome(routes, d.call)
      OBVIOUS
    <3> HIDE DEF new
    <3>5. Stands(routes, new)
      <4>1. Len(routes) \in 0 .. Len(routes)
              /\ new.outcome \in RightAnswers(SubSeq(routes, 1, Len(routes)), new.call)
              /\ new.outcome \in RightAnswers(routes, new.call)
        BY <3>2, <3>3, <3>4
      <4> QED
        BY <4>1, Zenon DEF Stands
    <3>6. \A a \in answered' : Stands(routes', a)
      BY <1>0, <2>1, <2>3, <3>5
    <3> QED
      BY <3>6, Zenon DEF AnswersStand, Stands
  <2> QED
    BY <1>2, <2>2, <2>3 DEF ReceiveRequest
<1>3. CASE UNCHANGED <<routes, answered>>
  BY <1>3 DEF AnswersStand
<1> QED
  BY <1>1, <1>2, <1>3
     DEF Next, vars, limitVars, requestVars, Tick, Issue, Refuse, ReceiveOther

\* Every answer is the one the templates ask for, with values that fill the template
\* in to give the path split_path leaves of the call's, from the routes there were; and no route added later would
\* have changed it, unless it found none. For any templates, paths and signatures.
THEOREM AnswersAreRight == Spec => []AnswersStand
<1>1. Init => AnswersStand
  BY DEF Init, AnswersStand
<1> QED
  BY <1>1, AnswersStep, RecordsInvariance, PacketInvariance, PTL DEF Spec

=============================================================================
