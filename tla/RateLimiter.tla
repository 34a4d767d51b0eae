---------------------------- MODULE RateLimiter ----------------------------
(***************************************************************************)
(* One shard of the local rate limiter (pkg/filters/ratelimit/local.go):   *)
(* checkBucketLocal under the shard lock (create, expire and re-create, or *)
(* update a key's token bucket, evicting the least recently accessed key   *)
(* when the shard is full, then tryConsume), and the periodic cleanup.     *)
(* Keys are model values that all hash to the modelled shard.  Time is     *)
(* counted in ticks, TPS ticks per second, and advances before each call   *)
(* (time.Now() is read under the lock, so two calls never share an        *)
(* instant).  Fixed-point token arithmetic is kept exactly.                *)
(***************************************************************************)
EXTENDS Integers, FiniteSets, Functions, TLC

CONSTANTS
  Keys,          \* rate-limit keys (prefix:based_on:value:model)
  Limits,        \* limits the matching policy may carry (> 0; 0 disables)
  WindowSec,     \* the policy's duration, in whole seconds
  TPS,           \* ticks per second
  Delays,        \* ticks that may pass before a call
  MaxTime,       \* model bound on the clock
  MaxCalls,      \* model bound on the number of calls
  MaxBuckets     \* maxBucketsPerShard

Precision == 1000          \* precision
MaxTTLSec == 300           \* maxTTL = 5 minutes
TTLRate == 2               \* ttlRate

ASSUME Limits \subseteq Nat \ {0} /\ WindowSec \in Nat \ {0}

VARIABLES
  now,         \* the clock, in ticks
  buckets,     \* shard.buckets: key -> token bucket
  lat,         \* shard.lastAccessTime: key -> tick
  allowedN,    \* per live bucket: requests admitted since it was created
  createdAt,   \* per live bucket: tick it was created
  calls        \* calls of checkBucketLocal so far

vars == <<now, buckets, lat, allowedN, createdAt, calls>>

Bucket == [tokens : Int, capacity : Int, rate : Int, lastUpdate : Int,
           oldLimit : Int, expireAt : Int]

TypeOK ==
  /\ now \in 0..MaxTime
  /\ DOMAIN buckets \subseteq Keys /\ \A k \in DOMAIN buckets : buckets[k] \in Bucket
  /\ DOMAIN lat \subseteq Keys /\ \A k \in DOMAIN lat : lat[k] \in 0..MaxTime

MaxOf(a, b) == IF a >= b THEN a ELSE b
MinOf(a, b) == IF a <= b THEN a ELSE b
Without(f, k) == Restrict(f, DOMAIN f \ {k})

\* ttl := max(maxTTL, window*ttlRate); newCapacity := limit * precision;
\* newRate := int64(float64(newCapacity) / window.Seconds()).
TTL == MaxOf(MaxTTLSec, WindowSec * TTLRate) * TPS
NewCapacity(limit) == limit * Precision
NewRate(limit) == NewCapacity(limit) \div WindowSec

Init ==
  /\ now = 0 /\ buckets = << >> /\ lat = << >>
  /\ allowedN = << >> /\ createdAt = << >>
  /\ calls = 0

-----------------------------------------------------------------------------
(* A shard state is a record [b |-> buckets, l |-> lastAccessTime]. *)

\* evictOldestBucket: the key whose access time is strictly before now
\* and earliest (map order picks among equals); with none, the key "" is
\* deleted, which no bucket has.
EvictOldestBucket(st, t) ==
  LET cands == {k \in DOMAIN st.l : st.l[k] < t}
      oldest == {k \in cands : \A j \in cands : st.l[k] <= st.l[j]}
  IN IF cands = {} THEN {st}
     ELSE {[b |-> Without(st.b, o), l |-> Without(st.l, o)] : o \in oldest}

\* initBucket: evict if the shard is full, then a full bucket.
InitBucket(st, k, limit, t) ==
  LET fresh == [tokens |-> NewCapacity(limit), capacity |-> NewCapacity(limit),
                rate |-> NewRate(limit), lastUpdate |-> t,
                oldLimit |-> limit, expireAt |-> t + TTL]
      room == IF Cardinality(DOMAIN st.b) >= MaxBuckets THEN EvictOldestBucket(st, t) ELSE {st}
  IN {[b |-> (k :> fresh) @@ s.b, l |-> s.l] : s \in room}

\* updateBucket: an expired bucket is deleted with its access time and
\* created anew; otherwise a changed limit replaces capacity and rate
\* (tokens are left as they are) and the expiry is pushed back.
UpdateBucket(st, k, limit, t) ==
  LET bk == st.b[k]
  IN IF t > bk.expireAt
       THEN InitBucket([b |-> Without(st.b, k), l |-> Without(st.l, k)], k, limit, t)
       ELSE {[st EXCEPT !.b[k] =
                [(IF bk.oldLimit # limit
                    THEN [bk EXCEPT !.oldLimit = limit,
                                    !.capacity = NewCapacity(limit),
                                    !.rate = NewRate(limit)]
                    ELSE bk) EXCEPT !.expireAt = t + TTL]]}

\* Mutation: lastUpdate is not moved after a refill.
RefillKeepsLastUpdate(bk, t) ==
  LET add == ((t - bk.lastUpdate) \div TPS) * bk.rate
  IN IF add > 0 THEN [bk EXCEPT !.tokens = MinOf(@ + add, bk.capacity)] ELSE bk

\* Mutation: a refill is not capped at the bucket's capacity.
RefillUncapped(bk, t) ==
  LET add == ((t - bk.lastUpdate) \div TPS) * bk.rate
  IN IF add > 0 THEN [bk EXCEPT !.tokens = @ + add, !.lastUpdate = t] ELSE bk

\* tryConsume: whole elapsed seconds times the rate are added (capped at
\* capacity) and lastUpdate moves to now only if that is positive; then
\* one precision's worth of tokens is taken if there is one.
Refill(bk, t) ==
  LET add == ((t - bk.lastUpdate) \div TPS) * bk.rate
  IN IF add > 0 THEN [bk EXCEPT !.tokens = MinOf(@ + add, bk.capacity), !.lastUpdate = t]
     ELSE bk
TryConsume(bk, t) ==
  LET b1 == Refill(bk, t)
  IN IF b1.tokens >= Precision
       THEN [b |-> [b1 EXCEPT !.tokens = @ - Precision], ok |-> TRUE]
       ELSE [b |-> b1, ok |-> FALSE]

\* The outcomes of checkBucketLocal for key k at tick t on a shard state
\* sh: the access time is set, the bucket created or updated, then
\* tryConsume; the shard state after it and tryConsume's answer.
CheckResults(sh, k, limit, t) ==
  LET st0 == [b |-> sh.b, l |-> (k :> t) @@ sh.l]
      sts == IF k \in DOMAIN sh.b THEN UpdateBucket(st0, k, limit, t)
                                  ELSE InitBucket(st0, k, limit, t)
  IN {LET res == TryConsume(s.b[k], t)
      IN [st |-> [s EXCEPT !.b[k] = res.b], ok |-> res.ok] : s \in sts}

\* The shard state after one checkBucketLocal for key k with outcome r,
\* and the history variables: a created bucket starts a new count.
ApplyCheck(k, r) ==
  LET created == k \notin DOMAIN buckets \/ now' > buckets[k].expireAt
  IN /\ buckets' = r.st.b
     /\ lat' = r.st.l
     /\ allowedN' = [j \in DOMAIN buckets' |->
                      IF j = k THEN (IF created THEN 0 ELSE allowedN[k]) + (IF r.ok THEN 1 ELSE 0)
                      ELSE allowedN[j]]
     /\ createdAt' = [j \in DOMAIN buckets' |->
                       IF j = k /\ created THEN now' ELSE createdAt[j]]

\* checkBucketLocal for key k under a policy with the given limit, at a
\* time d ticks after the previous event, under the shard lock.
CheckBucketLocal(k, limit, d) ==
  /\ now + d <= MaxTime /\ calls < MaxCalls
  /\ now' = now + d /\ calls' = calls + 1
  /\ \E r \in CheckResults([b |-> buckets, l |-> lat], k, limit, now + d) : ApplyCheck(k, r)

\* cleanup: remove every bucket whose expiry has passed, and its access
\* time.
Cleanup ==
  LET gone == {k \in DOMAIN buckets : now > buckets[k].expireAt}
  IN /\ gone # {}
     /\ buckets' = Restrict(buckets, DOMAIN buckets \ gone)
     /\ lat' = Restrict(lat, DOMAIN lat \ gone)
     /\ allowedN' = Restrict(allowedN, DOMAIN buckets \ gone)
     /\ createdAt' = Restrict(createdAt, DOMAIN buckets \ gone)
     /\ UNCHANGED <<now, calls>>

Next ==
  \/ \E k \in Keys, limit \in Limits, d \in Delays : CheckBucketLocal(k, limit, d)
  \/ Cleanup

\* The clock and call bounds are the only reasons the limiter stops taking calls.
Spec == Init /\ [][Next]_vars

-----------------------------------------------------------------------------
(* Properties *)

\* A bucket never admits more than it has earned since it was created: its
\* capacity plus rate tokens per second that passed (spec: refill at
\* limit*precision/window per second, precision consumed per request),
\* whatever the timing of the calls that refilled it.
NoMoreThanEarned ==
  \A k \in DOMAIN buckets :
    allowedN[k] * Precision * TPS
      <= buckets[k].capacity * TPS + buckets[k].rate * (now - createdAt[k])

\* Every live bucket holds between none and its capacity of tokens (the
\* spec's bucket invariant 0 <= tokens <= capacity).  tryConsume caps a
\* refill at capacity, but updateBucket replaces the capacity under a
\* changed limit and keeps the tokens, so the invariant rests on every
\* caller passing one key the same limit for the life of the bucket.
TokensWithinCapacity ==
  \A k \in DOMAIN buckets : 0 <= buckets[k].tokens /\ buckets[k].tokens <= buckets[k].capacity

\* A shard never holds more than maxBucketsPerShard buckets: inserting into
\* a full shard first evicts the least recently accessed key.
BucketsBounded == Cardinality(DOMAIN buckets) <= MaxBuckets

=============================================================================
