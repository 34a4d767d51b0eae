--------------------------- MODULE LoadBalancer ---------------------------
(***************************************************************************)
(* The route's load balancers (package loadbalance): WeightedRoundRobin,   *)
(* a random draw scanned from a rolling start index kept in an atomic, and *)
(* WeightedLeastRequest, which picks the smallest requests/weight ratio    *)
(* over per-target atomic counters.  Several requests call Next at once;   *)
(* each Next is split at the points where another request's step can come *)
(* in between.  Server indices are 0-based as in the code.                 *)
(***************************************************************************)
EXTENDS Integers, Sequences, FiniteSets

CONSTANTS
  Policies,        \* route policies: "ROUND_ROBIN", "LEAST_REQUEST"
  WeightVectors,   \* target weights the controller lets through
  Requests,        \* concurrent callers of Next (model values)
  MaxPicks         \* model bound on the number of Next calls

ASSUME Policies \subseteq {"ROUND_ROBIN", "LEAST_REQUEST"}
ASSUME WeightVectors \subseteq Seq(Nat)

VARIABLES
  policy,    \* the route's load-balancing policy (fixed)
  weights,   \* servers[i].weight, fixed when the balancer is built
  current,   \* WeightedRoundRobin.current / WeightedLeastRequest.current
  counts,    \* servers[i].requestCounter.count
  pc,        \* per request: "idle", "drawn", "read" or "busy"
  found,     \* per request: the index its scan found (-1 before)
  picks      \* Next calls made so far

vars == <<policy, weights, current, counts, pc, found, picks>>

N == Len(weights)
Servers == 0..(N - 1)
W(i) == weights[i + 1]

\* calculateTotalWeight
TotalWeight == LET RECURSIVE S(_) S(i) == IF i = N THEN 0 ELSE W(i) + S(i + 1)
               IN S(0)

TypeOK ==
  /\ policy \in Policies
  /\ weights \in WeightVectors
  /\ current \in Servers
  /\ counts \in [Servers -> Nat]
  /\ pc \in [Requests -> {"idle", "drawn", "read", "busy", "panicked"}]
  /\ found \in [Requests -> Servers \cup {-1}]
  /\ picks \in 0..MaxPicks

Init ==
  /\ policy \in Policies
  /\ weights \in WeightVectors
  /\ current = 0
  /\ counts = [i \in Servers |-> 0]
  /\ pc = [r \in Requests |-> "idle"]
  /\ found = [r \in Requests |-> -1]
  /\ picks = 0

-----------------------------------------------------------------------------
(* Weighted round-robin *)

\* Mutation: the scan stops where the running total reaches the draw.
RECURSIVE ScanFromGe(_, _, _, _)
ScanFromGe(cur, r, i, total) ==
  IF i = N THEN cur
  ELSE LET idx == (cur + i) % N
       IN IF total + W(idx) >= r THEN idx ELSE ScanFromGe(cur, r, i + 1, total + W(idx))

\* The loop of WeightedRoundRobin.Next: from index cur, accumulate weights
\* and stop at the first server where the running total exceeds the draw;
\* if none does, fall back to cur.
RECURSIVE ScanFrom(_, _, _, _)
ScanFrom(cur, r, i, total) ==
  IF i = N THEN cur
  ELSE LET idx == (cur + i) % N
       IN IF total + W(idx) > r THEN idx ELSE ScanFrom(cur, r, i + 1, total + W(idx))

WRRPick(cur, r) == ScanFrom(cur, r, 0, 0)

\* Next up to the atomic load of current: rand.Int over [0, total), which
\* panics when the total weight is not positive, then Load and scan.
\* One or no server is answered without a draw.
WRRDraw(r) ==
  /\ policy = "ROUND_ROBIN"
  /\ pc[r] = "idle"
  /\ picks < MaxPicks
  /\ picks' = picks + 1
  /\ IF N <= 1 THEN /\ pc' = [pc EXCEPT ![r] = "busy"]
                    /\ UNCHANGED found
    ELSE IF TotalWeight = 0 THEN /\ pc' = [pc EXCEPT ![r] = "panicked"]
                                 /\ UNCHANGED found
    ELSE /\ \E d \in 0..(TotalWeight - 1) :
              found' = [found EXCEPT ![r] = WRRPick(current, d)]
         /\ pc' = [pc EXCEPT ![r] = "drawn"]
  /\ UNCHANGED <<policy, weights, current, counts>>

\* Mutation: the next index is not taken modulo N.
WRRStoreNoWrap(r) ==
  /\ pc[r] = "drawn"
  /\ current' = found[r] + 1
  /\ pc' = [pc EXCEPT ![r] = "busy"]
  /\ UNCHANGED <<policy, weights, counts, found, picks>>

\* w.current.Store(foundIdx+1 mod N) and return servers[foundIdx].name.
WRRStore(r) ==
  /\ pc[r] = "drawn"
  /\ current' = (found[r] + 1) % N
  /\ pc' = [pc EXCEPT ![r] = "busy"]
  /\ UNCHANGED <<policy, weights, counts, found, picks>>

-----------------------------------------------------------------------------
(* Weighted least-request *)

\* float64(count) / float64(weight) with IEEE semantics: x/0 is +Inf for
\* x > 0 and NaN for 0/0; NaN compares false with everything.
Ratio(c, w) == IF w > 0 THEN [kind |-> "fin", c |-> c, w |-> w]
               ELSE IF c > 0 THEN [kind |-> "inf", c |-> 0, w |-> 0]
               ELSE [kind |-> "nan", c |-> 0, w |-> 0]
\* Mutation: the comparison is reversed.
RatioGreater(a, b) ==
  \/ a.kind = "inf" /\ b.kind = "fin"
  \/ a.kind = "fin" /\ b.kind = "fin" /\ a.c * b.w > b.c * a.w
RatioLess(a, b) ==
  \/ a.kind = "fin" /\ b.kind = "inf"
  \/ a.kind = "fin" /\ b.kind = "fin" /\ a.c * b.w < b.c * a.w
RatioEq(a, b) ==
  \/ a.kind = "inf" /\ b.kind = "inf"
  \/ a.kind = "fin" /\ b.kind = "fin" /\ a.c * b.w = b.c * a.w
NoRatio == [kind |-> "none", c |-> 0, w |-> 0]   \* leastLoadRatio = -1

\* The loop of WeightedLeastRequest.Next over a snapshot of the counters:
\* take a server whose ratio is smaller, or equal with a smaller count.
RECURSIVE LRScan(_, _, _, _)
LRScan(cnt, i, sel, least) ==
  IF i = N THEN sel
  ELSE LET q == Ratio(cnt[i], W(i))
       IN IF \/ least = NoRatio
             \/ RatioLess(q, least)
             \/ RatioEq(q, least) /\ cnt[i] < cnt[sel]
            THEN LRScan(cnt, i + 1, i, q)
            ELSE LRScan(cnt, i + 1, sel, least)

LRPick(cnt) == LRScan(cnt, 0, current, NoRatio)

\* Next up to the end of the loop: the counters are read (each an atomic
\* load) and a server chosen; nothing is written yet.
LRRead(r) ==
  /\ policy = "LEAST_REQUEST"
  /\ pc[r] = "idle"
  /\ picks < MaxPicks
  /\ picks' = picks + 1
  /\ IF N <= 1 THEN /\ pc' = [pc EXCEPT ![r] = "busy"]
                    /\ UNCHANGED found
    ELSE /\ found' = [found EXCEPT ![r] = LRPick(counts)]
         /\ pc' = [pc EXCEPT ![r] = "read"]
  /\ UNCHANGED <<policy, weights, current, counts>>

\* w.current = selected (a plain, unsynchronised write) and Inc().
LRInc(r) ==
  /\ pc[r] = "read"
  /\ current' = found[r]
  /\ counts' = [counts EXCEPT ![found[r]] = @ + 1]
  /\ pc' = [pc EXCEPT ![r] = "busy"]
  /\ UNCHANGED <<policy, weights, found, picks>>

\* The request ends.  The route never calls the balancer's Done, so the
\* counters only grow.
Finish(r) ==
  /\ pc[r] = "busy"
  /\ pc' = [pc EXCEPT ![r] = "idle"]
  /\ UNCHANGED <<policy, weights, current, counts, found, picks>>

Next ==
  \E r \in Requests :
    \/ WRRDraw(r) \/ WRRStore(r)
    \/ LRRead(r) \/ LRInc(r)
    \/ Finish(r)

Spec == Init /\ [][Next]_vars

-----------------------------------------------------------------------------
(* Properties *)

\* Whatever start index concurrent calls have left in current, one draw
\* picks each server with probability weight/total: exactly W(i) of the
\* total draws pick server i (spec: frequencies converge to w_i/W), so a
\* zero-weight server is never picked.
DrawDistribution ==
  TotalWeight > 0 =>
    \A cur \in Servers, i \in Servers :
      Cardinality({d \in 0..(TotalWeight - 1) : WRRPick(cur, d) = i}) = W(i)

\* The least-request balancer keeps the servers' loads in proportion to
\* their weights: no positive-weight server gets more than its share plus
\* one pick per concurrent caller that read the counters before it.
WeightedShare ==
  policy = "LEAST_REQUEST" =>
  \A i, j \in Servers :
    (W(i) > 0 /\ W(j) > 0) =>
      counts[i] * W(j) <= counts[j] * W(i) + Cardinality(Requests) * W(j)

=============================================================================
