-------------------------- MODULE RateLimitFilter --------------------------
(***************************************************************************)
(* The rate-limit filter of one ModelRoute (the RateLimiter filter in      *)
(* pkg/bootkit/bootkit_test.go, built from the route's CRD rules by        *)
(* ModelRouteReconciler.buildRateLimitPolicies) over the local limiter of  *)
(* module RateLimiter.  A request's API key and user name pick the first   *)
(* policy that matches, whose based_on and value name the bucket; the     *)
(* bucket decides.  Every reconcile of the route registers a new route     *)
(* (RegisterMatchRouteWithConfig -> route NewWithConfig -> filter          *)
(* NewWithConfig), whose limiter starts with empty shards.                 *)
(*                                                                         *)
(* Beside the code's state the module keeps the limiter the spec           *)
(* describes: the spec's choice of policy and one bucket per key for the   *)
(* life of the route, with the same token arithmetic.                      *)
(*                                                                         *)
(* API keys and user names are short sequences of letters, so prefix      *)
(* matching is real; the route's model name and the server prefix are     *)
(* constant parts of every key and are left out.  All rules share the     *)
(* duration WindowSec.                                                     *)
(***************************************************************************)
EXTENDS RateLimiter, SequencesExt

CONSTANTS
  Rules,        \* the ModelRoute's rate-limit rules, in order
  ApiKeys,      \* API key ids a request may carry (<<>> is none)
  Users,        \* user ids a request may carry (<<>> is none)
  NoMatch,      \* model value: a rule or policy without a match
  TargetFailed, \* a target of the route is Failed, so the route is Failed
  RequeueSec,   \* RequeueAfter of a Failed ModelRoute (30 s)
  MaxRegs       \* model bound on route registrations

BasedOn == {"API_KEY", "USER_ID"}

VARIABLES
  lastOk,      \* what the filter answered the last request (TRUE: OK)
  specOk,      \* what the spec's limiter answered it
  specShard,   \* the spec's buckets and access times, kept for the route's life
  regs,        \* registrations of the route since the first
  lastReg      \* tick of the last registration

fvars == <<vars, lastOk, specOk, specShard, regs, lastReg>>

-----------------------------------------------------------------------------
(* Policies *)

\* buildRateLimitPolicies: a CRD match with Exact becomes an exact match;
\* one with only Prefix becomes a prefix match whose prefix is taken from
\* Exact; a match with neither, or none, matches any value.
ToPolicyMatch(m) ==
  IF m = NoMatch THEN NoMatch
  ELSE IF m.exact # << >> THEN [kind |-> "exact", s |-> m.exact]
  ELSE IF m.prefix # << >> THEN [kind |-> "prefix", s |-> m.exact]
  ELSE NoMatch

BuildRateLimitPolicies(rules) ==
  [i \in DOMAIN rules |-> [basedOn |-> rules[i].basedOn, limit |-> rules[i].limit,
                           match |-> ToPolicyMatch(rules[i].match)]]

Policies == BuildRateLimitPolicies(Rules)

\* The protobuf oneof getters: "" unless that case is set.
GetExact(m) == IF m # NoMatch /\ m.kind = "exact" THEN m.s ELSE << >>
GetPrefix(m) == IF m # NoMatch /\ m.kind = "prefix" THEN m.s ELSE << >>

\* The value a policy limits on: the API key or the user name.
ValueOf(p, a, u) == IF p.basedOn = "API_KEY" THEN a ELSE u

\* The match test of findMatchingPolicy and allowRequest.
Matched(p, v) ==
  \/ p.match = NoMatch
  \/ GetExact(p.match) = v
  \/ GetPrefix(p.match) # << >> /\ IsPrefix(GetPrefix(p.match), v)

\* findMatchingPolicy: the index of the first policy with a known based_on
\* whose match accepts the value, or 0.
FindMatchingPolicy(a, u) ==
  LET I == {i \in DOMAIN Policies : Policies[i].basedOn \in BasedOn
                                   /\ Matched(Policies[i], ValueOf(Policies[i], a, u))}
  IN IF I = {} THEN 0 ELSE Min(I)

\* The spec's policy choice (based_on, match exact | prefix | any) made on
\* the CRD rules themselves.
SpecMatches(r, v) ==
  CASE r.match = NoMatch        -> TRUE
    [] r.match.exact # << >>    -> v = r.match.exact
    [] r.match.prefix # << >>   -> IsPrefix(r.match.prefix, v)
    [] OTHER                    -> TRUE

SpecPolicy(a, u) ==
  LET I == {i \in DOMAIN Rules : Rules[i].basedOn \in BasedOn
                                /\ SpecMatches(Rules[i], ValueOf(Rules[i], a, u))}
  IN IF I = {} THEN 0 ELSE Min(I)

-----------------------------------------------------------------------------

FInit ==
  /\ now = 0 /\ buckets = << >> /\ lat = << >>
  /\ allowedN = << >> /\ createdAt = << >> /\ calls = 0
  /\ lastOk = TRUE /\ specOk = TRUE
  /\ specShard = [b |-> << >>, l |-> << >>]
  /\ regs = 0 /\ lastReg = 0

\* Whether a request with this policy index is charged to a bucket: it
\* carries an identity, a policy matched, and the limit is not 0.
Charged(a, u, i, ps) == ~(a = << >> /\ u = << >>) /\ i # 0 /\ ps[i].limit # 0

(***************************************************************************)
(* onRequest (OnCompletionRequest / OnImageGenerationsRequest) for a      *)
(* request with API key a and user u, d ticks after the previous event:  *)
(* skip without identity or matching policy, allowRequest (limit 0 is      *)
(* disabled), buildKey, checkBucket -> checkBucketLocal.  The spec's       *)
(* limiter answers the same request in the same step.                     *)
(***************************************************************************)
OnRequest(a, u, d) ==
  /\ now + d <= MaxTime /\ calls < MaxCalls
  /\ now' = now + d /\ calls' = calls + 1
  /\ LET i == FindMatchingPolicy(a, u)
         key == <<Policies[i].basedOn, ValueOf(Policies[i], a, u)>>
     IN IF Charged(a, u, i, Policies)
          THEN \E r \in CheckResults([b |-> buckets, l |-> lat], key, Policies[i].limit, now + d) :
                 ApplyCheck(key, r) /\ lastOk' = r.ok
          ELSE UNCHANGED <<buckets, lat, allowedN, createdAt>> /\ lastOk' = TRUE
  /\ LET j == SpecPolicy(a, u)
         skey == <<Rules[j].basedOn, ValueOf(Rules[j], a, u)>>
     IN IF Charged(a, u, j, Rules)
          THEN \E r \in CheckResults(specShard, skey, Rules[j].limit, now + d) :
                 specShard' = r.st /\ specOk' = r.ok
          ELSE UNCHANGED specShard /\ specOk' = TRUE
  /\ UNCHANGED <<regs, lastReg>>

(***************************************************************************)
(* A reconcile of the ModelRoute: RequeueAfter 30 s while the route is     *)
(* Failed (reconcileModelRoutePhase: a Failed target), then                *)
(* reconcileRegister -> RegisterMatchRouteWithConfig, which replaces the   *)
(* route and with it the filter: NewWithConfig makes 64 empty shards.      *)
(***************************************************************************)
RouteReconcile ==
  /\ TargetFailed /\ regs < MaxRegs
  /\ now >= lastReg + RequeueSec * TPS
  /\ buckets' = << >> /\ lat' = << >> /\ allowedN' = << >> /\ createdAt' = << >>
  /\ regs' = regs + 1 /\ lastReg' = now
  /\ UNCHANGED <<now, calls, lastOk, specOk, specShard>>

FNext ==
  \/ \E a \in ApiKeys, u \in Users, d \in Delays : OnRequest(a, u, d)
  \/ Cleanup /\ UNCHANGED <<lastOk, specOk, specShard, regs, lastReg>>
  \/ RouteReconcile

\* Requests and reconciles come from outside; only safety is checked.
FSpec == FInit /\ [][FNext]_fvars

-----------------------------------------------------------------------------
(* Properties *)

\* The route's limiter answers every request as the spec's limiter would:
\* the first rule that matches (exact, prefix or any) names the bucket by
\* based_on and value, and a bucket lives until it expires or is evicted,
\* so a reconcile of the route does not refill it.
DecidesAsSpec == lastOk = specOk

=============================================================================
