--------------------------- MODULE RouteFallback ---------------------------
(***************************************************************************)
(* The request path from the route registry to the upstream cluster:       *)
(* route manager HandleRequest (match a route), routeDefault.HandleRequest *)
(* (route request filters, then the fallback loop), and cluster manager    *)
(* HandleRequest (registry lookup, DoUpstreamRequest, and the conversion   *)
(* of a response carrying an error into an error).                         *)
(*                                                                         *)
(* Several requests run the loop at once while the controller upserts and  *)
(* removes clusters in the cluster registry.  The load balancer's choice   *)
(* is abstracted to "some target of the route" (module LoadBalancer checks *)
(* how the choice is made); the upstream's answer is any HTTP answer, and  *)
(* module ClusterCall gives the outcome the loop sees.  Sleeps (pre_delay, *)
(* post_delay) take no modelled time.                                      *)
(***************************************************************************)
EXTENDS Naturals, Sequences, FiniteSets, ClusterCall

CONSTANTS
  Requests,       \* concurrent client requests (model values)
  Clusters,       \* cluster names the controller may register
  Targets,        \* the route's targets: a sequence of cluster names
  Policy,         \* "UNSPECIFIED" or a load-balancing policy name
  HasFallback,    \* cfg.Fallback != nil
  MaxRetries,     \* cfg.Fallback.MaxRetries, or NoValue when it is nil
  NoValue,        \* model value standing for an unset optional field
  MaxAttempts     \* model bound on upstream calls per request

ASSUME Targets \in Seq(Clusters) /\ Len(Targets) > 0
ASSUME MaxRetries = NoValue \/ MaxRetries \in Nat
ASSUME MaxAttempts \in Nat \ {0}

\* defaultRouteFallbackMaxRetries in route.go
DefaultMaxRetries == 3

\* What one call of clustermanager.HandleRequest to a registered cluster
\* can end in, over every upstream answer (ClusterCall):
\*  ok        : resp, nil
\*  upstream  : the response carries an error (resp.GetError() != nil)
\*  transport : the HTTP call failed (NewErrorBadGateway)
\*  internal  : a filter, marshaller, unmarshaller or SetModel failed
\* and, for a cluster that is not in the registry, notfound.
UpstreamOutcomes == {ClusterCall(a, ff) : a \in Answers, ff \in BOOLEAN}
Outcomes == UpstreamOutcomes \cup {"notfound", "filter", "noroute"}

VARIABLES
  registered,   \* clusters present in the cluster registry
  pc,           \* per request: "start", "attempt" or "done"
  retried,      \* per request: retriedCount of the fallback loop
  attempts,     \* per request: calls made to clustermanager.HandleRequest
  history       \* per request: the outcomes of its calls, in order

vars == <<registered, pc, retried, attempts, history>>

TypeOK ==
  /\ registered \subseteq Clusters
  /\ pc \in [Requests -> {"start", "attempt", "done"}]
  /\ retried \in [Requests -> Nat]
  /\ attempts \in [Requests -> 0..MaxAttempts]
  /\ history \in [Requests -> Seq(Outcomes)]

\* lo.CoalesceOrEmpty(GetMaxRetries(), defaultRouteFallbackMaxRetries):
\* a configured 0 falls back to the default.
CoalesceMaxRetries(m) == IF m = 0 THEN DefaultMaxRetries ELSE m

\* The route's view of a cluster call: a response whose error is set is
\* returned as an error by clustermanager.HandleRequest.
IsError(o) == o # "ok"

Init ==
  /\ registered \in SUBSET Clusters
  /\ pc = [r \in Requests |-> "start"]
  /\ retried = [r \in Requests |-> 0]
  /\ attempts = [r \in Requests |-> 0]
  /\ history = [r \in Requests |-> << >>]

(***************************************************************************)
(* routemanager.HandleRequest: MatchRoute finds the route (or not), then   *)
(* the route's type-specific request filters run; a failing filter ends    *)
(* the request with its error before any cluster is called.                *)
(***************************************************************************)
HandleRequest(r) ==
  /\ pc[r] = "start"
  /\ \E res \in {"matched", "noroute", "filter"} :
       IF res = "matched"
         THEN /\ pc' = [pc EXCEPT ![r] = "attempt"]
              /\ UNCHANGED history
         ELSE /\ pc' = [pc EXCEPT ![r] = "done"]
              /\ history' = [history EXCEPT ![r] = <<res>>]
  /\ UNCHANGED <<registered, retried, attempts>>

\* The cluster name one iteration of the loop picks: the first target for
\* the UNSPECIFIED policy, else whatever loadBalancer.Next returns.
SelectCluster ==
  IF Policy = "UNSPECIFIED"
    THEN {Targets[1]}
    ELSE {Targets[i] : i \in DOMAIN Targets}

\* Mutation: the retry count is compared one too early.
ContinueOffByOne(r) ==
  /\ HasFallback
  /\ \/ MaxRetries = NoValue
     \/ retried[r] + 1 < CoalesceMaxRetries(MaxRetries)

\* Whether the loop goes round again after a failed call, and the next
\* retriedCount.  Mirrors the three exits after the error check.
Continue(r) ==
  /\ HasFallback
  /\ \/ MaxRetries = NoValue
     \/ retried[r] < CoalesceMaxRetries(MaxRetries)

NextRetried(r) == IF MaxRetries = NoValue THEN retried[r] ELSE retried[r] + 1

(***************************************************************************)
(* One iteration of the fallback loop: select a cluster, (pre_delay),      *)
(* call clustermanager.HandleRequest, run the reversed route response      *)
(* filters (they only log), then return on success or when no fallback    *)
(* applies, else (post_delay) count a retry and go round again.            *)
(***************************************************************************)
Attempt(r) ==
  /\ pc[r] = "attempt"
  /\ attempts[r] < MaxAttempts
  /\ \E c \in SelectCluster :
     \E o \in IF c \in registered THEN UpstreamOutcomes ELSE {"notfound"} :
       /\ attempts' = [attempts EXCEPT ![r] = @ + 1]
       /\ history' = [history EXCEPT ![r] = Append(@, o)]
       /\ IF IsError(o) /\ Continue(r)
            THEN /\ retried' = [retried EXCEPT ![r] = NextRetried(r)]
                 /\ UNCHANGED pc
            ELSE /\ pc' = [pc EXCEPT ![r] = "done"]
                 /\ UNCHANGED retried
  /\ UNCHANGED registered

(***************************************************************************)
(* The controller: Register.UpsertAndRegisterCluster and DeleteCluster,    *)
(* each under the registry's write lock.                                   *)
(***************************************************************************)
UpsertAndRegisterCluster(c) ==
  /\ registered' = registered \cup {c}
  /\ UNCHANGED <<pc, retried, attempts, history>>

DeleteCluster(c) ==
  /\ c \in registered
  /\ registered' = registered \ {c}
  /\ UNCHANGED <<pc, retried, attempts, history>>

Next ==
  \/ \E r \in Requests : HandleRequest(r) \/ Attempt(r)
  \/ \E c \in Clusters : UpsertAndRegisterCluster(c) \/ DeleteCluster(c)

\* Each request runs in its own goroutine, which keeps running while it
\* has work: weak fairness per request.  The controller gets none.
Fairness == \A r \in Requests : WF_vars(HandleRequest(r)) /\ WF_vars(Attempt(r))

Spec == Init /\ [][Next]_vars /\ Fairness

-----------------------------------------------------------------------------
(* Properties *)

\* The number of retries the route promises (spec 4.2 step 8, 7): none
\* without a fallback block, else max_retries, 3 when it is not set.
PromisedRetries ==
  IF ~HasFallback THEN 0
  ELSE IF MaxRetries = NoValue \/ MaxRetries = 0 THEN 3
  ELSE MaxRetries

\* The fallback loop of routeDefault.HandleRequest calls the upstream at
\* most max_retries + 1 times for one request, whatever the upstream and
\* the registry do in between.
RetriesBounded ==
  \A r \in Requests : attempts[r] <= PromisedRetries + 1

\* The refinement mapping onto the route's promise: a request waits until
\* HandleRequest, calls while the fallback loop runs and is answered when
\* the loop returns; its calls are the loop's calls of
\* clustermanager.HandleRequest, each a success or a failure (the
\* "noroute" or "filter" answer is no call).
Promise == INSTANCE FallbackPolicy WITH
  Budget <- PromisedRetries + 1,
  status <- [r \in Requests |-> CASE pc[r] = "start"   -> "waiting"
                                  [] pc[r] = "attempt" -> "calling"
                                  [] pc[r] = "done"    -> "answered"],
  calls  <- [r \in Requests |->
               [i \in 1..attempts[r] |-> IF history[r][i] = "ok" THEN "ok" ELSE "error"]]

\* The fallback loop keeps the route's promise: every call after the first
\* follows a failure, a success is answered at once, a failure is retried
\* until max_retries + 1 calls are used up and then answered, and every
\* request is answered, whatever the registry does in between (a cluster
\* removed between two attempts is a failed call).
FallbackPolicySpec == Promise!Spec

=============================================================================
