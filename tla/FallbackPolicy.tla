--------------------------- MODULE FallbackPolicy ---------------------------
(***************************************************************************)
(* What a route promises a client about upstream calls (spec 4.2): a       *)
(* request that matches a route calls an upstream; a successful call is    *)
(* the answer; a failed call is retried while the route's budget of calls  *)
(* (max_retries + 1, or one call without a fallback block) lasts, and the  *)
(* last failure is the answer once it is used up.  A request that matches  *)
(* no route, or is refused by a route filter, is answered with no call.    *)
(* Nothing is said about which target a call goes to.                      *)
(***************************************************************************)
EXTENDS Naturals, Sequences

CONSTANTS
  Requests,   \* client requests
  Budget      \* the calls one request may make

ASSUME Budget \in Nat \ {0}

\* A call succeeds or fails; the kind of failure is not part of the promise.
Results == {"ok", "error"}

VARIABLES
  status,     \* per request: "waiting", "calling" or "answered"
  calls       \* per request: the results of its calls, in order

vars == <<status, calls>>

Init ==
  /\ status = [r \in Requests |-> "waiting"]
  /\ calls = [r \in Requests |-> << >>]

\* The request matches a route and its filters pass.
Admit(r) ==
  /\ status[r] = "waiting"
  /\ status' = [status EXCEPT ![r] = "calling"]
  /\ UNCHANGED calls

\* No route matches, or a route filter refuses the request.
Refuse(r) ==
  /\ status[r] = "waiting"
  /\ status' = [status EXCEPT ![r] = "answered"]
  /\ UNCHANGED calls

\* One upstream call; its result is the answer when it succeeded or when
\* it used the last call of the budget.
Call(r) ==
  /\ status[r] = "calling"
  /\ Len(calls[r]) < Budget
  /\ \E res \in Results :
       /\ calls' = [calls EXCEPT ![r] = Append(@, res)]
       /\ status' = [status EXCEPT ![r] =
                       IF res = "ok" \/ Len(calls[r]) + 1 = Budget
                         THEN "answered" ELSE "calling"]

Next == \E r \in Requests : Admit(r) \/ Refuse(r) \/ Call(r)

\* Every request is served to the end.
Spec == Init /\ [][Next]_vars
        /\ \A r \in Requests : WF_vars(Admit(r) \/ Refuse(r)) /\ WF_vars(Call(r))

=============================================================================
