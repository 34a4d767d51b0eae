--------------------------- MODULE GatewayShutdown ---------------------------
(***************************************************************************)
(* The gateway's side of a graceful stop: requests served through the      *)
(* listener middleware chain while the lifecycle kit's stop round runs the *)
(* OnStop hooks of the TTS listener (Drain), of its auth filter            *)
(* (conn.Close) and of the gateway (server.Shutdown) concurrently, under   *)
(* the stop timeout.                                                       *)
(*                                                                         *)
(* A request enters WithCancellable (outermost: its cancel func goes into  *)
(* the CancellableRequestMap), passes the other middlewares to             *)
(* WithRejectAfterDrainedWithError (innermost: 503 once drained), runs the *)
(* handler (the auth filter's OnRequestPre, then the route), and on its    *)
(* way out removes itself from the map.  Drain sets drained, waits         *)
(* DefaultDrainWaitTime and cancels every context in the map.  Shutdown    *)
(* closes the listening socket and the idle connections and returns once   *)
(* no request is active, or with the context's error at the stop deadline. *)
(*                                                                         *)
(* Time advances in ticks of TickSec seconds from the signal on.  Steps    *)
(* that take microseconds (a hook goroutine's first statements, a          *)
(* cancelled request unwinding, Shutdown's poll noticing no active         *)
(* connection) are urgent: no tick passes while one of them is enabled. A  *)
(* request's handler otherwise takes any time; a Hung one (a stream whose  *)
(* upstream never answers) returns only once its context is cancelled,     *)
(* since the upstream call inherits the context.                           *)
(***************************************************************************)
EXTENDS Naturals, FiniteSets, AuthFilter

CONSTANTS
  Requests,        \* client requests (model values)
  Hung,            \* requests whose handler returns only when cancelled
  DrainWaitSec,    \* constants.DefaultDrainWaitTime (15 s)
  StopTimeoutSec,  \* bootkit DefaultStopTimeout (60 s)
  TickSec,         \* model time step
  ReqHeaders,      \* Authorization headers clients send
  ReqReplies       \* APIKeyAuth replies the auth service gives

ASSUME Hung \subseteq Requests

VARIABLES
  rpc,         \* per request: "unsent", "refused", "added", "authenticating",
               \* "serving", "returning", "done"
  outcome,     \* per request: "none", "ok", "503", "cancelled", or the auth error
  cmap,        \* the CancellableRequestMap's keys
  cancelled,   \* requests whose context has been cancelled
  drained,     \* OpenAITextToSpeechListener.drained
  listening,   \* the gateway's listening socket is open
  stopping,    \* the stop round has started its OnStop goroutines
  dpc,         \* Drain: "idle", "running", "waiting", "returned"
  timer,       \* CancelAllAfter's AfterFunc: "none", "pending", "fired"
  gpc,         \* gateway OnStop: "idle", "running", "waiting", "ok", "timeout"
  roundOver,   \* callStopHooks' waitDoneOrContextDone has returned
  clock,       \* ticks since the stop round began
  connOpen,    \* the auth filter's gRPC connection is open
  apc          \* the auth filter's OnStop (conn.Close): "idle", "running", "returned"

vars == <<rpc, outcome, cmap, cancelled, drained, listening, stopping, dpc, timer,
          gpc, roundOver, clock, connOpen, apc>>

authVars == <<connOpen, apc>>

MaxTicks == StopTimeoutSec \div TickSec

TypeOK ==
  /\ rpc \in [Requests -> {"unsent", "refused", "added", "authenticating", "serving",
                           "returning", "done"}]
  /\ outcome \in [Requests -> {"none", "ok", "503", "cancelled", "missing_api_key",
                               "incorrect_api_key", "service_unavailable", "rpc_error"}]
  /\ cmap \subseteq Requests /\ cancelled \subseteq Requests
  /\ drained \in BOOLEAN /\ listening \in BOOLEAN /\ stopping \in BOOLEAN
  /\ dpc \in {"idle", "running", "waiting", "returned"}
  /\ timer \in {"none", "pending", "fired"}
  /\ gpc \in {"idle", "running", "waiting", "ok", "timeout"}
  /\ roundOver \in BOOLEAN /\ clock \in 0..MaxTicks
  /\ connOpen \in BOOLEAN /\ apc \in {"idle", "running", "returned"}

\* NewOpenAITextToSpeechListenerConfigs (an empty map, not drained) and
\* StartGateway's net.Listen; the Serve hook has started.  The auth
\* filter's NewWithConfig has opened its connection (grpc.NewClient) and
\* appended an OnStop hook that closes it.
Init ==
  /\ rpc = [r \in Requests |-> "unsent"] /\ outcome = [r \in Requests |-> "none"]
  /\ cmap = {} /\ cancelled = {}
  /\ drained = FALSE /\ listening = TRUE /\ stopping = FALSE
  /\ dpc = "idle" /\ timer = "none" /\ gpc = "idle" /\ roundOver = FALSE /\ clock = 0
  /\ connOpen = TRUE /\ apc = "idle"

\* The stop deadline has passed: the stop round's context is done.
Deadline == clock * TickSec >= StopTimeoutSec

-----------------------------------------------------------------------------
(* Requests *)

\* Mutation: the listener's chain lacks WithCancellable.
ArriveUntracked(r) ==
  /\ rpc[r] = "unsent" /\ ~roundOver
  /\ IF listening
       THEN rpc' = [rpc EXCEPT ![r] = "added"] /\ UNCHANGED cmap
       ELSE rpc' = [rpc EXCEPT ![r] = "refused"] /\ UNCHANGED cmap
  /\ UNCHANGED <<outcome, cancelled, drained, listening, stopping, dpc, timer, gpc, roundOver, clock>>
  /\ UNCHANGED authVars

\* A request reaches the server: refused once the listening socket is
\* closed, else accepted and, in WithCancellable, its context's cancel
\* func is added to the map (Add, under the map's mutex).
Arrive(r) ==
  /\ rpc[r] = "unsent" /\ ~roundOver
  /\ IF listening
       THEN rpc' = [rpc EXCEPT ![r] = "added"] /\ cmap' = cmap \cup {r}
       ELSE rpc' = [rpc EXCEPT ![r] = "refused"] /\ UNCHANGED cmap
  /\ UNCHANGED <<outcome, cancelled, drained, listening, stopping, dpc, timer, gpc, roundOver, clock>>
  /\ UNCHANGED authVars

\* WithRejectAfterDrainedWithError: HasDrained under the read lock.
Admitted(r) == ~drained

\* The request reaches the innermost middleware: handled, or answered 503.
Check(r) ==
  /\ rpc[r] = "added" /\ ~roundOver
  /\ IF Admitted(r)
       THEN rpc' = [rpc EXCEPT ![r] = "authenticating"] /\ UNCHANGED outcome
       ELSE rpc' = [rpc EXCEPT ![r] = "returning"] /\ outcome' = [outcome EXCEPT ![r] = "503"]
  /\ UNCHANGED <<cmap, cancelled, drained, listening, stopping, dpc, timer, gpc, roundOver, clock>>
  /\ UNCHANGED authVars

\* CommonListenerHandler runs the listener's OnRequestPre filters: the
\* auth filter calls APIKeyAuth with the request's context.  A call on the
\* closed connection, or under a cancelled context, fails with Canceled.
Authenticate(r) ==
  /\ rpc[r] = "authenticating" /\ ~roundOver
  /\ \E h \in ReqHeaders, rep \in ReqReplies :
       LET reply == IF connOpen /\ r \notin cancelled THEN rep ELSE CanceledReply
           verdict == OnRequestPre(h, reply)
       IN IF verdict = "ok"
            THEN rpc' = [rpc EXCEPT ![r] = "serving"] /\ UNCHANGED outcome
            ELSE /\ rpc' = [rpc EXCEPT ![r] = "returning"]
                 /\ outcome' = [outcome EXCEPT ![r] = verdict]
  /\ UNCHANGED <<cmap, cancelled, drained, listening, stopping, dpc, timer, gpc, roundOver, clock>>
  /\ UNCHANGED authVars

\* CommonListenerHandler returns: with the upstream's answer, or, once the
\* context is cancelled, with the cancellation error.
Finish(r) ==
  /\ rpc[r] = "serving" /\ ~roundOver
  /\ r \notin Hung \/ r \in cancelled
  /\ rpc' = [rpc EXCEPT ![r] = "returning"]
  /\ outcome' = [outcome EXCEPT ![r] = IF r \in cancelled THEN "cancelled" ELSE "ok"]
  /\ UNCHANGED <<cmap, cancelled, drained, listening, stopping, dpc, timer, gpc, roundOver, clock>>
  /\ UNCHANGED authVars

\* WithCancellable's deferred Remove; the response is written.
Return(r) ==
  /\ rpc[r] = "returning" /\ ~roundOver
  /\ rpc' = [rpc EXCEPT ![r] = "done"] /\ cmap' = cmap \ {r}
  /\ UNCHANGED <<outcome, cancelled, drained, listening, stopping, dpc, timer, gpc, roundOver, clock>>
  /\ UNCHANGED authVars

\* A request the server is still handling (a connection that is active).
Active == {r \in Requests : rpc[r] \in {"added", "authenticating", "serving", "returning"}}

-----------------------------------------------------------------------------
(* The stop round *)

\* The first SIGINT/SIGTERM cancels selfCtx; Start returns from its loop and
\* its deferred mayStop -> stop -> callStopHooks starts one goroutine per
\* OnStop hook (Drain, the gateway's Shutdown) under the stop timeout.
BeginStop ==
  /\ ~stopping
  /\ stopping' = TRUE /\ dpc' = "running" /\ gpc' = "running" /\ apc' = "running"
  /\ UNCHANGED <<rpc, outcome, cmap, cancelled, drained, listening, timer, roundOver, clock>>
  /\ UNCHANGED connOpen

\* Drain: drained = true under the write lock, then
\* CancelAllAfterWithContext starts CancelAllAfter, whose AfterFunc is
\* armed with DefaultDrainWaitTime.
DrainSet ==
  /\ dpc = "running" /\ ~roundOver
  /\ drained' = TRUE /\ dpc' = "waiting" /\ timer' = "pending"
  /\ UNCHANGED <<rpc, outcome, cmap, cancelled, listening, stopping, gpc, roundOver, clock>>
  /\ UNCHANGED authVars

\* Mutation: the drain timer's callback never runs.
CancelDueNever == FALSE

\* The AfterFunc is due.
CancelDue == clock * TickSec >= DrainWaitSec

\* The AfterFunc callback: under the map's mutex, cancel every context in
\* the map; then wg.Done lets CancelAllAfter return.
CancelAll ==
  /\ timer = "pending" /\ CancelDue /\ ~roundOver
  /\ cancelled' = cancelled \cup cmap /\ timer' = "fired"
  /\ UNCHANGED <<rpc, outcome, cmap, drained, listening, stopping, dpc, gpc, roundOver, clock>>
  /\ UNCHANGED authVars

\* fo.Invoke0 returns when CancelAllAfter has returned or when the stop
\* context is done (the timer still fires later); Drain returns nil.
DrainReturn ==
  /\ dpc = "waiting" /\ ~roundOver
  /\ timer = "fired" \/ Deadline
  /\ dpc' = "returned"
  /\ UNCHANGED <<rpc, outcome, cmap, cancelled, drained, listening, stopping, timer, gpc, roundOver, clock>>
  /\ UNCHANGED authVars

\* server.Shutdown: close the listening socket and the idle connections,
\* then poll for active ones.
ShutdownBegin ==
  /\ gpc = "running" /\ ~roundOver
  /\ listening' = FALSE /\ gpc' = "waiting"
  /\ UNCHANGED <<rpc, outcome, cmap, cancelled, drained, stopping, dpc, timer, roundOver, clock>>
  /\ UNCHANGED authVars

\* Shutdown returns nil once no connection is active, or ctx.Err() at the
\* deadline; the hook returns that error.
ShutdownReturn ==
  /\ gpc = "waiting" /\ ~roundOver
  /\ \/ Active = {} /\ gpc' = "ok"
     \/ Active # {} /\ Deadline /\ gpc' = "timeout"
  /\ UNCHANGED <<rpc, outcome, cmap, cancelled, drained, listening, stopping, dpc, timer, roundOver, clock>>
  /\ UNCHANGED authVars

\* waitDoneOrContextDone: every OnStop goroutine is done, a hook's error
\* arrives on errChan, or the stop context is done.  Start then returns
\* and main ends the process.
RoundEnd ==
  /\ stopping /\ ~roundOver
  /\ \/ dpc = "returned" /\ gpc \in {"ok", "timeout"} /\ apc = "returned"
     \/ gpc = "timeout"
     \/ Deadline
  /\ roundOver' = TRUE
  /\ UNCHANGED <<rpc, outcome, cmap, cancelled, drained, listening, stopping, dpc, timer, gpc, clock>>
  /\ UNCHANGED authVars

\* The auth filter's OnStop hook: conn.Close.
ConnClose ==
  /\ apc = "running" /\ ~roundOver
  /\ connOpen' = FALSE /\ apc' = "returned"
  /\ UNCHANGED <<rpc, outcome, cmap, cancelled, drained, listening, stopping, dpc, timer,
                 gpc, roundOver, clock>>

\* A step that takes no noticeable time is pending; an APIKeyAuth call
\* takes at most the auth server timeout (3 s), less than a tick.
Urgent ==
  \/ dpc = "running" \/ gpc = "running" \/ apc = "running"
  \/ \E r \in Requests : rpc[r] \in {"added", "authenticating", "returning"}
  \/ \E r \in cancelled : rpc[r] = "serving"
  \/ timer = "pending" /\ CancelDue
  \/ dpc = "waiting" /\ timer = "fired"
  \/ gpc = "waiting" /\ Active = {}
  \/ dpc = "returned" /\ gpc \in {"ok", "timeout"} /\ apc = "returned"

Tick ==
  /\ stopping /\ ~roundOver /\ clock < MaxTicks /\ ~Urgent
  /\ clock' = clock + 1
  /\ UNCHANGED <<rpc, outcome, cmap, cancelled, drained, listening, stopping, dpc, timer, gpc, roundOver>>
  /\ UNCHANGED authVars

Next ==
  \/ \E r \in Requests : Arrive(r) \/ Check(r) \/ Authenticate(r) \/ Finish(r) \/ Return(r)
  \/ BeginStop \/ DrainSet \/ CancelAll \/ DrainReturn \/ ConnClose
  \/ ShutdownBegin \/ ShutdownReturn \/ RoundEnd \/ Tick

\* Every goroutine runs once it can, and time passes; clients and the
\* signal are not obliged to come.
Fairness ==
  /\ \A r \in Requests : /\ WF_vars(Check(r)) /\ WF_vars(Authenticate(r))
                         /\ WF_vars(Finish(r)) /\ WF_vars(Return(r))
  /\ WF_vars(ConnClose) /\ WF_vars(DrainSet) /\ WF_vars(CancelAll) /\ WF_vars(DrainReturn)
  /\ WF_vars(ShutdownBegin) /\ WF_vars(ShutdownReturn) /\ WF_vars(RoundEnd)
  /\ WF_vars(Tick)

Spec == Init /\ [][Next]_vars /\ Fairness

-----------------------------------------------------------------------------
(* Properties *)

\* When the drain timer has cancelled the map, no request is still being
\* served with a live context: every request the server took is in the
\* map from WithCancellable on, and one that reaches the reject check
\* after drained was set is answered 503 (spec: Drain cancels all active
\* handles after the grace period).
CancelReachesAll ==
  timer = "fired" =>
    \A r \in Requests : rpc[r] \in {"authenticating", "serving"} => r \in cancelled

\* The stop is graceful: when the stop round ends (and the process with
\* it), Shutdown has returned nil and every request the server accepted
\* has been answered, also a stream whose upstream never answers, since
\* the drain cancels it after 15 s, well inside the 60 s stop timeout.
StopGraceful ==
  roundOver => gpc = "ok" /\ Active = {}

=============================================================================
