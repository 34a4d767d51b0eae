------------------------------ MODULE BootKit ------------------------------
(***************************************************************************)
(* The lifecycle kit (package bootkit) as main uses it: Start runs the     *)
(* added runnables concurrently under the start timeout, each of which may *)
(* append a lifecycle hook; then it runs every OnStart concurrently and    *)
(* waits for a start error, all OnStart calls to return, or selfCtx to be  *)
(* cancelled (by the first SIGINT/SIGTERM or by Stop); its deferred        *)
(* mayStop runs every OnStop concurrently under the stop timeout.  Start   *)
(* and Stop share one mutex.  When Start returns, main returns and the     *)
(* process ends.                                                           *)
(*                                                                         *)
(* Runnable r appends hook r (the gateway's Serve/Shutdown, the controller *)
(* manager, a listener's Drain).  A hook's OnStart either returns, fails,  *)
(* or serves until its OnStop is called; its OnStop succeeds or fails.     *)
(* Timeouts fire whenever something is still running.                      *)
(***************************************************************************)
EXTENDS Naturals, Sequences, SequencesExt

CONSTANTS
  Runnables,    \* the runnables added with Add (model values)
  Behaviours,   \* what a runnable and its hook may do (records, see below)
  StopCaller,   \* some goroutine calls BootKit.Stop
  MaxSignals    \* SIGINT/SIGTERM the process may receive

\* A behaviour: the runnable's result, whether it appends its hook first,
\* and what the hook's OnStart and OnStop do.
BehaviourType == [outcome : {"ok", "error"}, registers : BOOLEAN,
                  start : {"returns", "serves", "fails"}, stop : {"ok", "fails"}]
ASSUME Behaviours \subseteq BehaviourType /\ StopCaller \in BOOLEAN

Hooks == Runnables
\* The goroutines that call callStopHooks: Start's mayStop and Stop.
Rounds == {"start", "stop"}

VARIABLES
  kind,        \* per runnable: its behaviour (fixed)
  lock,        \* BootKit.mutex: "free", "start" or "stop"
  cancelled,   \* selfCtx is done
  spc,         \* Start: "init", "run", "serve", "stopping", "returned"
  rpc,         \* per runnable goroutine: "idle", "running", "ok", "failed", "blocked"
  registered,  \* lifeCycle hooks, in Append order
  hpc,         \* per hook's OnStart goroutine: "idle", "running", "returned", "failed"
  sg,          \* per round and hook, the OnStop goroutine: "none", "running", "ok", "failed", "blocked"
  waiting,     \* per round: its caller waits in waitDoneOrContextDone
  stopCalls,   \* per hook: OnStop invocations so far
  timedOut,    \* a stop round ended by its timeout
  stopper,     \* the Stop caller: "idle", "stopping", "returned"
  sigs,        \* signals received
  exited       \* os.Exit was called

vars == <<kind, lock, cancelled, spc, rpc, registered, hpc, sg, waiting,
          stopCalls, timedOut, stopper, sigs, exited>>

TypeOK ==
  /\ kind \in [Runnables -> Behaviours]
  /\ lock \in {"free", "start", "stop"}
  /\ spc \in {"init", "run", "serve", "stopping", "returned"}
  /\ rpc \in [Runnables -> {"idle", "running", "ok", "failed", "blocked"}]
  /\ registered \in Seq(Hooks) /\ IsInjective(registered)
  /\ hpc \in [Hooks -> {"idle", "running", "returned", "failed"}]
  /\ sg \in [Rounds -> [Hooks -> {"none", "running", "ok", "failed", "blocked"}]]
  /\ waiting \in [Rounds -> BOOLEAN]
  /\ stopCalls \in [Hooks -> 0..2]
  /\ stopper \in {"idle", "stopping", "returned"}
  /\ sigs \in 0..MaxSignals /\ exited \in BOOLEAN

\* The process runs until main's Start returns or os.Exit.
Alive == spc # "returned" /\ ~exited

Init ==
  /\ kind \in [Runnables -> Behaviours]
  /\ lock = "free" /\ cancelled = FALSE /\ spc = "init"
  /\ rpc = [r \in Runnables |-> "idle"]
  /\ registered = << >>
  /\ hpc = [h \in Hooks |-> "idle"]
  /\ sg = [c \in Rounds |-> [h \in Hooks |-> "none"]]
  /\ waiting = [c \in Rounds |-> FALSE]
  /\ stopCalls = [h \in Hooks |-> 0]
  /\ timedOut = FALSE /\ stopper = "idle" /\ sigs = 0 /\ exited = FALSE

-----------------------------------------------------------------------------
(* callStopHooks and waitDoneOrContextDone, for round c. *)

\* Mutation: the loop over the reversed hooks skips the last one.
RoundHooksOffByOne(seq) == {seq[i] : i \in 1..(Len(seq) - 1)}

\* The hooks one call of callStopHooks starts an OnStop goroutine for:
\* every hook of lifeCycle.GetHooks(), in reversed order, all at once.
RoundHooks(seq) == Range(seq)

\* stop(): with no hooks it returns nil at once, else callStopHooks starts
\* the OnStop goroutines of hooks hs and its caller waits.
Launch(c, hs) ==
  /\ sg' = [sg EXCEPT ![c] = [h \in Hooks |-> IF h \in hs THEN "running" ELSE sg[c][h]]]
  /\ stopCalls' = [h \in Hooks |-> IF h \in hs THEN stopCalls[h] + 1 ELSE stopCalls[h]]
  /\ waiting' = [waiting EXCEPT ![c] = hs # {}]

\* The caller of round c goes on when waitDoneOrContextDone returns:
\* Start's defers run (mayStop is done, cancel, Unlock) and main returns;
\* Stop unlocks and returns.
Resume(c) ==
  IF c = "start"
    THEN /\ spc' = "returned" /\ lock' = "free" /\ UNCHANGED stopper
    ELSE /\ stopper' = "returned" /\ lock' = "free" /\ UNCHANGED spc

\* Start's next step once the round it launches with hooks hs is over
\* (immediately when there is none).
StartStops(hs) ==
  IF hs = {} THEN /\ spc' = "returned" /\ lock' = "free"
             ELSE /\ spc' = "stopping" /\ UNCHANGED lock

\* An OnStop goroutine of round c returns.  An error is sent on the
\* unbuffered errChan: the waiting caller takes it and returns, or, once
\* nobody waits, the goroutine blocks forever.
StopHookReturn(c, h) ==
  /\ Alive
  /\ sg[c][h] = "running"
  /\ IF kind[h].stop = "ok"
       THEN /\ sg' = [sg EXCEPT ![c][h] = "ok"]
            /\ UNCHANGED <<waiting, spc, lock, stopper>>
     ELSE IF waiting[c]
       THEN /\ sg' = [sg EXCEPT ![c][h] = "failed"]
            /\ waiting' = [waiting EXCEPT ![c] = FALSE]
            /\ Resume(c)
     ELSE /\ sg' = [sg EXCEPT ![c][h] = "blocked"]
          /\ UNCHANGED <<waiting, spc, lock, stopper>>
  /\ UNCHANGED <<kind, cancelled, rpc, registered, hpc, stopCalls, timedOut, sigs, exited>>

\* Every OnStop goroutine of round c has returned nil: wg.Wait is over.
RoundDone(c) ==
  /\ Alive
  /\ waiting[c]
  /\ \A h \in Hooks : sg[c][h] \in {"none", "ok"}
  /\ waiting' = [waiting EXCEPT ![c] = FALSE]
  /\ Resume(c)
  /\ UNCHANGED <<kind, cancelled, rpc, registered, hpc, sg, stopCalls, timedOut, sigs, exited>>

\* The stop timeout expires while an OnStop goroutine still runs.
RoundTimeout(c) ==
  /\ Alive
  /\ waiting[c]
  /\ \E h \in Hooks : sg[c][h] = "running"
  /\ waiting' = [waiting EXCEPT ![c] = FALSE]
  /\ timedOut' = TRUE
  /\ Resume(c)
  /\ UNCHANGED <<kind, cancelled, rpc, registered, hpc, sg, stopCalls, sigs, exited>>

-----------------------------------------------------------------------------
(* Start *)

\* Start locks the mutex, derives the start context from selfCtx and runs
\* callRunnable: one goroutine per runnable.
StartBegin ==
  /\ Alive
  /\ spc = "init" /\ lock = "free"
  /\ lock' = "start" /\ spc' = "run"
  /\ rpc' = [r \in Runnables |-> "running"]
  /\ UNCHANGED <<kind, cancelled, registered, hpc, sg, waiting, stopCalls,
                 timedOut, stopper, sigs, exited>>

\* Mutation: the return after mayStop is missing, so the start hooks run
\* although a runnable failed.
AfterRunErrorNoReturn(hs) ==
  /\ StartStops(hs)
  /\ hpc' = [h \in Hooks |-> IF h \in hs THEN "running" ELSE hpc[h]]

\* callRunnable returned an error: b.mayStop() over the hooks hs, return.
AfterRunError(hs) == StartStops(hs) /\ UNCHANGED hpc

\* A runnable goroutine returns, after appending its hook if it does.  Its
\* error goes over callRunnable's unbuffered errChan to Start while Start
\* still waits there; afterwards the goroutine blocks forever.
RunnableReturn(r) ==
  /\ Alive
  /\ rpc[r] = "running"
  /\ LET regs == IF kind[r].registers THEN Append(registered, r) ELSE registered
     IN /\ registered' = regs
        /\ IF kind[r].outcome = "ok"
             THEN /\ rpc' = [rpc EXCEPT ![r] = "ok"]
                  /\ UNCHANGED <<spc, lock, hpc, sg, waiting, stopCalls>>
           ELSE IF spc = "run"
             THEN /\ rpc' = [rpc EXCEPT ![r] = "failed"]
                  /\ Launch("start", RoundHooks(regs))
                  /\ AfterRunError(RoundHooks(regs))
           ELSE /\ rpc' = [rpc EXCEPT ![r] = "blocked"]
                /\ UNCHANGED <<spc, lock, hpc, sg, waiting, stopCalls>>
  /\ UNCHANGED <<kind, cancelled, timedOut, stopper, sigs, exited>>

\* callRunnable's wait ends with the start context done (start timeout,
\* or selfCtx cancelled): mayStop over the hooks appended so far, return.
RunTimeout ==
  /\ Alive
  /\ spc = "run"
  /\ (\E r \in Runnables : rpc[r] = "running") \/ cancelled
  /\ Launch("start", RoundHooks(registered))
  /\ StartStops(RoundHooks(registered))
  /\ UNCHANGED <<kind, cancelled, rpc, registered, hpc, timedOut, stopper, sigs, exited>>

\* Every runnable returned nil: callStartHook starts one goroutine per
\* hook, and the signal goroutine is installed.
RunDone ==
  /\ Alive
  /\ spc = "run"
  /\ \A r \in Runnables : rpc[r] = "ok"
  /\ hpc' = [h \in Hooks |-> IF h \in Range(registered) THEN "running" ELSE hpc[h]]
  /\ spc' = "serve"
  /\ UNCHANGED <<kind, lock, cancelled, rpc, registered, sg, waiting, stopCalls,
                 timedOut, stopper, sigs, exited>>

\* An OnStart goroutine returns; its error goes to the buffered errChan.
\* A serving hook (Serve, mgr.Start) returns only once its OnStop ran.
HookStartReturn(h) ==
  /\ Alive
  /\ hpc[h] = "running"
  /\ kind[h].start # "serves" \/ stopCalls[h] > 0
  /\ hpc' = [hpc EXCEPT ![h] = IF kind[h].start = "fails" THEN "failed" ELSE "returned"]
  /\ UNCHANGED <<kind, lock, cancelled, spc, rpc, registered, sg, waiting,
                 stopCalls, timedOut, stopper, sigs, exited>>

\* Start's select: a start error, every OnStart returned, or selfCtx done;
\* then the deferred mayStop runs callStopHooks.
ServeReturn ==
  /\ Alive
  /\ spc = "serve"
  /\ \/ \E h \in Hooks : hpc[h] = "failed"
     \/ \A h \in Range(registered) : hpc[h] \in {"returned", "failed"}
     \/ cancelled
  /\ Launch("start", RoundHooks(registered))
  /\ StartStops(RoundHooks(registered))
  /\ UNCHANGED <<kind, cancelled, rpc, registered, hpc, timedOut, stopper, sigs, exited>>

-----------------------------------------------------------------------------
(* Signals and Stop *)

\* Mutation: the signal goroutine forgets to cancel selfCtx.
CancelOnSignalMissing(c) == c

\* The signal goroutine's first signal calls b.selfCancel().
CancelOnSignal(c) == TRUE

\* SIGINT/SIGTERM reaches the goroutine Start installed: the first cancels
\* selfCtx, the second calls os.Exit(1).
Signal ==
  /\ Alive
  /\ spc \in {"serve", "stopping"}
  /\ sigs < MaxSignals
  /\ sigs' = sigs + 1
  /\ IF sigs = 0 THEN /\ cancelled' = CancelOnSignal(cancelled) /\ UNCHANGED exited
                 ELSE /\ exited' = TRUE /\ UNCHANGED cancelled
  /\ UNCHANGED <<kind, lock, spc, rpc, registered, hpc, sg, waiting, stopCalls,
                 timedOut, stopper>>

\* BootKit.Stop: lock the mutex, cancel selfCtx, stop().
StopCall ==
  /\ StopCaller /\ Alive
  /\ stopper = "idle" /\ lock = "free"
  /\ cancelled' = TRUE
  /\ Launch("stop", RoundHooks(registered))
  /\ IF RoundHooks(registered) = {} THEN /\ stopper' = "returned" /\ lock' = "free"
                                    ELSE /\ stopper' = "stopping" /\ lock' = "stop"
  /\ UNCHANGED <<kind, spc, rpc, registered, hpc, timedOut, sigs, exited>>

Next ==
  \/ StartBegin \/ RunTimeout \/ RunDone \/ ServeReturn \/ Signal \/ StopCall
  \/ \E r \in Runnables : RunnableReturn(r)
  \/ \E h \in Hooks : HookStartReturn(h)
  \/ \E c \in Rounds, h \in Hooks : StopHookReturn(c, h)
  \/ \E c \in Rounds : RoundDone(c) \/ RoundTimeout(c)

\* Every goroutine runs while it can; timers fire once their time is up.
\* Signals and the Stop caller come from outside and are not forced.
Fairness ==
  /\ WF_vars(StartBegin) /\ WF_vars(RunTimeout) /\ WF_vars(RunDone) /\ WF_vars(ServeReturn)
  /\ \A r \in Runnables : WF_vars(RunnableReturn(r))
  /\ \A h \in Hooks : WF_vars(HookStartReturn(h))
  /\ \A c \in Rounds : WF_vars(RoundDone(c)) /\ WF_vars(RoundTimeout(c))
                       /\ \A h \in Hooks : WF_vars(StopHookReturn(c, h))

Spec == Init /\ [][Next]_vars /\ Fairness

-----------------------------------------------------------------------------
(* Properties *)

\* No OnStart hook runs unless every runnable returned nil (the tests
\* RunnableError and LaterRunnableError): whatever order the runnables
\* finish and fail in.
HooksStartOnlyAfterRunnables ==
  (\E h \in Hooks : hpc[h] # "idle") => \A r \in Runnables : rpc[r] = "ok"

\* By the time Start returns, OnStop has been invoked on every hook whose
\* OnStart was called (spec: every OnStop hook is invoked iff Start was
\* entered), however Start's wait ended.
StartedHooksStopped ==
  spc = "returned" => \A h \in Hooks : hpc[h] # "idle" => stopCalls[h] > 0

\* A signal makes the process end: Start returns (or os.Exit runs).
ShutdownOnSignal == (sigs > 0) ~> ~Alive

\* When Start returns without the stop timeout having expired, every
\* OnStop it started has finished: a failing stop hook does not cut the
\* others short (spec: stop errors do not short-circuit other stop hooks).
GracefulStop ==
  (spc = "returned" /\ ~timedOut) => \A c \in Rounds, h \in Hooks : sg[c][h] # "running"

=============================================================================
