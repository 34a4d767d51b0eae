----------------------------- MODULE Controller -----------------------------
(***************************************************************************)
(* The Kubernetes controllers of internal/controller as they drive the     *)
(* gateway's registries: the LLMBackend reconciler (part_010) and the      *)
(* ImageGenerationBackend reconciler (modelroute_controller.go) each       *)
(* register a cluster and a base route per backend model name, the        *)
(* ModelRoute                                                              *)
(* reconciler (modelroute_controller.go) registers a match route whose     *)
(* targets are the model names of the backends it names.                   *)
(*                                                                         *)
(* Objects are created, edited and deleted by users.  Every change, every  *)
(* finalizer update and every status update enqueues the object; each      *)
(* controller has one worker, which reconciles one queued object at a time *)
(* (controller-runtime's default).  Reconcile is split where the objects   *)
(* it read can change under it: the handlers run on the object read by     *)
(* the first Get; the status is written to the object read by the second  *)
(* Get.  Object specs are abstracted to a model name, a target and whether *)
(* the remaining fields pass validation.                                   *)
(***************************************************************************)
EXTENDS Naturals, FiniteSets, Sequences, SequencesExt, TLC

CONSTANTS
  Backends,      \* backend objects of both kinds (model values)
  ImageBackends, \* the ImageGenerationBackends among them; the rest are LLMBackends
  Routes,        \* ModelRoute objects (model values)
  Models,        \* model names (spec.modelName, or namespace/name)
  ObjName,       \* metadata.name of each object (namespaces may differ)
  MaxOps         \* model bound on user operations

Phases == {"None", "Healthy", "Failed"}

\* The condition types of the handler chains (the cond* constants;
\* strcase.LowerCamelCase("delete-" + condRegister) is "deleteRegister").
CondTypes == {"config", "validator", "upstreamHealthy", "destinationHealthy",
              "register", "deleteRegister", "finalDelete"}
\* Status.Conditions: type and status of each; reason is the type, and
\* the message, the error's text, is not modelled.
Conditions == Seq(CondTypes \X BOOLEAN)
Idle == [idle |-> TRUE]   \* a worker with nothing in hand

VARIABLES
  backend,       \* per LLMBackend: the object in the API server
  route,         \* per ModelRoute: the object in the API server
  clusters,      \* clustermanager's registry: cluster names
  baseRoutes,    \* routemanager.routeRegistry: route names (= model names)
  matchRoutes,   \* routemanager.matchRouteRegistry: name -> target clusters
  queueB,        \* LLMBackend work queue
  queueR,        \* ModelRoute work queue
  queueI,        \* ImageGenerationBackend work queue
  bw,            \* LLMBackend worker: Idle, or the status it is about to write
  rw,            \* ModelRoute worker: Idle, or the status it is about to write
  iw,            \* ImageGenerationBackend worker, like bw
  ops            \* user operations so far

vars == <<backend, route, clusters, baseRoutes, matchRoutes, queueB, queueR, bw, rw, ops, queueI, iw>>
imageVars == <<queueI, iw>>

LLMBackends == Backends \ ImageBackends

BackendObj == [exists : BOOLEAN, model : Models, valid : BOOLEAN,
               deleting : BOOLEAN, fin : BOOLEAN, status : Phases, conds : Conditions]
RouteObj == [exists : BOOLEAN, model : Models, target : Backends, valid : BOOLEAN,
             deleting : BOOLEAN, fin : BOOLEAN, status : Phases, tstatus : Phases,
             conds : Conditions]

TypeOK ==
  /\ backend \in [Backends -> BackendObj]
  /\ route \in [Routes -> RouteObj]
  /\ clusters \subseteq Models /\ baseRoutes \subseteq Models
  /\ DOMAIN matchRoutes \subseteq Models /\ \A m \in DOMAIN matchRoutes : matchRoutes[m] \subseteq Models
  /\ queueB \subseteq LLMBackends /\ queueI \subseteq ImageBackends /\ queueR \subseteq Routes
  /\ bw = Idle \/ bw \in [obj : LLMBackends, status : Phases, conds : Conditions]
  /\ iw = Idle \/ iw \in [obj : ImageBackends, status : Phases, conds : Conditions]
  /\ rw = Idle \/ rw \in [obj : Routes, status : Phases, tstatus : Phases, conds : Conditions]
  /\ ops \in 0..MaxOps

\* An object that exists and has no deletionTimestamp.
Live(o) == o.exists /\ ~o.deleting

Init ==
  /\ backend = [b \in Backends |-> [exists |-> FALSE, model |-> CHOOSE m \in Models : TRUE,
                 valid |-> FALSE, deleting |-> FALSE, fin |-> FALSE, status |-> "None", conds |-> << >>]]
  /\ route = [r \in Routes |-> [exists |-> FALSE, model |-> CHOOSE m \in Models : TRUE,
               target |-> CHOOSE b \in Backends : TRUE, valid |-> FALSE, deleting |-> FALSE,
               fin |-> FALSE, status |-> "None", tstatus |-> "None",
               conds |-> << >>]]
  /\ clusters = {} /\ baseRoutes = {} /\ matchRoutes = << >>
  /\ queueB = {} /\ queueR = {} /\ bw = Idle /\ rw = Idle /\ ops = 0
  /\ queueI = {} /\ iw = Idle

-----------------------------------------------------------------------------
(* Users: kubectl apply / delete.  A delete of an object with a finalizer  *)
(* sets its deletionTimestamp; without one the object is gone at once.     *)
(* A backend event goes to the work queue of its kind's controller.        *)

EnqueueBackend(b) ==
  IF b \in ImageBackends THEN queueI' = queueI \cup {b} /\ UNCHANGED queueB
                         ELSE queueB' = queueB \cup {b} /\ UNCHANGED queueI

CreateBackend(b, m, v) ==
  /\ ops < MaxOps /\ ~backend[b].exists
  /\ backend' = [backend EXCEPT ![b] = [exists |-> TRUE, model |-> m, valid |-> v,
                   deleting |-> FALSE, fin |-> FALSE, status |-> "None", conds |-> << >>]]
  /\ EnqueueBackend(b) /\ ops' = ops + 1
  /\ UNCHANGED <<route, clusters, baseRoutes, matchRoutes, queueR, bw, rw, iw>>

EditBackend(b, m, v) ==
  /\ ops < MaxOps /\ Live(backend[b])
  /\ <<m, v>> # <<backend[b].model, backend[b].valid>>
  /\ backend' = [backend EXCEPT ![b].model = m, ![b].valid = v]
  /\ EnqueueBackend(b) /\ ops' = ops + 1
  /\ UNCHANGED <<route, clusters, baseRoutes, matchRoutes, queueR, bw, rw, iw>>

DeleteBackend(b) ==
  /\ ops < MaxOps /\ Live(backend[b])
  /\ backend' = [backend EXCEPT ![b] = IF @.fin THEN [@ EXCEPT !.deleting = TRUE]
                                                ELSE [@ EXCEPT !.exists = FALSE]]
  /\ EnqueueBackend(b) /\ ops' = ops + 1
  /\ UNCHANGED <<route, clusters, baseRoutes, matchRoutes, queueR, bw, rw, iw>>

CreateRoute(r, m, t, v) ==
  /\ ops < MaxOps /\ ~route[r].exists
  /\ route' = [route EXCEPT ![r] = [exists |-> TRUE, model |-> m, target |-> t, valid |-> v,
                 deleting |-> FALSE, fin |-> FALSE, status |-> "None", tstatus |-> "None",
               conds |-> << >>]]
  /\ queueR' = queueR \cup {r} /\ ops' = ops + 1
  /\ UNCHANGED <<backend, clusters, baseRoutes, matchRoutes, queueB, bw, rw, imageVars>>

DeleteRoute(r) ==
  /\ ops < MaxOps /\ Live(route[r])
  /\ route' = [route EXCEPT ![r] = IF @.fin THEN [@ EXCEPT !.deleting = TRUE]
                                            ELSE [@ EXCEPT !.exists = FALSE]]
  /\ queueR' = queueR \cup {r} /\ ops' = ops + 1
  /\ UNCHANGED <<backend, clusters, baseRoutes, matchRoutes, queueB, bw, rw, imageVars>>

-----------------------------------------------------------------------------
(* The reconcile loop the three reconcilers share: the first Get, the     *)
(* handler chain for a live or a deleted object with a condition per       *)
(* handler, the phase, then (a separate step) the second Get and the       *)
(* status write.                                                           *)

\* LLMBackendReconciler.getReconciles and getDeleteReconciles.
BackendReconciles == <<"config", "validator", "upstreamHealthy", "register">>
BackendDeleteReconciles == <<"config", "deleteRegister", "finalDelete">>

\* ImageGenerationBackendReconciler.getReconciles and getDeleteReconciles.
ImageBackendReconciles == <<"config", "validator", "upstreamHealthy", "register">>
ImageBackendDeleteReconciles == <<"config", "deleteRegister", "finalDelete">>

\* ModelRouteReconciler.getReconciles and getDeleteReconciles.
RouteReconciles == <<"config", "validator", "destinationHealthy", "register">>
RouteDeleteReconciles == <<"config", "deleteRegister", "finalDelete">>

\* setStatusCondition: replace the condition of type typ, or append one.
SetStatusCondition(conds, typ, ready) ==
  IF \E i \in DOMAIN conds : conds[i][1] = typ
    THEN LET i == CHOOSE i \in DOMAIN conds : conds[i][1] = typ
         IN [conds EXCEPT ![i] = <<typ, ready>>]
    ELSE Append(conds, <<typ, ready>>)

\* reconcileConfig: an object without finalizers gets knoway.dev (Update).
ReconcileConfig(o) == [o EXCEPT !.fin = TRUE]

\* Mutation: the delete-condition check always fails, so the finalizer is
\* never removed.
FinalDeleteBlocked(o) == o

\* reconcileFinalDelete: the finalizer is removed; an object with a
\* deletionTimestamp and no finalizer is gone.  (Its check for a False
\* "delete-" condition never fires: the conditions were reset, and the one
\* delete condition is named "deleteRegister".)
FinalDelete(o) == IF o.deleting THEN [o EXCEPT !.exists = FALSE, !.fin = FALSE]
                                ELSE [o EXCEPT !.fin = FALSE]

\* The object of the first Get is taken off the queue; a handler's Update
\* of the finalizers is a watch event that queues it again.
Requeued(q, x, before, after) == IF before.fin = after.fin THEN q \ {x} ELSE q

-----------------------------------------------------------------------------
(* The backend reconcilers.  LLMBackendReconciler and                      *)
(* ImageGenerationBackendReconciler run the same handler sequence, each    *)
(* with its own work queue and worker and its own uniqueness check; both   *)
(* register the cluster and base route under the bare model name.         *)

\* isBackendDeleted: the object has a deletionTimestamp.
IsBackendDeleted(o) == o.deleting

\* A reconciler's uniqueness loop over the list of its own kind: another
\* backend of that list has the same model name and a different
\* metadata.name (deleting ones included).
ConflictIn(kind, b) ==
  \E o \in kind : /\ backend[o].exists /\ backend[o].model = backend[b].model
                  /\ ObjName[o] # ObjName[b]

\* LLMBackendReconciler.reconcileValidator lists LLMBackends only.
BackendConflict(b) == ConflictIn(LLMBackends, b)

\* Mutation: the checks of the spec's own fields are dropped.
ValidatorSkipsSpec(b) == ~BackendConflict(b)

\* toRegisterClusterConfig with toUpstreamHeaders (headers and headersFrom
\* secrets) and the default and override params: whether the object's
\* spec converts into a cluster config.  The spec field checks and this
\* conversion are one flag, valid.
ToRegisterClusterConfigOk(o) == o.valid

\* ImageGenerationBackendReconciler.toRegisterClusterConfig: the same
\* conversion with the image params and the metering policy.
ImageToRegisterClusterConfigOk(o) == o.valid

\* reconcileValidator: modelName, baseUrl and the cluster config, then
\* uniqueness.
Validator(b) == ToRegisterClusterConfigOk(backend[b]) /\ ~BackendConflict(b)

\* ImageGenerationBackendReconciler.reconcileValidator: the same checks,
\* uniqueness over the ImageGenerationBackendList only.
ImageValidator(b) == ImageToRegisterClusterConfigOk(backend[b]) /\ ~ConflictIn(ImageBackends, b)

\* The route manager's registries, each change under routeLock followed by
\* mergeRoutes.  RegisterBaseRouteWithConfig registers the route built by
\* InitDirectModelRoute (the model name to the cluster of that name), so a
\* base route is its name; RemoveBaseRoute deletes it.
RegisterBaseRoute(br, n) == br \cup {n}
RemoveBaseRoute(br, n) == br \ {n}

\* RegisterMatchRouteWithConfig replaces any match route of the name;
\* RemoveMatchRoute deletes it.
RegisterMatchRoute(mr, n, targets) == (n :> targets) @@ mr
RemoveMatchRoute(mr, n) == Restrict(mr, DOMAIN mr \ {n})

\* reconcileRegister on st = [o, clusters, baseRoutes]: a deleted object
\* removes the cluster and base route of its model name; otherwise the
\* cluster is upserted and the base route registered.
BackendRegister(st) ==
  IF IsBackendDeleted(st.o)
    THEN [st EXCEPT !.clusters = @ \ {st.o.model},
                    !.baseRoutes = RemoveBaseRoute(@, st.o.model)]
    ELSE [st EXCEPT !.clusters = @ \cup {st.o.model},
                    !.baseRoutes = RegisterBaseRoute(@, st.o.model)]

\* What a backend reconciler's handler of type typ does to st; the
\* validator and reconcileUpstreamHealthy change nothing.
BackendHandler(typ, st) ==
  CASE typ = "config" -> [st EXCEPT !.o = ReconcileConfig(@)]
    [] typ \in {"validator", "upstreamHealthy"} -> st
    [] typ \in {"register", "deleteRegister"} -> BackendRegister(st)
    [] typ = "finalDelete" -> [st EXCEPT !.o = FinalDelete(@)]

\* The ImageGenerationBackendReconciler's handlers: its reconcileConfig,
\* reconcileRegister and reconcileFinalDelete do what the LLMBackend ones
\* do, and its reconcileUpstreamHealthy returns nil.
ImageBackendHandler(typ, st) == BackendHandler(typ, st)

\* reconcileBackendPhase: Healthy for a deleted object, otherwise Failed if
\* a condition is False.
ReconcileBackendPhase(o, conds) ==
  IF ~IsBackendDeleted(o) /\ \E i \in DOMAIN conds : ~conds[i][2] THEN "Failed" ELSE "Healthy"

-----------------------------------------------------------------------------
(* The ModelRoute reconciler *)

\* isModelRouteDeleted
IsModelRouteDeleted(o) == o.deleting

RouteConflict(r) ==
  \E o \in Routes : /\ route[o].exists /\ route[o].model = route[r].model
                    /\ ObjName[o] # ObjName[r]

\* reconcileValidator: modelName, targets, weights, fallback and filters
\* (valid), uniqueness, then route.NewWithConfig.
RouteValidator(r) == route[r].valid /\ ~RouteConflict(r)

\* reconcileDestinationHealthy: a target backend that is not found is
\* Failed, otherwise it reports the backend's status.
TargetStatus(o) ==
  IF backend[o.target].exists THEN backend[o.target].status ELSE "Failed"

\* getModelRouteTargets: the backends the route's spec names (a route of
\* the model has one; weights and namespaces are not modelled).
ModelRouteTargets(o) == {o.target}

\* getBackendFromNamespacedName: whether Get finds the object as an
\* LLMBackend or else as an ImageGenerationBackend.
GetBackendFromNamespacedName(t) == backend[t].exists

\* mapCRDTargetsToBackends: the targets that were found.
MapCRDTargetsToBackends(ts) == {t \in ts : GetBackendFromNamespacedName(t)}

\* mapModelRouteTargetsToBackends: the clusters (backend model names) of
\* the targets that were found.
RouteTargets(found) == {backend[t].model : t \in found}

\* toRegisterRouteConfig: the route matching the model exactly, with the
\* clusters of its found targets (policy, filters and fallback not
\* modelled here).
ToRegisterRouteConfig(o) ==
  RouteTargets(MapCRDTargetsToBackends(ModelRouteTargets(o)))

\* reconcileRegister of a ModelRoute on st = [o, mr]: a deleted route
\* removes its match route (RemoveMatchRoute); otherwise the match route is
\* registered with the clusters of its targets.
RouteRegister(st) ==
  IF IsModelRouteDeleted(st.o)
    THEN [st EXCEPT !.mr = RemoveMatchRoute(@, st.o.model)]
    ELSE [st EXCEPT !.mr = RegisterMatchRoute(@, st.o.model, ToRegisterRouteConfig(st.o))]

\* What the ModelRoute reconciler's handler of type typ does to st: config
\* and finalDelete as for backends; destinationHealthy records the
\* targets' status.
RouteHandler(typ, st) ==
  CASE typ = "config" -> [st EXCEPT !.o = ReconcileConfig(@)]
    [] typ = "validator" -> st
    [] typ = "destinationHealthy" -> [st EXCEPT !.o.tstatus = TargetStatus(st.o)]
    [] typ \in {"register", "deleteRegister"} -> RouteRegister(st)
    [] typ = "finalDelete" -> [st EXCEPT !.o = FinalDelete(@)]

\* reconcileModelRoutePhase: Healthy for a deleted route, otherwise Failed
\* if a condition is False or a target's status is Failed.
RoutePhase(o, conds) ==
  IF /\ ~IsModelRouteDeleted(o)
     /\ (\E i \in DOMAIN conds : ~conds[i][2]) \/ o.tstatus = "Failed"
    THEN "Failed" ELSE "Healthy"

-----------------------------------------------------------------------------
(***************************************************************************)
(* The handler loop of Reconcile: Status.Conditions is reset, then each    *)
(* handler of rrs runs on the state st the previous one left and records   *)
(* its condition; the first that fails ends the loop.  The handlers are    *)
(* those of reconciler kind ("backend", "image" or "route"), valid its     *)
(* validator's verdict.                                                    *)
(***************************************************************************)
Handle(kind, typ, st) ==
  CASE kind = "route" -> RouteHandler(typ, st)
    [] kind = "image" -> ImageBackendHandler(typ, st)
    [] OTHER          -> BackendHandler(typ, st)

\* Whether a handler returns nil.  Updates to the API server and the
\* registries' upserts do not fail in this model, so only the validator
\* fails, no handler of a deleted object fails, and the force-delete
\* continue (after graceDeletePeriod) is never needed.
HandlerOk(typ, valid) == typ # "validator" \/ valid

RECURSIVE RunFrom(_, _, _, _, _)
RunFrom(kind, valid, rrs, st, conds) ==
  IF rrs = << >> THEN [st |-> st, conds |-> conds]
  ELSE LET typ == Head(rrs)
           ok == HandlerOk(typ, valid)
       IN IF ok THEN RunFrom(kind, valid, Tail(rrs), Handle(kind, typ, st),
                             SetStatusCondition(conds, typ, TRUE))
                ELSE [st |-> Handle(kind, typ, st), conds |-> SetStatusCondition(conds, typ, FALSE)]

RunHandlers(kind, valid, rrs, st) == RunFrom(kind, valid, rrs, st, << >>)


(***************************************************************************)
(* Reconcile up to the second Get, for the backend controller of the given *)
(* kind, whose queue is q and worker w, with handler chains rrs and drrs   *)
(* and its validator's verdict valid: an object that is not found is       *)
(* dropped; otherwise the handlers run on the object read, and the worker  *)
(* holds the status to write.                                              *)
(***************************************************************************)
HandleBackend(kind, b, q, w, rrs, drrs, valid) ==
  /\ w = Idle /\ b \in q
  /\ LET o == backend[b] IN
     IF ~o.exists
       THEN /\ q' = q \ {b}
            /\ UNCHANGED <<backend, clusters, baseRoutes, w>>
       ELSE \E res \in {RunHandlers(kind, valid,
                                         IF IsBackendDeleted(o) THEN drrs ELSE rrs,
                                         [o |-> o, clusters |-> clusters, baseRoutes |-> baseRoutes])} :
               /\ backend' = [backend EXCEPT ![b] = res.st.o]
               /\ clusters' = res.st.clusters /\ baseRoutes' = res.st.baseRoutes
               /\ w' = [obj |-> b, status |-> ReconcileBackendPhase(res.st.o, res.conds),
                        conds |-> res.conds]
               /\ q' = Requeued(q, b, o, res.st.o)
  /\ UNCHANGED <<route, matchRoutes, queueR, rw, ops>>

ReconcileBackend(b) ==
  HandleBackend("backend", b, queueB, bw, BackendReconciles, BackendDeleteReconciles, Validator(b))
  /\ UNCHANGED imageVars

ReconcileImageBackend(b) ==
  HandleBackend("image", b, queueI, iw, ImageBackendReconciles, ImageBackendDeleteReconciles,
                ImageValidator(b))
  /\ UNCHANGED <<queueB, bw>>

\* statusEqual: the same conditions and the same phase.
StatusEqual(o, w) == o.conds = w.conds /\ o.status = w.status

\* The rest of Reconcile: the second Get (not found: return), statusEqual
\* against the object read now, Status().Update (a watch event), and
\* RequeueAfter 30 s for a Failed phase.
WriteStatus(q, w) ==
  /\ w # Idle
  /\ LET b == w.obj
         changed == backend[b].exists /\ ~StatusEqual(backend[b], w)
         requeue == changed \/ (backend[b].exists /\ w.status = "Failed")
     IN /\ backend' = IF changed THEN [backend EXCEPT ![b].status = w.status,
                                                      ![b].conds = w.conds]
                                 ELSE backend
        /\ q' = IF requeue THEN q \cup {b} ELSE q
  /\ w' = Idle
  /\ UNCHANGED <<route, clusters, baseRoutes, matchRoutes, queueR, rw, ops>>

WriteBackendStatus == WriteStatus(queueB, bw) /\ UNCHANGED imageVars

WriteImageBackendStatus == WriteStatus(queueI, iw) /\ UNCHANGED <<queueB, bw>>

-----------------------------------------------------------------------------
(* The ModelRoute reconciler's actions *)

\* Reconcile of a ModelRoute up to the second Get.
ReconcileRoute(r) ==
  /\ rw = Idle /\ r \in queueR
  /\ LET o == route[r] IN
     IF ~o.exists
       THEN /\ queueR' = queueR \ {r}
            /\ UNCHANGED <<route, matchRoutes, rw>>
       ELSE \E res \in {RunHandlers("route", RouteValidator(r),
                                         IF IsModelRouteDeleted(o) THEN RouteDeleteReconciles
                                                                  ELSE RouteReconciles,
                                         [o |-> o, mr |-> matchRoutes])} :
               /\ route' = [route EXCEPT ![r] = [res.st.o EXCEPT !.tstatus = o.tstatus]]
               /\ matchRoutes' = res.st.mr
               /\ rw' = [obj |-> r, status |-> RoutePhase(res.st.o, res.conds),
                         tstatus |-> res.st.o.tstatus, conds |-> res.conds]
               /\ queueR' = Requeued(queueR, r, o, res.st.o)
  /\ UNCHANGED <<backend, clusters, baseRoutes, queueB, bw, ops, imageVars>>

\* routeStatusEqual: statusEqual and the same targets' status.
RouteStatusEqual(o, w) == StatusEqual(o, w) /\ o.tstatus = w.tstatus

WriteRouteStatus ==
  /\ rw # Idle
  /\ LET r == rw.obj
         changed == route[r].exists /\ ~RouteStatusEqual(route[r], rw)
         requeue == changed \/ (route[r].exists /\ rw.status = "Failed")
     IN /\ route' = IF changed THEN [route EXCEPT ![r].status = rw.status,
                                       ![r].tstatus = rw.tstatus, ![r].conds = rw.conds]
                               ELSE route
        /\ queueR' = IF requeue THEN queueR \cup {r} ELSE queueR
  /\ rw' = Idle
  /\ UNCHANGED <<backend, clusters, baseRoutes, matchRoutes, queueB, bw, ops, imageVars>>

Next ==
  \/ \E b \in Backends, m \in Models, v \in BOOLEAN : CreateBackend(b, m, v) \/ EditBackend(b, m, v)
  \/ \E b \in Backends : DeleteBackend(b)
  \/ \E b \in LLMBackends : ReconcileBackend(b)
  \/ \E b \in ImageBackends : ReconcileImageBackend(b)
  \/ \E r \in Routes, m \in Models, t \in Backends, v \in BOOLEAN : CreateRoute(r, m, t, v)
  \/ \E r \in Routes : DeleteRoute(r) \/ ReconcileRoute(r)
  \/ WriteBackendStatus \/ WriteImageBackendStatus \/ WriteRouteStatus

\* Each controller's worker keeps taking queued objects.  The work queue
\* is FIFO and a Failed object returns only after 30 s, so an object that
\* stays queued is taken eventually even though the worker is busy with
\* others in between: strong fairness per object.  The status write
\* follows the handlers in the same call.  Users are not obliged to act.
Fairness ==
  /\ \A b \in LLMBackends : SF_vars(ReconcileBackend(b))
  /\ \A b \in ImageBackends : SF_vars(ReconcileImageBackend(b))
  /\ \A r \in Routes : SF_vars(ReconcileRoute(r))
  /\ WF_vars(WriteBackendStatus) /\ WF_vars(WriteImageBackendStatus)
  /\ WF_vars(WriteRouteStatus)

Spec == Init /\ [][Next]_vars /\ Fairness

-----------------------------------------------------------------------------
(* Properties *)

\* Deleting an object always completes: the reconciler unregisters it and
\* removes its finalizer, so an object with a deletionTimestamp is
\* eventually gone, whatever users do to other objects meanwhile.
DeletionCompletes ==
  /\ \A b \in Backends : (backend[b].exists /\ backend[b].deleting) ~> ~backend[b].exists
  /\ \A r \in Routes : (route[r].exists /\ route[r].deleting) ~> ~route[r].exists

\* A backend whose spec does not validate is eventually reported Failed
\* (or its spec changes), even when the status computed by one reconcile
\* is written after the user edited the object again.
InvalidReportedFailed ==
  \A b \in Backends :
    (Live(backend[b]) /\ ~backend[b].valid)
      ~> (~(Live(backend[b]) /\ ~backend[b].valid) \/ backend[b].status = "Failed")

\* A backend that passes validation (valid and unique) is eventually
\* served: its model name is a registered cluster, for as long as it stays
\* so.  This is what the reconcile loop exists for.
BackendServable(b, m) ==
  /\ Live(backend[b]) /\ backend[b].model = m
  /\ IF b \in ImageBackends THEN ImageValidator(b) ELSE Validator(b)
\* The model names the declared objects call for: those of backends that
\* pass validation, and those of every backend that still exists.
ServedModels == {backend[b].model : b \in {b \in Backends : BackendServable(b, backend[b].model)}}
LiveModels == {backend[b].model : b \in {b \in Backends : Live(backend[b])}}

\* Once users stop editing, the registries settle on what the objects
\* declare and stay there: every backend that passes validation is a
\* registered cluster, and every registered cluster and every target of a
\* match route belongs to an existing backend of that model name.  This is
\* the reconciler's contract (move the cluster state towards the declared
\* objects); it is broken by a deletion of a rejected duplicate, by a
\* rename, and by a target backend that goes away under a route nobody
\* reconciles again.
RegistryFollowsObjects ==
  <>[] /\ ServedModels \subseteq clusters
       /\ clusters \subseteq LiveModels
       /\ \A n \in DOMAIN matchRoutes : matchRoutes[n] \subseteq LiveModels

=============================================================================
