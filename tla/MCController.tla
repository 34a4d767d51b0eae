---------------------------- MODULE MCController ----------------------------
(* Two backends and one ModelRoute over two model names.                *)
EXTENDS Controller

CONSTANTS b1, b2, r1, m1, m2

MCBackends == {b1, b2}
MCRoutes == {r1}
MCModels == {m1, m2}
\* Distinct metadata.names.
MCObjName == (b1 :> "llm-a") @@ (b2 :> "llm-b") @@ (r1 :> "route-a")
MCMaxOps == 3
=============================================================================
