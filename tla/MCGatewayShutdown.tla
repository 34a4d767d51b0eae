-------------------------- MODULE MCGatewayShutdown --------------------------
(* Three requests, one of them a stream whose upstream never answers; a   *)
(* client with a well-formed bearer token, which the auth service finds   *)
(* valid or cannot be reached for.                                         *)
EXTENDS GatewayShutdown

CONSTANTS r1, r2, r3

MCRequests == {r1, r2, r3}
MCHung == {r3}
MCHeaders == {[auth |-> TRUE, bearer |-> TRUE, token |-> TRUE]}
MCReplies == {[code |-> "OK", isValid |-> TRUE], [code |-> "Unavailable", isValid |-> FALSE]}
=============================================================================
