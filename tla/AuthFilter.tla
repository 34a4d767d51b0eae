----------------------------- MODULE AuthFilter -----------------------------
(***************************************************************************)
(* The API-key auth filter's request hook OnRequestPre (pkg/filters/auth): *)
(* read the bearer token, call AuthService.APIKeyAuth over the filter's    *)
(* gRPC connection, and map the call's status code to the error the        *)
(* request is answered with.  A verdict is "ok" or the name of that error; *)
(* "rpc_error" is a gRPC error passed on as it is (an internal error). The *)
(* header is abstracted to the three facts BearerMarshal tests, the reply  *)
(* to its status code and IsValid.                                         *)
(*                                                                         *)
(* The per-type request hooks OnCompletionRequest and                      *)
(* OnImageGenerationsRequest check the request's model against the deny    *)
(* and allow globs of the stored auth reply.  A model name is a sequence   *)
(* of its "/"-separated segments and a glob a sequence of segment          *)
(* patterns ("*", "**" or a literal segment), or Malformed, a pattern      *)
(* doublestar.Match rejects with ErrBadPattern; globs inside a segment     *)
(* ("gpt-*") are left out.                                                 *)
(***************************************************************************)
EXTENDS Naturals, Sequences

CONSTANT Malformed  \* model value: a glob with a syntax error

\* The gRPC status codes APIKeyAuth may end with; "NotStatus" is an error
\* status.FromError does not recognise.
RpcCodes == {"OK", "NotFound", "Unauthenticated", "PermissionDenied",
             "Unavailable", "DeadlineExceeded", "Canceled", "NotStatus"}

Headers == [auth : BOOLEAN, bearer : BOOLEAN, token : BOOLEAN]
Replies == [code : RpcCodes, isValid : BOOLEAN]

\* What a call on a closed connection (ErrClientConnClosing) or under a
\* cancelled context returns.
CanceledReply == [code |-> "Canceled", isValid |-> FALSE]

\* BearerMarshal: an Authorization header, with the "Bearer " prefix,
\* followed by a non-empty token.
BearerMarshal(h) == h.auth /\ h.bearer /\ h.token

\* The switch on the status code of a failed APIKeyAuth.
RpcError(code) ==
  CASE code \in {"NotFound", "Unauthenticated", "PermissionDenied"} -> "incorrect_api_key"
    [] code = "Unavailable" -> "service_unavailable"
    [] OTHER -> "rpc_error"

\* OnRequestPre: missing key, RPC failure, or a reply whose key is not valid.
OnRequestPre(h, rep) ==
  IF ~BearerMarshal(h) THEN "missing_api_key"
  ELSE IF rep.code # "OK" THEN RpcError(rep.code)
  ELSE IF ~rep.isValid THEN "incorrect_api_key"
  ELSE "ok"

-----------------------------------------------------------------------------
(* The model-access check *)

\* doublestar.Match on "/"-separated names: "*" is one segment, "**" any
\* number of them (none included), a literal segment only itself.
RECURSIVE GlobMatch(_, _)
GlobMatch(p, n) ==
  CASE p = << >>       -> n = << >>
    [] Head(p) = "**"  -> \/ GlobMatch(Tail(p), n)
                          \/ n # << >> /\ GlobMatch(p, Tail(n))
    [] OTHER           -> /\ n # << >>
                          /\ Head(p) \in {"*", Head(n)}
                          /\ GlobMatch(Tail(p), Tail(n))

\* The lo.SomeBy callback: a match error counts as no match.
RuleMatches(rule, model) == rule # Malformed /\ GlobMatch(rule, model)

\* IsDenied: no deny rules deny nothing; otherwise some rule matches.
IsDenied(model, denyModels) ==
  denyModels # << >> /\ \E i \in DOMAIN denyModels : RuleMatches(denyModels[i], model)

\* IsGranted: no allow rules grant every model (the API's definition).
IsGranted(model, allowModels) ==
  allowModels = << >> \/ \E i \in DOMAIN allowModels : RuleMatches(allowModels[i], model)

CanAccessModelFromValues(isDenied, isGranted) == ~isDenied /\ isGranted

CanAccessModel(model, allowModels, denyModels) ==
  CanAccessModelFromValues(IsDenied(model, denyModels), IsGranted(model, allowModels))

\* An auth reply stored in the request metadata by OnRequestPre is a
\* record [allow, deny] of glob sequences; NoAuthInfo stands for none.
NoAuthInfo == [allow |-> << >>, deny |-> << >>, none |-> TRUE]

\* OnCompletionRequest: the verdict a chat request gets from the filter.
OnCompletionRequest(authInfo, model) ==
  LET denied == IsDenied(model, authInfo.deny)
      granted == IsGranted(model, authInfo.allow)
  IN CASE authInfo = NoAuthInfo -> "internal_error"
       [] model = << >> -> "missing_model"
       [] ~CanAccessModelFromValues(denied, granted) /\ denied -> "model_access_denied"
       [] ~CanAccessModelFromValues(denied, granted) /\ ~granted -> "model_not_found"
       [] OTHER -> "ok"

\* OnImageGenerationsRequest runs the same check on image requests.
OnImageGenerationsRequest(authInfo, model) == OnCompletionRequest(authInfo, model)

=============================================================================
