---------------------------- MODULE ClusterCall ----------------------------
(***************************************************************************)
(* One call of a chat-completion or image-generation cluster:              *)
(* clusterDefault.DoUpstreamRequest with the OpenAI request and response   *)
(* handlers, then the cluster manager's HandleRequest, which turns a       *)
(* response carrying an error into an error.  The upstream's HTTP answer   *)
(* is abstracted to what the code tells apart: whether a response came     *)
(* back, its Content-Type, whether its status is 400 or above, the shape   *)
(* of its JSON body, whether the body has a "model" key and, for images,   *)
(* whether fetching the returned images for metering fails.  The result is *)
(* the outcome RouteFallback's loop sees.                                  *)
(***************************************************************************)

\* The JSON body's shape:
\*  plain            : a completion, no "error" and no "object":"error"
\*  errorMap         : "error" is an object (OpenAI)
\*  errorString      : "error" is a string (OpenRouter)
\*  objectError      : "object":"error" with a non-empty message (vLLM)
\*  objectErrorEmpty : "object":"error" with "message":""
\*  notJSON          : the body does not parse as a JSON object
Bodies == {"plain", "errorMap", "errorString", "objectError", "objectErrorEmpty", "notJSON"}

\* An answer to a request of type request (a chat completion or an image
\* generation).  For an image generation, sizeFrom is the cluster's
\* metering policy and fetchFails says whether fetching or decoding one of
\* the returned images fails.
Answers == [request : {"chat", "image"}, reached : BOOLEAN,
            ctype : {"json", "sse", "other"}, failed : BOOLEAN, body : Bodies,
            model : BOOLEAN, sizeFrom : {"Unspecified", "Input", "Output", "Greatest"},
            fetchFails : BOOLEAN]

\* unmarshalErrorResponseFromParsedBody: whether the body yields an
\* ErrorResponse.  An "error" key always does; otherwise only a status of
\* 400 to 599 does, unless the body is a vLLM error with an empty message.
ErrorFromBody(a) ==
  \/ a.body \in {"errorMap", "errorString"}
  \/ a.failed /\ a.body \in {"plain", "objectError"}

\* NewChatCompletionResponse (processBytes): "fail" when the body does not
\* unmarshal, else a response whose Error is set or not.
ChatCompletionResponse(a) ==
  IF a.body = "notJSON" THEN "fail"
  ELSE IF ErrorFromBody(a) THEN "error" ELSE "none"

\* ImageGenerationsResponse.resolveUsage: with a metering policy sizing
\* from the output, batchResolveImages fetches and decodes every returned
\* image (a body that is not an error carries them) and any failure is an
\* error.
ResolveUsageFails(a) ==
  a.sizeFrom \in {"Output", "Greatest"} /\ a.body = "plain" /\ a.fetchFails

\* NewImageGenerationsResponse (processBytes): "fail" when the body does not
\* unmarshal or resolveUsage fails, which it does before the error check.
ImageGenerationsResponse(a) ==
  IF a.body = "notJSON" \/ ResolveUsageFails(a) THEN "fail"
  ELSE IF ErrorFromBody(a) THEN "error" ELSE "none"

\* responseHandler.UnmarshalResponseBody: for a chat completion JSON is
\* parsed and an event stream is wrapped unread (whatever the status); for
\* an image generation only JSON is parsed; any other content type is an
\* error (status >= 400 or unsupported).
UnmarshalResponseBody(a) ==
  CASE a.request = "chat" /\ a.ctype = "json"  -> ChatCompletionResponse(a)
    [] a.request = "chat" /\ a.ctype = "sse"   -> "stream"
    [] a.request = "image" /\ a.ctype = "json" -> ImageGenerationsResponse(a)
    [] OTHER                                    -> "fail"

\* responseHandler.ResponseModifier, SetModel: a chat completion without
\* an error gets a JSON-patch replace of /model, which fails when the body
\* has no "model" key; an image response's SetModel only sets the field.
ResponseModifierFails(a, resp) == a.request = "chat" /\ resp = "none" /\ ~a.model

\* DoUpstreamRequest and clustermanager.HandleRequest for an answer a,
\* filtersFail being a failure of the request modifiers or marshallers.
\* Errors that are not LLM errors become internal errors
\* (LLMErrorOrInternalError); a failed HTTP call is a bad gateway.
ClusterCall(a, filtersFail) ==
  IF filtersFail THEN "internal"
  ELSE IF ~a.reached THEN "transport"
  ELSE LET resp == UnmarshalResponseBody(a)
       IN CASE resp = "fail"                   -> "internal"
            [] ResponseModifierFails(a, resp)  -> "internal"
            [] resp = "error"                  -> "upstream"
            [] OTHER                           -> "ok"

=============================================================================
