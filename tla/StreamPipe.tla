---------------------------- MODULE StreamPipe ----------------------------
(***************************************************************************)
(* One streaming chat completion after the SSE headers are written:        *)
(*  - the stream response (ChatCompletionStreamResponse.NextChunk) reading *)
(*    the upstream body line by line and firing the EOF signal;            *)
(*  - the OnChunk callback the listener registers, which runs the stream   *)
(*    filters (the usage filter) inside NextChunk's deferred function;     *)
(*  - the listener's pump (pipeCompletionsStream) writing SSE events;      *)
(*  - the detached completer the cluster starts in DoUpstreamRequest,      *)
(*    which waits for the EOF signal, copies the usage into the request    *)
(*    metadata and runs the response-complete filters;                     *)
(*  - the client, which may go away at any time.                           *)
(*                                                                         *)
(* An upstream line is abstracted to its kind, and a data event to the     *)
(* index of the line it came from.                                         *)
(***************************************************************************)
EXTENDS Naturals, Sequences, SequencesExt

CONSTANTS
  Setups,               \* <<upstream lines, terminator, usage filter on>>
  ClientMayDisconnect   \* the client may close its connection mid-stream

\* Kinds of upstream lines:
\*  chunk    data: {json} without "completion_tokens":
\*  usage    data: {json} containing "completion_tokens":
\*  badusage a data line containing "completion_tokens": that is not JSON
\*  bad      a data line that is not JSON
\*  other    a line without the data: prefix (blank separator, comment)
\*  errorev  data: {"error": ...}
\*  done     data: [DONE]
LineKinds == {"chunk", "usage", "badusage", "bad", "other", "errorev", "done"}
\* How ReadBytes ends when the body has no more lines: io.EOF, or a
\* transport error (connection reset).
Terminators == {"EOF", "reset"}

ASSUME Setups \subseteq Seq(LineKinds) \X Terminators \X BOOLEAN

\* Events the client can receive besides data events (line indices).
DONE == 0       \* data: [DONE]
NULL == -1      \* data: null, the SSE form of an empty chunk
ERRJSON == -2   \* the recovered panic's JSON error body

VARIABLES
  body,            \* the upstream lines (fixed)
  term,            \* how the upstream body ends (fixed)
  usageFilterOn,   \* the listener's filters include the usage filter (fixed)
  pos,             \* lines consumed by ReadBytes
  hasErrorPrefix,  \* r.hasErrorPrefix
  usage,           \* r.Usage: index of the last parsed usage line, 0 = nil
  eofFired,        \* r.eofCancelCtx is done
  lpc,             \* listener: "pump", "finished", "failed" or "panicked"
  clientUp,        \* the client connection is open
  client,          \* the events the client has received
  reports,         \* usages reported by the usage filter, in order
  metaUsage,       \* rMeta.LLMUpstreamTokensUsage (0 = None)
  cpc              \* completer: "wait" or "done"

vars == <<body, term, usageFilterOn, pos, hasErrorPrefix, usage, eofFired, lpc, clientUp,
          client, reports, metaUsage, cpc>>

TypeOK ==
  /\ <<body, term, usageFilterOn>> \in Setups
  /\ pos \in 0..Len(body)
  /\ hasErrorPrefix \in BOOLEAN /\ eofFired \in BOOLEAN /\ clientUp \in BOOLEAN
  /\ usage \in 0..Len(body) /\ metaUsage \in 0..Len(body)
  /\ lpc \in {"pump", "finished", "failed", "panicked"}
  /\ client \in Seq({DONE, NULL, ERRJSON} \cup 1..Len(body))
  /\ reports \in Seq(1..Len(body))
  /\ cpc \in {"wait", "done"}

Init ==
  /\ \E u \in Setups : body = u[1] /\ term = u[2] /\ usageFilterOn = u[3]
  /\ pos = 0 /\ hasErrorPrefix = FALSE /\ usage = 0 /\ eofFired = FALSE
  /\ lpc = "pump" /\ clientUp = TRUE /\ client = << >>
  /\ reports = << >> /\ metaUsage = 0 /\ cpc = "wait"

-----------------------------------------------------------------------------
(* ChatCompletionStreamResponse.NextChunk, one operator per exit. *)

Empty == [kind |-> "empty", id |-> 0]

\* r.reader.ReadBytes('\n'): the next line, or the body's terminator once
\* all lines are read; after the client left, the request context is
\* cancelled and a read that has to wait on the network fails instead.
ReadResults ==
  (IF pos < Len(body) THEN {[line |-> body[pos + 1], err |-> "none"]}
                      ELSE {[line |-> "none", err |-> term]})
  \cup (IF clientUp THEN {} ELSE {[line |-> "none", err |-> "canceled"]})

\* Mutation: a failed read is counted as a consumed line.
ConsumedAlways(rd) == pos + 1

\* Lines consumed after a read: the line, if ReadBytes returned one.
Consumed(rd) == IF rd.err = "none" THEN pos + 1 ELSE pos

\* err != nil || r.hasErrorPrefix: fire the EOF signal, return an empty
\* chunk and the read error (nil when only the error prefix was seen).
ReadFailedResult(rd) == [chunk |-> Empty, err |-> rd.err, cancel |-> TRUE]

\* A line without the data: prefix, or the error event itself: buffered,
\* an empty chunk, no error.
NonDataResult == [chunk |-> Empty, err |-> "none", cancel |-> FALSE]

\* Mutation: [DONE] does not fire the EOF signal.
DoneResultNoCancel == [chunk |-> [kind |-> "done", id |-> 0], err |-> "EOF", cancel |-> FALSE]

\* data: [DONE]: isDone, fire the EOF signal, the done chunk and io.EOF.
DoneResult == [chunk |-> [kind |-> "done", id |-> 0], err |-> "EOF", cancel |-> TRUE]

\* A usage line: r.Usage is set and the usage chunk returned; when it does
\* not parse, the EOF signal fires and the chunk is the nil interface.
UsageResult(i) == [chunk |-> [kind |-> "usage", id |-> i], err |-> "none", cancel |-> FALSE]
BadUsageResult == [chunk |-> [kind |-> "nil", id |-> 0], err |-> "parse", cancel |-> TRUE]

\* Any other data line: a data chunk, or on a JSON error the EOF signal,
\* an empty chunk and the error.
DataResult(i) == [chunk |-> [kind |-> "data", id |-> i], err |-> "none", cancel |-> FALSE]
BadDataResult == [chunk |-> Empty, err |-> "parse", cancel |-> TRUE]

\* ChatCompletionStreamChunk.processBytes: json.Unmarshal of the line.
ProcessBytes(line) == line \notin {"bad", "badusage"}

\* NewUsageChatCompletionStreamChunk and NewChatCompletionStreamChunk as
\* NextChunk uses them: a line that does not parse is an error (the
\* stream's SetModel, when its model is still empty, cannot fail).
NewUsageChatCompletionStreamChunk(line, i) ==
  IF ProcessBytes(line) THEN UsageResult(i) ELSE BadUsageResult
NewChatCompletionStreamChunk(line, i) ==
  IF ProcessBytes(line) THEN DataResult(i) ELSE BadDataResult

NextChunkResult(rd) ==
  IF rd.err # "none" \/ hasErrorPrefix THEN ReadFailedResult(rd)
  ELSE CASE rd.line \in {"other", "errorev"} -> NonDataResult
         [] rd.line = "done"     -> DoneResult
         [] rd.line \in {"usage", "badusage"} ->
              NewUsageChatCompletionStreamChunk(rd.line, pos + 1)
         [] rd.line \in {"chunk", "bad"} ->
              NewChatCompletionStreamChunk(rd.line, pos + 1)

-----------------------------------------------------------------------------
(* The listener's side of one chunk. *)

\* ToServerSentEvent: [DONE] for the done chunk, the JSON body otherwise
\* (json.Marshal of an empty chunk's nil body is null).
EventOf(chunk) ==
  CASE chunk.kind = "done"  -> DONE
    [] chunk.kind = "empty" -> NULL
    [] OTHER                -> chunk.id

\* Mutation: empty chunks are written like any other.
SkipsNothing(chunk) == FALSE

\* if chunk.IsEmpty() { continue }
SkipsChunk(chunk) == chunk.kind = "empty"

\* Mutation: the listener does not record the usage.
MetaUsageUnchanged(chunk) == metaUsage

\* A usage chunk's usage is recorded in the request metadata.
MetaUsageAfter(chunk) == IF chunk.kind = "usage" THEN chunk.id ELSE metaUsage

\* Mutation: the callback reports the usage from before this chunk.
ReportsAfterStale(ch, current) ==
  IF usageFilterOn /\ ch.kind = "usage" THEN Append(reports, usage) ELSE reports

\* The usage filter's OnCompletionStreamResponse, run in NextChunk's defer:
\* on a usage chunk, usageReport sends response.GetUsage(), the stream's
\* r.Usage as it is when the deferred callbacks run.
ReportsAfter(ch, current) ==
  IF usageFilterOn /\ ch.kind = "usage" THEN Append(reports, current) ELSE reports

\* handleChunk: event.MarshalTo(writer).  Once the client is gone a write
\* either fails or lands in the response buffer and is lost.
WriteEvent(ev, failed) ==
  IF clientUp THEN /\ client' = Append(client, ev) /\ failed = FALSE
              ELSE /\ UNCHANGED client /\ failed \in BOOLEAN

\* WithRecoverWithError: the recovered panic is written as a JSON error
\* body on the response, which already carries the SSE headers and events.
RecoverWithError == IF clientUp THEN Append(client, ERRJSON) ELSE client

(***************************************************************************)
(* One iteration of the loop in pipeCompletionsStream: NextChunk (read,    *)
(* classify, fire the EOF signal, run the OnChunk callbacks in its defer), *)
(* then the listener's handling of the chunk and error it returned.  The   *)
(* usage filter's OnCompletionStreamResponse calls chunk.IsUsage(), which  *)
(* panics on the nil chunk; WithRecoverWithError then writes a JSON error  *)
(* into the already started stream.                                       *)
(***************************************************************************)
Pump ==
  /\ lpc = "pump"
  /\ \E rd \in ReadResults :
     LET res == NextChunkResult(rd)
         ch  == res.chunk
         newUsage == IF ch.kind = "usage" THEN ch.id ELSE usage
     IN
     /\ pos' = Consumed(rd)
     /\ hasErrorPrefix' = (hasErrorPrefix \/ (rd.err = "none" /\ rd.line = "errorev"))
     /\ usage' = newUsage
     /\ eofFired' = (eofFired \/ res.cancel)
     /\ IF usageFilterOn /\ ch.kind = "nil"
          THEN /\ lpc' = "panicked"
               /\ client' = RecoverWithError
               /\ UNCHANGED <<reports, metaUsage>>
          ELSE
          /\ reports' = ReportsAfter(ch, newUsage)
          /\ CASE res.err \notin {"none", "EOF"} ->
                    /\ lpc' = "failed" /\ UNCHANGED <<client, metaUsage>>
               [] res.err = "EOF" ->
                    /\ \E failed \in BOOLEAN : WriteEvent(EventOf(ch), failed)
                    /\ lpc' = "finished" /\ UNCHANGED metaUsage
               [] SkipsChunk(ch) ->
                    /\ UNCHANGED <<lpc, client, metaUsage>>
               [] OTHER ->
                    /\ metaUsage' = MetaUsageAfter(ch)
                    /\ \E failed \in BOOLEAN :
                         /\ WriteEvent(EventOf(ch), failed)
                         /\ lpc' = IF failed THEN "failed" ELSE "pump"
  /\ UNCHANGED <<body, term, usageFilterOn, clientUp, cpc>>

(***************************************************************************)
(* The goroutine DoUpstreamRequest starts for a stream: <-WaitUntilEOF(),  *)
(* copy the response's usage into the metadata, run the response-complete *)
(* filters.                                                                *)
(***************************************************************************)
Complete ==
  /\ cpc = "wait"
  /\ eofFired
  /\ metaUsage' = IF usage # 0 THEN usage ELSE metaUsage
  /\ cpc' = "done"
  /\ UNCHANGED <<body, term, usageFilterOn, pos, hasErrorPrefix, usage, eofFired, lpc,
                 clientUp, client, reports>>

\* The client closes its connection while the stream is being piped.
Disconnect ==
  /\ ClientMayDisconnect
  /\ clientUp
  /\ lpc = "pump"
  /\ clientUp' = FALSE
  /\ UNCHANGED <<body, term, usageFilterOn, pos, hasErrorPrefix, usage, eofFired, lpc,
                 client, reports, metaUsage, cpc>>

Next == Pump \/ Complete \/ Disconnect

\* The listener's goroutine and the completer goroutine are both runnable
\* whenever their step is enabled; the client is not obliged to leave.
Spec == Init /\ [][Next]_vars /\ WF_vars(Pump) /\ WF_vars(Complete)

-----------------------------------------------------------------------------
(* Properties *)

\* The events the client should see (spec: the upstream's chunks in order,
\* minus empty ones, ending in [DONE]): the data lines before the first
\* line that ends or breaks the stream, then [DONE] if that line is [DONE].
StopOf(b) ==
  LET ends == {i \in DOMAIN b : b[i] \in {"errorev", "bad", "badusage", "done"}}
  IN IF ends = {} THEN Len(b) + 1 ELSE CHOOSE i \in ends : \A j \in ends : i <= j
ExpectedOf(b) ==
  SelectSeq([i \in 1..(StopOf(b) - 1) |-> i], LAMBDA i : b[i] \in {"chunk", "usage"})
  \o (IF StopOf(b) <= Len(b) /\ b[StopOf(b)] = "done" THEN <<DONE>> ELSE << >>)
Expected == ExpectedOf(body)

\* The client only ever receives the upstream's events in the upstream's
\* order, and, when pipeCompletionsStream reached the end of the stream
\* with the client still there, all of them: nothing lost, nothing made up.
ClientStreamFaithful ==
  /\ IsPrefix(client, Expected)
  /\ (lpc = "finished" /\ clientUp) => client = Expected

\* When the listener's handler has returned after the end of the stream,
\* the metadata the access log reads already holds the stream's usage,
\* although the completer that also copies it runs asynchronously.
AccessLogSeesUsage == lpc = "finished" => metaUsage = usage

\* Once the stream is over, however it ended, the usage filter has reported
\* the usage the stream ended with: no parsed usage goes unbilled, also
\* when the client left before the end.
UsageReported ==
  (lpc # "pump" /\ usage # 0 /\ usageFilterOn)
    => reports # << >> /\ Last(reports) = usage

\* Every stream's response-complete filters eventually run (spec: invoked
\* once per logical response, for streams at EOF).
EventuallyCompleted == <>(cpc = "done")

\* As long as the client stays connected, the EOF signal fires however the
\* upstream stream ends (done, EOF, a transport error, a line that does not
\* parse), so the completer goroutine DoUpstreamRequest started finishes.
CompletedWhileClientStays == []clientUp => <>(cpc = "done")

=============================================================================
