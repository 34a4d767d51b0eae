--------------------------- MODULE MCStreamPipe ---------------------------
(* Model-checking instances of StreamPipe: every upstream body of up to    *)
(* MaxLines lines over a given set of line kinds.                          *)
EXTENDS StreamPipe

\* Long enough for a data line, a usage line and the line that ends the
\* stream, or for two usage lines.
MaxLines == 3

BodiesOver(K, T) == BoundedSeq(K, MaxLines) \X T

\* An upstream that follows the OpenAI streaming protocol: no error events,
\* and the body ends with [DONE] unless the connection breaks or a line
\* does not parse.
ConformantUpstreams ==
  {u \in BodiesOver({"chunk", "usage", "badusage", "bad", "other", "done"}, Terminators) :
     StopOf(u[1]) > Len(u[1]) => u[2] = "reset"}

\* Conformant upstreams whose usage lines all parse.
WellFormedUpstreams ==
  {u \in ConformantUpstreams : \A i \in DOMAIN u[1] : u[1][i] # "badusage"}

With(U, f) == {<<u[1], u[2], f>> : u \in U}

\* Conformant upstreams without the usage filter, and, with it, the ones
\* whose usage lines parse: with the filter on, a usage line that does not
\* parse makes the filter panic inside NextChunk, which ClientStreamFaithful
\* does not allow (recorded as a hazard of the project).
PipeSetups == With(ConformantUpstreams, FALSE) \cup With(WellFormedUpstreams, TRUE)

=============================================================================
