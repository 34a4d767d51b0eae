\* Protocol-conformant upstreams, with and without the usage filter, and a
\* client that may leave at any point.
CONSTANTS
  Setups <- PipeSetups
  ClientMayDisconnect = TRUE
SPECIFICATION Spec
CHECK_DEADLOCK FALSE
INVARIANTS
  TypeOK
  ClientStreamFaithful
  AccessLogSeesUsage
  UsageReported
PROPERTIES
  CompletedWhileClientStays
