\* Protocol-conformant upstreams and a client that may leave mid-stream.
CONSTANTS
  Setups <- PipeSetups
  ClientMayDisconnect = TRUE
SPECIFICATION Spec
CHECK_DEADLOCK FALSE
PROPERTIES
  EventuallyCompleted
