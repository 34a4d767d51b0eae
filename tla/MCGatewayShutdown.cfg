\* Three requests, one hung, the code's 15 s drain wait and 60 s stop
\* timeout in 15 s ticks; the auth service answers or is unavailable.  The process ends when the stop round returns,
\* so final states are allowed.
CONSTANTS
  r1 = r1
  r2 = r2
  r3 = r3
  Malformed = Malformed
  Requests <- MCRequests
  Hung <- MCHung
  ReqHeaders <- MCHeaders
  ReqReplies <- MCReplies
  DrainWaitSec = 15
  StopTimeoutSec = 60
  TickSec = 15
SPECIFICATION Spec
CHECK_DEADLOCK FALSE
INVARIANTS
  CancelReachesAll
  StopGraceful
