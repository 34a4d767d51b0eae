\* One catch-all rule on the API key and one client; the route is
\* reconciled every 30 s because a target is Failed.  The shard has room
\* for every key, so nothing is evicted.
CONSTANTS
  noMatch = noMatch
  NoMatch <- noMatch
  Rules <- AnyKeyRules
  ApiKeys <- OneApiKey
  Users <- NoUser
  Keys = {}
  Limits = {1}
  WindowSec = 60
  TPS = 1
  Delays <- MCDelays
  MaxTime <- MCMaxTime
  MaxBuckets = 4
  MaxCalls = 4
  TargetFailed = TRUE
  RequeueSec = 30
  MaxRegs = 2
INIT FInit
NEXT FNext
CHECK_DEADLOCK FALSE
INVARIANTS
  DecidesAsSpec
