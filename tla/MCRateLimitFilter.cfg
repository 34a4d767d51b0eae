\* Three rules, four API keys, two user ids, a shard of two buckets, and a
\* route that is reconciled every 30 s because a target is Failed.
CONSTANTS
  noMatch = noMatch
  NoMatch <- noMatch
  Rules <- MixedRules
  ApiKeys <- MixedApiKeys
  Users <- MixedUsers
  Keys = {}
  Limits = {1, 2}
  WindowSec = 60
  TPS = 1
  Delays <- MCDelays
  MaxTime <- MCMaxTime
  MaxBuckets = 2
  MaxCalls = 4
  TargetFailed = TRUE
  RequeueSec = 30
  MaxRegs = 2
INIT FInit
NEXT FNext
\* States without a successor are those where the clock or call bound is reached.
CHECK_DEADLOCK FALSE
INVARIANTS
  NoMoreThanEarned
  TokensWithinCapacity
