\* Pauses longer than the TTL, so buckets expire and are re-created.
CONSTANTS
  k1 = k1
  k2 = k2
  k3 = k3
  Keys <- MCKeys
  Limits = {1}
  WindowSec = 2
  TPS = 2
  Delays <- MCDelays
  MaxTime <- MCMaxTime
  MaxBuckets = 2
  MaxCalls <- MCMaxCalls
SPECIFICATION Spec
\* States without a successor are those where the clock or call bound is reached.
CHECK_DEADLOCK FALSE
INVARIANTS
  BucketsBounded
