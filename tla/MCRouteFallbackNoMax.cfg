\* Route with a fallback block that leaves max_retries unset (the
\* controller accepts it); the first target only.
CONSTANTS
  r1 = r1
  r2 = r2
  c1 = c1
  c2 = c2
  NoValue = NoValue
  Requests <- MCRequests
  Clusters <- MCClusters
  Targets <- MCTargets
  Policy = "UNSPECIFIED"
  HasFallback = TRUE
  MaxRetries = NoValue
  MaxAttempts <- MCMaxAttempts
SPECIFICATION Spec
INVARIANTS
  RetriesBounded
