\* Route with a fallback block and max_retries: 2, weighted round-robin.
CONSTANTS
  r1 = r1
  r2 = r2
  c1 = c1
  c2 = c2
  NoValue = NoValue
  Requests <- MCRequests
  Clusters <- MCClusters
  Targets <- MCTargets
  Policy = "WEIGHTED_ROUND_ROBIN"
  HasFallback = TRUE
  MaxRetries <- MCMaxRetriesSet
  MaxAttempts <- MCMaxAttempts
SPECIFICATION Spec
PROPERTIES
  FallbackPolicySpec
