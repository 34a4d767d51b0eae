-------------------------- MODULE MCRouteFallback --------------------------
(* Model-checking instances of RouteFallback: two requests, two clusters.  *)
EXTENDS RouteFallback

CONSTANTS r1, r2, c1, c2

MCRequests == {r1, r2}
MCClusters == {c1, c2}
MCTargets == <<c1, c2>>

\* A route whose fallback sets max_retries: 2.
MCMaxRetriesSet == 2
\* Bound on upstream calls: one more than any promised number of retries.
MCMaxAttempts == 6

=============================================================================
