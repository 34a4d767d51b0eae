--------------------------- MODULE MCRateLimiter ---------------------------
(* Model-checking instances of RateLimiter: three keys in one shard that   *)
(* holds two buckets, a two-second window, half-second ticks.              *)
EXTENDS RateLimiter

CONSTANTS k1, k2, k3

MCKeys == {k1, k2, k3}
\* Calls half a second or a second apart, or after a pause longer than a
\* bucket's TTL (5 minutes), so buckets expire and are re-created.
MCDelays == {1, 2, TTL + 1}
\* Room for two such pauses and a few short steps.
MCMaxTime == 2 * (TTL + 1) + 4
\* Calls per behaviour: a key's creation, drain and a few polls.
MCMaxCalls == 6

=============================================================================
