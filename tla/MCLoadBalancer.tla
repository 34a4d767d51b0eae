-------------------------- MODULE MCLoadBalancer --------------------------
(* Model-checking instances of LoadBalancer: two concurrent callers and    *)
(* every weight vector of two or three targets with weights 0..2.          *)
EXTENDS LoadBalancer

CONSTANTS q1, q2

MCRequests == {q1, q2}

\* Weights the controller accepts: all set and >= 0 (unset weights become
\* 1, which the vectors with all weights 1 stand for).
AllWeightVectors == UNION {[1..n -> 0..2] : n \in 2..3}

\* Routes with at least one positive weight.
PositiveWeightVectors == {v \in AllWeightVectors : \E i \in DOMAIN v : v[i] > 0}

\* Enough calls for every server to be picked twice over with two targets.
MCMaxPicks == 5

=============================================================================
