\* Both policies, two concurrent callers, every weight vector of two or
\* three targets with weights 0..2 and at least one positive weight.
CONSTANTS
  q1 = q1
  q2 = q2
  Requests <- MCRequests
  Policies = {"ROUND_ROBIN", "LEAST_REQUEST"}
  WeightVectors <- PositiveWeightVectors
  MaxPicks <- MCMaxPicks
SPECIFICATION Spec
\* The only states without a successor are those where MaxPicks calls
\* have been made: the bound, not the balancer.
CHECK_DEADLOCK FALSE
INVARIANTS
  TypeOK
  DrawDistribution
  WeightedShare
