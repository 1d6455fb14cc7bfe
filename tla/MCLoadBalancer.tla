--------------------------- MODULE MCLoadBalancer ---------------------------
EXTENDS LoadBalancer, TLC

\* The calls are interchangeable.
CallSymmetry == Permutations(Calls)
=============================================================================
