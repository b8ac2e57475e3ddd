----------------------------- MODULE MCDelivery -----------------------------
(* Two deliveries of one pull request, or one and a restart, or fewer and    *)
(* API calls in their place.                                                *)
EXTENDS Delivery, TLC

CONSTANTS d1, d2

MCPoster == {d1, d2}

Symmetry == Permutations(MCPoster)

\* One delivery at a time posts past its deadline.
LateBound == Cardinality({d \in Delivery : del[d] = "settled" /\ post[d] \notin {"over", "off"}}) <= 1

\* On a crowded pull request the process only serves: what its end does to
\* the scans does not depend on the comments that a list reaches.
CrowdBound == crowded => server = "up"

=============================================================================
