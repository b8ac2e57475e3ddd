----------------------------- MODULE MCScanRuns -----------------------------
(* Two deliveries for one pull request, over up to three process starts.   *)
EXTENDS ScanRuns, TLC

CONSTANTS d1, d2, pr1

MCDelivery == {d1, d2}
\* Calls fail for one of the two deliveries: the other may come before or after.
MCFallible == {d1}
MCPullRequest == {pr1}
MCPrOf == [d \in MCDelivery |-> pr1]

\* The insert of a delivery fails in the second process only: it may serve
\* together with the first and with the third.
UnrecordedBound ==
  \A p \in Process : \A d \in Delivery : stage[p][d] = "unrecorded" => p = 2

=============================================================================
