---------------------------- MODULE MCScanQueue ----------------------------
(* The scan queue on a small instance: five calls over three keys.          *)
EXTENDS ScanQueue, TLC

CONSTANTS t1, t2, t3, t4, t5, k1, k2, k3

MCTask == {t1, t2, t3, t4, t5}
MCKey == {k1, k2, k3}

\* A chain of three calls, and two keys that compete with it for the slots.
MCKeyOf == (t1 :> k1) @@ (t2 :> k1) @@ (t3 :> k1) @@ (t4 :> k2) @@ (t5 :> k3)

=============================================================================
