--------------------------- MODULE MCScanDeadline ---------------------------
(* Three scans of two installations: two queue behind each other, the third *)
(* competes with them for the slots.                                        *)
EXTENDS ScanDeadline, TLC

CONSTANTS s1, s2, s3, i1, i2

MCScan == {s1, s2, s3}
MCKey == {i1, i2}
\* The competing scan runs with a grace of zero: its slot may leak before its
\* deadline fires.
MCZeroGrace == {s3}
MCKeyOf == (s1 :> i1) @@ (s2 :> i1) @@ (s3 :> i2)

=============================================================================
