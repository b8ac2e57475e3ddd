----------------------------- MODULE MCScanSpend -----------------------------
(* Two scans of one installation, in one process or in two that overlap, and *)
(* a cap that the first may exhaust.                                         *)
EXTENDS ScanSpend, TLC

CONSTANTS s1, s2, p1, p2

MCScan == {s1, s2}
MCProcess == {p1, p2}

Symmetry == Permutations(MCScan) \cup Permutations(MCProcess)

=============================================================================
