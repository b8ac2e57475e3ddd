----------------------------- MODULE MCAccount -----------------------------
(* Two scans, two subscriptions and two settings forms, of which any few at *)
(* a time; an owner, a member and a user whose sign-in has expired.         *)
EXTENDS Account, TLC

CONSTANTS s1, s2, p1, p2, f1, f2

MCScan == {s1, s2}
MCSub == {p1, p2}
MCSession == {f1, f2}
MCCosts == {0, 4}
MCConfigured == {"indie", "team"}
MCUser ==
  {[list |-> ListOf(TRUE, TRUE, u.answer), sees |-> TRUE, account |-> FALSE,
    membership |-> u.is, active |-> TRUE] :
     u \in {[answer |-> 200, is |-> "admin"], [answer |-> 200, is |-> "member"],
            [answer |-> 401, is |-> "admin"]}}

Symmetry == Permutations(MCScan) \cup Permutations(MCSub) \cup Permutations(MCSession)

\* Beside a scan, which sees of Paddle only the row, every event is one that
\* changes the row.
ForeignBound == Mailing => \A i \in DOMAIN events : Actionable(events[i])

=============================================================================
