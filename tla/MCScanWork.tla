------------------------------ MODULE MCScanWork ------------------------------
(* Two pull request scans of one server, a long and a short one, or one      *)
(* command line scan, over files that together trigger every detector.       *)
EXTENDS LocalScan

CONSTANTS a, b

MCScan == {a, b}
MCFile == {"route", "keys", "object", "env", "gone"}

Plus(marks) == [sign |-> "+", marks |-> marks]
Same(marks) == [sign |-> " ", marks |-> marks]
Minus == [sign |-> "-", marks |-> {}]

Source(hunk) ==
  [hunk |-> hunk, supported |-> TRUE, skipped |-> FALSE, serverOnly |-> FALSE,
   python |-> FALSE, remix |-> FALSE, route |-> NoRoute, large |-> FALSE, deleted |-> FALSE]

\* routes/admin+/object.ts, with two layouts beside it and one in routes/.
MCRoute == [optOut |-> FALSE,
            dirs |-> <<[name |-> "admin+", nested |-> TRUE, layouts |-> {1, 2}],
                       [name |-> "routes", nested |-> FALSE, layouts |-> {1}]>>]

MCFacts ==
  [f \in MCFile |->
     CASE f = "route" -> Source(<<Same({"admin_literal"}), Plus({"express_route"})>>)
       [] f = "keys" -> Source(<<Same({"key", "masked"}), Same({"key"}), Plus({"webhook"})>>)
       [] f = "object" -> [Source(<<Plus({"source"}), Plus({"sink"}), Same({"sink"})>>)
                             EXCEPT !.remix = TRUE, !.route = MCRoute]
       [] f = "env" -> Source(<<Same({"env"}), Same({}), Minus, Minus>>)
       [] f = "gone" -> [Source(<<Minus>>) EXCEPT !.deleted = TRUE]]

MCRequests == [s \in MCScan |->
  IF s = a THEN {<<"gone">>, <<"route">>, <<"keys">>, <<"object", "env">>} ELSE {<<"env">>}]
MCTrees == {<<"route", "env">>, <<"keys", "object">>}
MCFetched == [s \in MCScan |-> IF s = a THEN Fetches ELSE {"whole", "oversized"}]

MCFaults == [s \in MCScan |-> {{}, {<<"admin+", 1>>}}]

MCConfigs == {[adminLlm |-> e, secretsLlm |-> e, escalate |-> e] : e \in BOOLEAN}
MCChoices == [s \in MCScan |->
  IF s = a THEN {[ignored |-> {"keys"}, listed |-> TRUE, enabled |-> {"auth", "env"}]} ELSE {}]

===============================================================================
