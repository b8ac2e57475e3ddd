------------------------------- MODULE ScanInput -------------------------------
(***************************************************************************)
(* What a scan reads and how a finding's line is placed: the pull          *)
(* request's diff taken apart (analysis-engine/detectors/shared/           *)
(* diff-parser.ts, integrations/github/whole-file-scan-input.ts,           *)
(* cli/diff-builder.ts), the ancestors asked for a route's guard           *)
(* (route-guard-resolver.ts), the organisation's filter                    *)
(* (lib/org-settings-filter.ts) and the partition into introduced and      *)
(* pre-existing findings (workflows/changed-line-partition.ts).            *)
(*                                                                         *)
(* A source line is the set of the detectors' patterns that match it.  A   *)
(* pull request's part for one file is its hunk, a sequence of entries     *)
(* [sign, marks] with sign "+", "-" or " "; a file on disk is a hunk of    *)
(* added lines only.  What a detector sees is a content: a sequence of     *)
(* [line, marks], the line being the one at the pull request's head.  A    *)
(* line whose text itself begins with "++", which the parsers take for a   *)
(* file header, is not represented.                                        *)
(***************************************************************************)
EXTENDS Integers, Sequences, FiniteSets

CONSTANTS
  PreWindow, PostWindow   \* PRE_WINDOW and POST_WINDOW: 5 and 40 lines

ASSUME ScanInputAssumption == PreWindow \in Nat /\ PostWindow \in Nat

(* The line at the head that entry i of a hunk stands at or, for a removed  *)
(* line, stood before.                                                      *)
NewLine(hunk, i) == 1 + Cardinality({j \in 1..(i - 1) : hunk[j].sign # "-"})

(* The n-th of a set of positions, and a sequence cut down to such a set.   *)
Nth(S, n) == CHOOSE i \in S : Cardinality({j \in S : j <= i}) = n
Picked(seq, S) == [n \in 1..Cardinality(S) |-> seq[Nth(S, n)]]

(* The entries of a hunk that have one of the signs, with their lines.      *)
Entries(hunk, signs) ==
  LET chosen == {i \in DOMAIN hunk : hunk[i].sign \in signs}
  IN [n \in 1..Cardinality(chosen) |->
       [line |-> NewLine(hunk, Nth(chosen, n)), marks |-> hunk[Nth(chosen, n)].marks]]

(* parseDiff on GitHub's diff: the added lines alone, each with its line.   *)
ParsedDiff(hunk) == Entries(hunk, {"+"})

(* A file fetched at the head, made into a diff that adds all of it and     *)
(* parsed again: its content, line for line.                                *)
WholeFile(hunk) == Entries(hunk, {"+", " "})

(* splitDiffParts: the lines a pull request touches - those it adds and,    *)
(* for each run of removed lines, the line that took their place - and      *)
(* whether it adds any.                                                     *)
ChangedLines(hunk) ==
  {NewLine(hunk, i) : i \in {k \in DOMAIN hunk :
     \/ hunk[k].sign = "+"
     \/ hunk[k].sign = "-" /\ (k = 1 \/ hunk[k - 1].sign # "-")}}

HasAddedLines(hunk) == \E i \in DOMAIN hunk : hunk[i].sign = "+"

(* buildWholeFileScanInput, for one file: the fetch brings it, or brings    *)
(* too large a file, or fails.  Without the whole file the detectors get    *)
(* GitHub's diff, or nothing when that adds no line.                        *)
Fetches == {"whole", "oversized", "failed"}

FileInput(hunk, fetch) ==
  CASE fetch = "whole" -> WholeFile(hunk)
    [] fetch # "whole" /\ HasAddedLines(hunk) -> ParsedDiff(hunk)
    [] OTHER -> <<>>

(* A Remix route is [optOut, dirs]: whether its name opts out of its        *)
(* layout, and its directories, from its own up to routes/.  A directory is *)
(* [name, nested, layouts]: a "+" folder that does not opt out is nested,   *)
(* and of the names in LAYOUT_BASENAMES, by rank, it has those in layouts,  *)
(* the route itself apart.  No other file has directories here.             *)
NoRoute == [optOut |-> FALSE, dirs |-> <<>>]

(* candidateLayoutPaths: every name in every directory is asked for.        *)
Candidates(route) == {route.dirs[n].name : n \in DOMAIN route.dirs} \X (1..4)
OnDisk(route) ==
  UNION {{<<route.dirs[n].name, r>> : r \in route.dirs[n].layouts} : n \in DOMAIN route.dirs}

(* resolveRemixRouteGuard: of each directory the first layout that is there *)
(* - and hides the next ones, even if it cannot be read - if no directory   *)
(* on the way up to it breaks the nesting by which its loader surely runs   *)
(* for the route.                                                           *)
Covered(route, n) == ~route.optOut /\ \A m \in 1..(n - 1) : route.dirs[m].nested

Guards(route, there, readable) ==
  {g \in Candidates(route) \cap readable :
     /\ \A r \in 1..(g[2] - 1) : <<g[1], r>> \notin there
     /\ \E n \in DOMAIN route.dirs : route.dirs[n].name = g[1] /\ Covered(route, n)}

(* nodeGuardFs, on the command line: a layout that cannot be read is no     *)
(* guard, and no error.                                                     *)
GuardsOnDisk(route, unreadable) ==
  Guards(route, OnDisk(route), OnDisk(route) \ unreadable)

(* resolveRouteGuardSidecars: what was fetched stands for the directories;  *)
(* a candidate that is absent (404) is no guard and no error, and one whose *)
(* request fails otherwise is not there either, but is an error against     *)
(* every route that it was asked for.                                       *)
GuardsFetched(route, faults) ==
  Guards(route, OnDisk(route) \ faults, OnDisk(route) \ faults)
GuardUnresolved(route, faults) == Candidates(route) \cap faults # {}

(* remapFindingLines: a position in a content becomes a line of the file.   *)
LineOf(content, i) == content[i].line

(* passesOrgSettings.  Every detector reports its findings as critical, so  *)
(* the severity threshold drops none.  Without a list of detectors, or with *)
(* a list that has no id this version knows, the detectors are not          *)
(* filtered; with an empty list everything is.                              *)
NoSettings == [ignored |-> {}, listed |-> FALSE, enabled |-> {}]

Passes(finding, settings, shipping) ==
  /\ finding.file \notin settings.ignored
  /\ \/ ~settings.listed
     \/ /\ settings.enabled # {}
        /\ \/ settings.enabled \cap shipping = {}
           \/ finding.det \in settings.enabled

(* partitionFindingsByChangedLines: a finding on code that the pull request *)
(* touched, within a window around the finding, is introduced by it; so is  *)
(* a finding in a file the request says nothing of.                         *)
Introduced(finding, changed) ==
  \/ changed = {}
  \/ \E n \in changed : n >= finding.line - PreWindow /\ n <= finding.line + PostWindow

===============================================================================
