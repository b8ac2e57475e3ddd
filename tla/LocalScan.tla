-------------------------------- MODULE LocalScan --------------------------------
(***************************************************************************)
(* The command line scan (cli/scan.ts, file-walker.ts, report-builder.ts,  *)
(* finding-merge.ts), and the two ways of scanning put together: a process *)
(* is a server of pull request scans or one command line scan.             *)
(***************************************************************************)
EXTENDS ScanWork

VARIABLE
  guarded     \* history: the guards that the command line's files were judged
              \* with, as pairs <<file, layout>>

vars == <<scanVars, guarded>>

Init == ScanInit /\ guarded = {}

(* The order of the registry, in which the command line runs the detectors. *)
Order == <<"auth", "secrets", "webhook", "env", "admin", "idor">>

ServerRuns == \E s \in Scan : work[s] # Idle

(* walkFiles: what lies below a directory that is skipped, ignored or       *)
(* unreadable is not listed; nor is anything when the root does not exist.  *)
Walked(tree) == {Picked(tree, S) : S \in SUBSET DOMAIN tree}

Exited(code, banner, findings, gaps) ==
  [stage |-> "exited", code |-> code, banner |-> banner, findings |-> findings, gaps |-> gaps]

(* main, before the first file: a missing argument or key ends it with 1,   *)
(* no file to scan or a refusal at the prompt with 0 and no report.         *)
CliStart ==
  /\ cli = Idle /\ ~ServerRuns
  /\ \/ cli' = Exited(1, "no report", {}, {})
     \/ \E tree \in Trees : \E files \in Walked(tree) :
          \/ cli' = Exited(0, "no report", {}, {})
          \/ /\ files # <<>>
             /\ cli' = [stage |-> "scanning", files |-> files, at |-> 1, opened |-> FALSE,
                        mark |-> failures, fileMark |-> failures, answers |-> <<>>,
                        thrown |-> {}, lost |-> {}, gaps |-> {}]
  /\ UNCHANGED <<config, failures, serverVars, guarded>>

CliContent(k) == ContentOf[cli.files[k]]["whole"]
CliReading(d, k) == Readings[d][cli.files[k]]["whole"][config]

(* The detectors that still have a call to make about the current file.     *)
CliUnasked ==
  {n \in DOMAIN Order :
     /\ <<Order[n], cli.at>> \notin DOMAIN cli.answers
     /\ <<Order[n], cli.at>> \notin cli.thrown
     /\ CliReading(Order[n], cli.at).asked # {}}

(* A file is read and its route's guards are resolved; a layout that cannot *)
(* be read is passed over, and the file is judged without it.               *)
CliOpen ==
  /\ cli.stage = "scanning" /\ cli.at <= Len(cli.files) /\ ~cli.opened
  /\ cli' = [cli EXCEPT !.opened = TRUE, !.fileMark = failures]
  /\ LET file == cli.files[cli.at]
         route == Facts[file].route
     IN \E unreadable \in SUBSET OnDisk(route) :
          guarded' = guarded \cup {<<file, g>> : g \in GuardsOnDisk(route, unreadable)}
  /\ UNCHANGED <<config, failures, serverVars>>

(* Reading a file, or making a diff of it, may fail: the file is then not   *)
(* analysed, and the scan goes on.                                          *)
CliLose ==
  /\ cli.stage = "scanning" /\ cli.at <= Len(cli.files) /\ ~cli.opened
  /\ cli' = [cli EXCEPT !.lost = @ \cup {cli.at}, !.gaps = @ \cup {cli.at}, !.at = @ + 1]
  /\ UNCHANGED <<config, failures, serverVars, guarded>>

CliJudge ==
  /\ cli.stage = "scanning" /\ cli.opened /\ CliUnasked # {}
  /\ \E d \in {Order[n] : n \in {k \in CliUnasked : \A m \in CliUnasked : k <= m}} :
        \/ \E a \in Answers[d][cli.files[cli.at]]["whole"][config] :
             /\ cli' = [cli EXCEPT !.answers =
                  [x \in DOMAIN @ \cup {<<d, cli.at>>} |-> IF x = <<d, cli.at>> THEN a ELSE @[x]]]
             /\ failures' = Tally(failures, a.reply)
        \/ /\ cli' = [cli EXCEPT !.thrown = @ \cup {<<d, cli.at>>}]
           /\ UNCHANGED failures
  /\ UNCHANGED <<config, serverVars, guarded>>

(* The file is closed; it has a gap when a call about it failed since it    *)
(* was opened, or a detector threw.                                         *)
CliClose ==
  /\ cli.stage = "scanning" /\ cli.opened /\ CliUnasked = {}
  /\ cli' = [cli EXCEPT
       !.gaps = IF failures > cli.fileMark \/ (\E d \in DetectorIds : <<d, cli.at>> \in cli.thrown)
                THEN @ \cup {cli.at} ELSE @,
       !.at = @ + 1, !.opened = FALSE]
  /\ UNCHANGED <<config, failures, serverVars, guarded>>

(* countCoverageDegradations and the banner at the report's head.           *)
Degradations == (failures - cli.mark) + Cardinality(cli.lost) + Cardinality(cli.thrown)

Banner ==
  IF Degradations = 0 THEN "none"
  ELSE IF \/ cli.lost = DOMAIN cli.files
          \/ /\ failures > cli.mark
             /\ \A dk \in DOMAIN cli.answers : ~cli.answers[dk].reply.ok
       THEN "blind" ELSE "degraded"

(* What the detectors found; one that threw on a file found nothing in it.  *)
CliFindings ==
  UNION {Findings(dk[1], cli.files[dk[2]], CliContent(dk[2]), CliReading(dk[1], dk[2]),
                  IF dk \in DOMAIN cli.answers THEN cli.answers[dk] ELSE NoAnswer) :
           dk \in (DetectorIds \X (DOMAIN cli.files \ cli.lost)) \ cli.thrown}

(* The report is written and the exit code says whether the coverage was    *)
(* full; an error of the writing ends the process with 1.                   *)
CliReport ==
  /\ cli.stage = "scanning" /\ cli.at > Len(cli.files)
  /\ \/ cli' = Exited(IF Degradations > 0 THEN 2 ELSE 0, Banner, CliFindings, cli.gaps)
     \/ cli' = Exited(1, "no report", {}, {})
  /\ UNCHANGED <<config, failures, serverVars, guarded>>

-----------------------------------------------------------------------------
Server ==
  /\ cli = Idle
  /\ \E s \in Scan : Begin(s) \/ Judge(s) \/ Throw(s) \/ Finish(s) \/ TimeOut(s)
  /\ UNCHANGED guarded
CommandLine == CliStart \/ CliOpen \/ CliLose \/ CliJudge \/ CliClose \/ CliReport

Next == Server \/ CommandLine

Spec == Init /\ [][Next]_vars

-----------------------------------------------------------------------------
(* Every variable has its shape; a finding is a fix or pre-existing, never  *)
(* both, and only a result with errors or findings is not "no_action".      *)
FindingSet == SUBSET [det : DetectorIds, file : File, line : Nat, conf : {"medium", "high"}]

TypeOK ==
  /\ config \in Configs /\ failures \in Nat
  /\ \A s \in Scan :
       /\ work[s].stage \in {"idle", "detecting", "done"}
       /\ report[s] = NoReport
          \/ /\ report[s].status \in {"no_action", "success", "partial_success", "failed"}
             /\ report[s].fixes \in FindingSet /\ report[s].pre \in FindingSet
             /\ report[s].fixes \cap report[s].pre = {}
  /\ cli.stage \in {"idle", "scanning", "exited"}
  /\ cli.stage = "exited" => cli.code \in {0, 1, 2} /\ cli.findings \in FindingSet

(* Every call the detectors had to make was answered.                      *)
JudgedInFull(w) ==
  \A d \in DetectorIds, k \in Parts(w.files) :
    ReadingIn(w, d, k).asked # {} =>
      <<d, k>> \in DOMAIN w.answers /\ w.answers[<<d, k>>].reply.ok

(* A file too large to be scanned whole, from which the request only takes  *)
(* lines, is dropped: the scan reads nothing of it, and says so nowhere.    *)
Dropped(w) ==
  {k \in Parts(w.files) : w.fetched[k] = "oversized" /\ ~HasAddedLines(Facts[w.files[k]].hunk)}

(* Something was read; and every file was that was not dropped, whole or,   *)
(* when it is too large, in the lines that the request adds; and every      *)
(* route's guards are those that its directories give it.                   *)
ReadInFull(w) ==
  /\ Parts(w.files) \ Dropped(w) # {}
  /\ \A k \in Parts(w.files) \ Dropped(w) :
       \/ w.fetched[k] = "whole"
       \/ w.fetched[k] = "oversized" /\ HasAddedLines(Facts[w.files[k]].hunk)
  /\ \A k \in Parts(w.files) :
       GuardsFetched(RouteOf(w, k), w.faults) = GuardsOnDisk(RouteOf(w, k), {})

(* A result, or an exit code of 0 with a report, that reads as clean.       *)
ResultIsJudged(s) ==
  report[s] = NoReport /\ report'[s] # NoReport =>
    LET r == report'[s] IN
      /\ CommentIsClean(r) \/ RowStatus(r) = "completed" =>
           JudgedInFull(work[s]) /\ ReadInFull(work[s])
      /\ r.fixes # {} /\ SarifSuccessful(r) => JudgedInFull(work[s])

ExitIsJudged ==
  cli.stage = "scanning" /\ cli'.stage = "exited" /\ cli'.code = 0 =>
    /\ cli.lost = {}
    /\ \A d \in DetectorIds, k \in DOMAIN cli.files :
         CliReading(d, k).asked # {} =>
           <<d, k>> \in DOMAIN cli.answers /\ cli.answers[<<d, k>>].reply.ok
    /\ \A x \in guarded : x[2] \in GuardsOnDisk(Facts[x[1]].route, {})

(* Whatever other scans of the process do meanwhile, a result reads as      *)
(* clean - a comment with neither finding nor error, a row "completed", a   *)
(* SARIF log whose execution was successful, an exit code of 0 with a       *)
(* report - only when every call its detectors had to make came back        *)
(* answered and no detector threw.  Of the files: a comment or a row that   *)
(* reads as clean had them all read, and every route judged with the guards *)
(* that its directories give it, but for a file that is too large and only  *)
(* loses lines, which is dropped unread; the SARIF log does not know of it; *)
(* and an exit code of 0 had them all read, but does not promise that every *)
(* guard was, since one that cannot be read is passed over in silence.  It  *)
(* is passed over, and not replaced: no route was cleared by a layout that  *)
(* does not guard it.                                                       *)
CleanMeansJudged == [][(\A s \in Scan : ResultIsJudged(s)) /\ ExitIsJudged]_vars

(* A verdict of the detector's own lane.                                    *)
OwnLane(d, reading, v) ==
  CASE d = "idor" -> v.auth # "no" /\ ~v.admin
    [] d = "auth" -> ~(reading.isRoute /\ v.auth = "yes" /\ v.admin)
    [] OTHER -> TRUE

(* The findings that must follow from an answer.                            *)
Owed(d, file, c, reading, a) ==
  {Finding(d, file, c[IF a.reply.verdict[i].route = 0 THEN i ELSE a.reply.verdict[i].route].line,
           IF "high" = a.reply.verdict[i].conf \/ a.opinion[i] = "promote_to_high"
           THEN "high" ELSE "medium") :
     i \in {j \in DOMAIN a.reply.verdict :
              /\ a.reply.verdict[j].conf \in {"medium", "high"}
              /\ a.opinion[j] # "clear"
              /\ OwnLane(d, reading, a.reply.verdict[j])}}

(* What was owed is in the result, or in the command line's report.         *)
VerdictsAreKept(s) ==
  report[s] = NoReport /\ report'[s] # NoReport /\ report'[s].reached =>
    LET w == work[s] IN
    \A dk \in DOMAIN w.answers : dk[1] \notin w.thrown =>
      \A x \in Owed(dk[1], w.files[dk[2]], Content(w, dk[2]),
                    ReadingIn(w, dk[1], dk[2]), w.answers[dk]) :
        Passes(x, w.settings, DetectorIds) =>
          \/ x \in report'[s].fixes
          \/ x \in report'[s].pre /\ x.line \notin ChangedIn(w, x.file)

VerdictsAreReported ==
  cli.stage = "scanning" /\ cli'.stage = "exited" /\ cli'.banner # "no report" =>
    \A dk \in DOMAIN cli.answers :
      Owed(dk[1], cli.files[dk[2]], CliContent(dk[2]), CliReading(dk[1], dk[2]),
           cli.answers[dk]) \subseteq cli'.findings

(* What a detector was told of its own lane at high confidence, or at       *)
(* medium without a second opinion that plainly cleared it, is reported: it *)
(* is a finding unless the organisation filters it, high if it was judged   *)
(* or promoted so, and to be fixed, not folded away as pre-existing, when   *)
(* its line is one the pull request touches.  On the command line it is in  *)
(* the report.                                                              *)
VerdictsAreAccountedFor ==
  [][(\A s \in Scan : VerdictsAreKept(s)) /\ VerdictsAreReported]_vars

-----------------------------------------------------------------------------
(* What makes them hold: the conjuncts of the inductive invariant that the  *)
(* proofs of the module LocalScanProofs use.                                *)

(* A scan in work has asked only about its own files and is told only what  *)
(* a detector can be told; of its failed calls the tally has counted each   *)
(* since it took its mark.                                                  *)
InWork(w) ==
  w = [stage |-> "detecting", files |-> w.files, fetched |-> w.fetched, faults |-> w.faults,
       settings |-> w.settings, mark |-> w.mark, answers |-> w.answers, thrown |-> w.thrown]

Answered(w) ==
  /\ w.files \in Seq(File) /\ w.fetched \in [Parts(w.files) -> Fetches]
  /\ w.thrown \subseteq DetectorIds
  /\ DOMAIN w.answers \subseteq DetectorIds \X Parts(w.files)
  /\ \A dk \in DOMAIN w.answers :
       w.answers[dk] \in Answers[dk[1]][w.files[dk[2]]][w.fetched[dk[2]]][config]

FailuresCounted(w) ==
  /\ w.mark \in Nat /\ w.mark <= failures
  /\ \A dk \in DOMAIN w.answers : ~w.answers[dk].reply.ok => failures > w.mark

WorkOK ==
  /\ DOMAIN work = Scan
  /\ \A s \in Scan : \/ work[s] \in {Idle, [stage |-> "done"]}
                     \/ InWork(work[s]) /\ Answered(work[s]) /\ FailuresCounted(work[s])

CliInWork ==
  cli = [stage |-> "scanning", files |-> cli.files, at |-> cli.at, opened |-> cli.opened,
         mark |-> cli.mark, fileMark |-> cli.fileMark, answers |-> cli.answers,
         thrown |-> cli.thrown, lost |-> cli.lost, gaps |-> cli.gaps]

CliAnswered ==
  /\ cli.files \in Seq(File) /\ cli.at \in 1..(Len(cli.files) + 1) /\ cli.opened \in BOOLEAN
  /\ cli.opened => cli.at <= Len(cli.files)
  /\ cli.lost \subseteq 1..(cli.at - 1)
  /\ cli.thrown \subseteq DetectorIds \X (DOMAIN cli.files \ cli.lost)
  /\ DOMAIN cli.answers \subseteq (DetectorIds \X (DOMAIN cli.files \ cli.lost)) \ cli.thrown
  /\ \A dk \in DOMAIN cli.answers :
       cli.answers[dk] \in Answers[dk[1]][cli.files[dk[2]]]["whole"][config]

(* No file is left behind with a call still to make.                        *)
CliNoneSkipped ==
  \A d \in DetectorIds : \A k \in (1..(cli.at - 1)) \ cli.lost :
    CliReading(d, k).asked # {} => <<d, k>> \in DOMAIN cli.answers \/ <<d, k>> \in cli.thrown

(* What a file was answered lies at or before the file that is open.        *)
CliInOrder ==
  \A dk \in DOMAIN cli.answers \cup cli.thrown : dk[2] < cli.at \/ (cli.opened /\ dk[2] = cli.at)

CliOK ==
  \/ cli = Idle
  \/ cli.stage = "exited" /\ cli = Exited(cli.code, cli.banner, cli.findings, cli.gaps)
  \/ CliInWork /\ CliAnswered /\ CliNoneSkipped /\ CliInOrder /\ FailuresCounted(cli)

(* A guard that cannot be read is not replaced by another layout.           *)
GuardedByItsOwn ==
  \A x \in guarded : x[2] \in GuardsOnDisk(Facts[x[1]].route, {})

Core == TypeOK /\ DOMAIN report = Scan /\ WorkOK /\ CliOK

IInv == Core /\ GuardedByItsOwn

==================================================================================
