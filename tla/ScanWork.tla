-------------------------------- MODULE ScanWork --------------------------------
(***************************************************************************)
(* The work of a scan, twice: pull request scans that run side by side in  *)
(* one server (workflows/auditor-workflow.ts over the input built by       *)
(* integrations/github/whole-file-scan-input.ts), and the command line     *)
(* scan of a directory (cli/scan.ts), alone in its process.                *)
(*                                                                         *)
(* A process has one tally of failed detection calls (lib/llm-coverage.ts) *)
(* and each scan reads it as a difference.  The detectors of a pull        *)
(* request scan run at once, each over the files in order; those of the    *)
(* command line one after the other, file by file.  A step is one call's   *)
(* end with all that its detector makes of it, or one detector's throw.    *)
(***************************************************************************)
EXTENDS Detectors

CONSTANTS
  Scan,       \* the pull request scans
  File,       \* file names
  Facts,      \* what is in each: [File -> record]
  Requests,   \* the file lists a pull request may have: [Scan -> set of Seq(File)]
  Trees,      \* the directories the command line may be given: a set of Seq(File)
  Configs,    \* the deployments: records [adminLlm, secretsLlm, escalate]
  Fetched,    \* what fetching a file may bring: [Scan -> SUBSET Fetches]
  Faults,     \* the layouts whose requests may fail: [Scan -> set of sets]
  Choices     \* the filters of the scan's organisation: [Scan -> set]

ASSUME ScanWorkAssumption ==
  /\ \A f \in File : Facts[f].hunk \in Seq([sign : {"+", "-", " "}, marks : SUBSET STRING])
  /\ \A s \in Scan : Requests[s] \subseteq Seq(File)
  /\ \A s \in Scan : Fetched[s] \subseteq Fetches
  /\ Trees \subseteq Seq(File)

VARIABLES
  config,     \* the environment of the process
  failures,   \* the tally: detection calls that have failed in this process
  work,       \* each pull request scan, once it has begun
  report,     \* what the workflow returned to the handler; NoReport before
  cli         \* the command line scan

NoReport == [status |-> "none"]
Idle == [stage |-> "idle"]

serverVars == <<work, report>>
scanVars == <<config, failures, serverVars, cli>>

(* The environment switches, read once: by the constructors of admin-check  *)
(* and secrets-exposure and by escalationEnabled.                           *)
ScanInit ==
  /\ config \in Configs
  /\ failures = 0
  /\ work = [s \in Scan |-> Idle]
  /\ report = [s \in Scan |-> NoReport]
  /\ cli = Idle

(* What the detectors see of each file, however it was fetched, and each    *)
(* detector's reading of it: tables, so that TLC works them out once.       *)
ContentOf == [f \in File |-> [x \in Fetches |-> FileInput(Facts[f].hunk, x)]]
Readings ==
  [d \in DetectorIds |-> [f \in File |-> [x \in Fetches |-> [c \in Configs |->
     ReadingOf(d, Facts[f], ContentOf[f][x], c)]]]]
Changed == [f \in File |-> ChangedLines(Facts[f].hunk)]

(* Files that a diff has a part for: one deleted as a whole has none.       *)
Parts(files) ==
  {k \in DOMAIN files : ~Facts[files[k]].deleted /\ Changed[files[k]] # {}}

(* What an answer may be: a reply, and a second opinion on every medium     *)
(* verdict in it.                                                           *)
OpinionsOn(v, c) == IF v.conf = "medium" THEN Opinions(c) ELSE {"none"}

AnswersTo(d, reading, c) ==
  UNION {{[reply |-> r, opinion |-> o] :
            o \in {p \in [DOMAIN r.verdict -> Opinions(c) \cup {"none"}] :
                     \A i \in DOMAIN r.verdict : p[i] \in OpinionsOn(r.verdict[i], c)}} :
         r \in Replies(d, reading)}

Answers ==
  [d \in DetectorIds |-> [f \in File |-> [x \in Fetches |-> [c \in Configs |->
     AnswersTo(d, Readings[d][f][x][c], c)]]]]

NoAnswer == [reply |-> Failed, opinion |-> <<>>]

(* The tally at the chokepoint: only a failed detection call counts.        *)
Tally(n, reply) == IF reply.ok THEN n ELSE n + 1

-----------------------------------------------------------------------------
(* The pull request scan.                                                   *)

Content(w, k) == ContentOf[w.files[k]][w.fetched[k]]
ReadingIn(w, d, k) == Readings[d][w.files[k]][w.fetched[k]][config]

RouteOf(w, k) == Facts[w.files[k]].route

(* The calls still to be made: a detector stops at its first throw.         *)
Unasked(w) ==
  {dk \in (DetectorIds \ w.thrown) \X Parts(w.files) :
     dk \notin DOMAIN w.answers /\ ReadingIn(w, dk[1], dk[2]).asked # {}}

(* The handler fetches every file of the diff at the head, and every        *)
(* ancestor layout of its routes, before the workflow takes its mark of the *)
(* tally and looks up the organisation's filter; without it, by an error,   *)
(* nothing is filtered.                                                     *)
Begin(s) ==
  /\ work[s].stage = "idle"
  /\ \E files \in Requests[s] :
     \E fetched \in [Parts(files) -> Fetched[s]] :
     \E faults \in {x \in Faults[s] : x \subseteq UNION {Candidates(Facts[files[k]].route) : k \in Parts(files)}} :
     \E settings \in Choices[s] \cup {NoSettings} :
       work' = [work EXCEPT ![s] =
         [stage |-> "detecting", files |-> files, fetched |-> fetched,
          faults |-> faults, settings |-> settings, mark |-> failures, answers |-> <<>>, thrown |-> {}]]
  /\ UNCHANGED <<config, failures, report, cli>>

(* A detector's call about a file returns.                                  *)
Judge(s) ==
  /\ work[s].stage = "detecting"
  /\ LET left == Unasked(work[s]) IN
     \E dk \in {x \in left : \A k \in 1..(x[2] - 1) : <<x[1], k>> \notin left} :
     \E a \in Answers[dk[1]][work[s].files[dk[2]]][work[s].fetched[dk[2]]][config] :
            /\ work' = [work EXCEPT ![s].answers =
                 [x \in DOMAIN @ \cup {dk} |-> IF x = dk THEN a ELSE @[x]]]
            /\ failures' = Tally(failures, a.reply)
  /\ UNCHANGED <<config, report, cli>>

(* A detector rejects: what it had found in this scan is gone with it.      *)
Throw(s) ==
  /\ work[s].stage = "detecting"
  /\ \E dk \in Unasked(work[s]) : work' = [work EXCEPT ![s].thrown = @ \cup {dk[1]}]
  /\ UNCHANGED <<config, failures, report, cli>>

(* executeWorkflow without a single content: the empty diff is not taken    *)
(* for one, and the payload is rejected.                                    *)
NothingToScan(w) == \A k \in Parts(w.files) : Content(w, k) = <<>>

(* The findings of the detectors that did not throw, as the organisation    *)
(* wants them.                                                              *)
FindingsIn(w, d, k) ==
  Findings(d, w.files[k], Content(w, k), ReadingIn(w, d, k),
           IF <<d, k>> \in DOMAIN w.answers THEN w.answers[<<d, k>>] ELSE NoAnswer)

Kept(w) ==
  {x \in UNION {FindingsIn(w, d, k) : d \in DetectorIds \ w.thrown, k \in Parts(w.files)} :
     Passes(x, w.settings, DetectorIds)}

ChangedIn(w, file) ==
  UNION {Changed[w.files[k]] : k \in {j \in Parts(w.files) : w.files[j] = file}}

FixesOf(w, kept) == {x \in kept : Introduced(x, ChangedIn(w, x.file))}

(* The errors a result carries.  Every fix is made without a call, of low   *)
(* quality and with a warning, so that none of them fails.                  *)
ErrorsMutant(w) ==
  {e \in {"fetch", "guard", "coverage"} :
     \/ e = "fetch" /\ \E k \in Parts(w.files) : w.fetched[k] = "failed"
     \/ e = "guard" /\ \E k \in Parts(w.files) : GuardUnresolved(RouteOf(w, k), w.faults)
     \/ e = "coverage" /\ failures > w.mark}
Errors(w) ==
  {e \in {"fetch", "guard", "coverage", "detector"} :
     \/ e = "fetch" /\ \E k \in Parts(w.files) : w.fetched[k] = "failed"
     \/ e = "guard" /\ \E k \in Parts(w.files) : GuardUnresolved(RouteOf(w, k), w.faults)
     \/ e = "coverage" /\ failures > w.mark
     \/ e = "detector" /\ w.thrown # {}}

StatusMutant(fixes, errors) ==
  IF fixes = {} THEN IF errors = {} THEN "clean" ELSE "failed"
  ELSE IF errors = {} THEN "success" ELSE "partial_success"
Status(fixes, errors) ==
  IF fixes = {} THEN IF errors = {} THEN "no_action" ELSE "failed"
  ELSE IF errors = {} THEN "success" ELSE "partial_success"

Result(w) ==
  LET kept == Kept(w)
      fixes == FixesOf(w, kept)
      errors == Errors(w)
  IN IF NothingToScan(w)
     THEN [status |-> "failed", errors |-> {"payload"}, fixes |-> {}, pre |-> {}, reached |-> FALSE]
     ELSE [status |-> Status(fixes, errors), errors |-> errors,
           fixes |-> fixes, pre |-> kept \ fixes, reached |-> TRUE]

(* The workflow returns; after its own timeout it returns to nobody.        *)
Finish(s) ==
  /\ work[s].stage = "detecting" /\ Unasked(work[s]) = {}
  /\ report' = [report EXCEPT ![s] = IF @ = NoReport THEN Result(work[s]) ELSE @]
  /\ work' = [work EXCEPT ![s] = [stage |-> "done"]]
  /\ UNCHANGED <<config, failures, cli>>

(* runAuditorWorkflow's timeout: a failed result, while the detectors go on.*)
TimeOut(s) ==
  /\ work[s].stage = "detecting" /\ report[s] = NoReport /\ Unasked(work[s]) # {}
  /\ report' = [report EXCEPT ![s] = [status |-> "failed", errors |-> {"workflow"},
                                      fixes |-> {}, pre |-> {}, reached |-> FALSE]]
  /\ UNCHANGED <<config, failures, work, cli>>

(* What the three readers of a result are told.  The comment lists findings *)
(* and errors; the row of the dashboard is closed by outcomeFromWorkflow;   *)
(* the SARIF log, uploaded with findings only, has a flag.                  *)
CommentIsClean(r) == r.fixes = {} /\ r.errors = {}

RowStatus(r) ==
  IF ~r.reached THEN "failed"
  ELSE IF r.errors # {} THEN "incomplete" ELSE "completed"

SarifSuccessful(r) == r.errors \cap {"coverage", "detector"} = {}

=============================================================================
