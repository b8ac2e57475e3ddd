------------------------------ MODULE ScanRuns ------------------------------
(***************************************************************************)
(* The scan_runs rows of one installation, from the delivery to the final  *)
(* state, across process deaths: acceptPullRequestDelivery, runAccepted    *)
(* and scanDelivery (src/integrations/github/pr-webhook-handler.ts), the   *)
(* store's guarded updates (src/services/scan-run-store.ts) and the sweep  *)
(* a process makes once after it starts (src/services/                     *)
(* scan-run-sweeper.ts).                                                   *)
(*                                                                         *)
(* Every action is one database or GitHub round trip, so anything may      *)
(* happen between two of them.  Processes are numbered in the order they   *)
(* start; a new one may start while the previous one still serves (a       *)
(* deploy).  One installation means one queue key, so a process's queue is *)
(* a sequence (module ScanQueue shows that it is); slots of other          *)
(* installations only delay it.  startedAt is the instant of the insert.   *)
(***************************************************************************)
EXTENDS Naturals, Sequences, FiniteSets

CONSTANTS
  Delivery,      \* pull_request deliveries, by X-GitHub-Delivery id
  PullRequest,   \* the pull requests they are about
  PrOf,          \* the pull request of each delivery
  MaxProcess,    \* bound on process starts; the last one does not die
  SweepLimit,    \* SWEEP_LIMIT
  Overlap,       \* a process may start before the previous one is gone
  Fallible,      \* deliveries whose database calls and notices may fail
  NoDelivery     \* the pull request has no Fixor comment yet

ASSUME RunsAssumption ==
  /\ IsFiniteSet(Delivery)
  /\ PrOf \in [Delivery -> PullRequest]
  /\ MaxProcess \in Nat \ {0}
  /\ SweepLimit \in Nat \ {0}
  /\ Overlap \in BOOLEAN
  /\ Fallible \subseteq Delivery
  /\ NoDelivery \notin Delivery

Process == 1..MaxProcess

VARIABLES
  clock,      \* counts what has a timestamp
  status,     \* scan_runs.status, "none" while there is no row
  startedAt,  \* scan_runs.started_at
  comment,    \* the one Fixor comment of each pull request
  mode,       \* whether a process has started, and whether it is gone
  bornAt,     \* when it started
  stage,      \* how far a process has come with a delivery
  closed,     \* run.finished was set by the deadline
  queue,      \* the scan queue of each process
  sweep,      \* where the process's sweep stands
  todo,       \* the rows it listed and has not handled yet
  scans       \* history: how often a delivery went on to be scanned

rowVars == <<status, startedAt>>
runVars == <<stage, closed, queue>>
sweepVars == <<sweep, todo>>
procVars == <<mode, bornAt>>
vars == <<clock, rowVars, comment, procVars, runVars, sweepVars, scans>>

Unfinished == {"pending", "running", "retrying"}

\* "scanned" stands for completed and incomplete, "failed" for scan_failed,
\* comment_refused, pr_fetch_refused and internal_error, "skipped" for the
\* refusals; the other three are error codes with a meaning of their own.
Outcomes == {"scanned", "skipped", "failed"}
Finals == Outcomes \cup {"timed_out", "interrupted", "superseded"}

Stages == {"none", "unrecorded", "accepted", "queued", "scanning"} \cup Outcomes

Row == [of : Delivery, status : Unfinished]

TypeOK ==
  /\ clock \in Nat
  /\ status \in [Delivery -> {"none"} \cup Unfinished \cup Finals]
  /\ startedAt \in [Delivery -> Nat]
  /\ comment \in [PullRequest -> [of : Delivery \cup {NoDelivery},
                    kind : {"none", "report", "refusal", "interrupted"}]]
  /\ mode \in [Process -> {"off", "up", "gone"}]
  /\ bornAt \in [Process -> Nat]
  /\ stage \in [Process -> [Delivery -> Stages]]
  /\ closed \in [Process -> [Delivery -> BOOLEAN]]
  /\ queue \in [Process -> Seq(Delivery)]
  /\ sweep \in [Process -> {"waiting", "next", "marking", "rerunning", "notifying"}]
  /\ todo \in [Process -> SUBSET Row]
  /\ scans \in [Delivery -> Nat]

-----------------------------------------------------------------------------
(* The store *)

Finished(d) == status[d] \in Finals

\* finish: the final state, once, and never for a delivery without a row.
FinishRow(d, final) ==
  status' = [status EXCEPT ![d] = IF @ \in Unfinished THEN final ELSE @]

\* finishOnce: an error of the write is logged and swallowed.
TryFinishRow(d, final) ==
  \/ FinishRow(d, final)
  \/ d \in Fallible /\ UNCHANGED status

\* markRunning: a retrying row keeps its status.
RunningUnguardedMutant(d) == [status EXCEPT ![d] = "running"]
RunningMutant(d) == [status EXCEPT ![d] = IF @ \in Unfinished THEN "running" ELSE @]
Running(d) == [status EXCEPT ![d] = IF @ = "pending" THEN "running" ELSE @]

\* markRetrying's condition.
MayRetry(d) == status[d] \in {"pending", "running"}

Later(e, d) == PrOf[e] = PrOf[d] /\ startedAt[e] > startedAt[d]

\* hasNewerRun: any later row of the pull request, whatever became of it.
HasNewerRunMutant(d) == \E e \in Delivery : status[e] \in Unfinished /\ Later(e, d)
HasNewerRun(d) == \E e \in Delivery : status[e] # "none" /\ Later(e, d)

\* listUnfinished: what is older than the process, the oldest rows first.
StaleAnyStatusMutant(p) == {d \in Delivery : startedAt[d] < bornAt[p]}
StaleNotPendingMutant(p) ==
  {d \in Delivery : status[d] \in {"running", "retrying"} /\ startedAt[d] < bornAt[p]}
StaleMutant(p) == {d \in Delivery : status[d] \in Unfinished}
Stale(p) == {d \in Delivery : status[d] \in Unfinished /\ startedAt[d] < bornAt[p]}

Listed(p) ==
  {d \in Stale(p) :
     Cardinality({e \in Stale(p) : startedAt[e] < startedAt[d]}) < SweepLimit}

\* SWEEP_DELAY_MS has passed, and with it the longest drain.
PredecessorsGoneMutant(p) == TRUE
PredecessorsGone(p) == \A q \in Process : q < p => mode[q] = "gone"

-----------------------------------------------------------------------------
(* The process *)

Up(p) == mode[p] = "up"

AtHead(p, d) == queue[p] # <<>> /\ Head(queue[p]) = d

\* The queued task has started: it holds the slot, or it outlived its hold.
Executing(p, d) ==
  /\ Up(p)
  /\ stage[p][d] \notin {"none", "unrecorded", "accepted"}
  /\ AtHead(p, d) \/ closed[p][d]

SetStage(p, d, to) == stage' = [stage EXCEPT ![p][d] = to]

Dequeue(p, d) ==
  queue' = [queue EXCEPT ![p] = IF AtHead(p, d) THEN Tail(@) ELSE @]

PostComment(d, kind) ==
  comment' = [comment EXCEPT ![PrOf[d]] = [of |-> d, kind |-> kind]]

-----------------------------------------------------------------------------
Init ==
  /\ clock = 0
  /\ status = [d \in Delivery |-> "none"]
  /\ startedAt = [d \in Delivery |-> 0]
  /\ comment = [r \in PullRequest |-> [of |-> NoDelivery, kind |-> "none"]]
  /\ mode = [p \in Process |-> "off"]
  /\ bornAt = [p \in Process |-> 0]
  /\ stage = [p \in Process |-> [d \in Delivery |-> "none"]]
  /\ closed = [p \in Process |-> [d \in Delivery |-> FALSE]]
  /\ queue = [p \in Process |-> <<>>]
  /\ sweep = [p \in Process |-> "waiting"]
  /\ todo = [p \in Process |-> {}]
  /\ scans = [d \in Delivery |-> 0]

StartProcess(p) ==
  /\ mode[p] = "off"
  /\ \A q \in Process : q < p => mode[q] # "off" /\ (Overlap \/ mode[q] = "gone")
  /\ mode' = [mode EXCEPT ![p] = "up"]
  /\ clock' = clock + 1
  /\ bornAt' = [bornAt EXCEPT ![p] = clock + 1]
  /\ UNCHANGED <<rowVars, comment, runVars, sweepVars, scans>>

\* A crash, or the exit at the end of a drain: what is in memory is gone.
Die(p) ==
  /\ Up(p)
  /\ p < MaxProcess
  /\ mode' = [mode EXCEPT ![p] = "gone"]
  /\ stage' = [stage EXCEPT ![p] = [d \in Delivery |-> "none"]]
  /\ closed' = [closed EXCEPT ![p] = [d \in Delivery |-> FALSE]]
  /\ queue' = [queue EXCEPT ![p] = <<>>]
  /\ sweep' = [sweep EXCEPT ![p] = "waiting"]
  /\ todo' = [todo EXCEPT ![p] = {}]
  /\ UNCHANGED <<clock, rowVars, comment, bornAt, scans>>

\* createPending inserted the row, and the delivery is acknowledged.  With a
\* row already there (a redelivery) the insert conflicts: nothing happens.
AcceptMutant(p, d) ==
  /\ Up(p)
  /\ stage[p][d] = "none"
  /\ clock' = clock + 1
  /\ status' = [status EXCEPT ![d] = "pending"]
  /\ startedAt' = [startedAt EXCEPT ![d] = clock + 1]
  /\ SetStage(p, d, "accepted")
  /\ UNCHANGED <<comment, procVars, closed, queue, sweepVars, scans>>
Accept(p, d) ==
  /\ Up(p)
  /\ stage[p][d] = "none"
  /\ status[d] = "none"
  /\ clock' = clock + 1
  /\ status' = [status EXCEPT ![d] = "pending"]
  /\ startedAt' = [startedAt EXCEPT ![d] = clock + 1]
  /\ SetStage(p, d, "accepted")
  /\ UNCHANGED <<comment, procVars, closed, queue, sweepVars, scans>>

\* The insert failed: 503, and the handler goes on to refuse the scan.  A
\* redelivery of a recorded delivery may fail the same way.
AcceptUnrecorded(p, d) ==
  /\ Up(p)
  /\ d \in Fallible
  /\ stage[p][d] = "none"
  /\ SetStage(p, d, "unrecorded")
  /\ UNCHANGED <<clock, rowVars, comment, procVars, closed, queue, sweepVars, scans>>

\* It has no row to mark or close; all it leaves is the notice, if that.
RefuseUnrecorded(p, d) ==
  /\ Up(p)
  /\ stage[p][d] = "unrecorded"
  /\ SetStage(p, d, "none")
  /\ PostComment(d, "refusal") \/ UNCHANGED comment
  /\ UNCHANGED <<clock, rowVars, procVars, closed, queue, sweepVars, scans>>

\* runAccepted calls queue.run in the continuation of the insert.
Enqueue(p, d) ==
  /\ Up(p)
  /\ stage[p][d] = "accepted"
  /\ SetStage(p, d, "queued")
  /\ queue' = [queue EXCEPT ![p] = Append(@, d)]
  /\ UNCHANGED <<clock, rowVars, comment, procVars, closed, sweepVars, scans>>

\* The budget gate, or markRunning's failure, refuses the scan: the notice
\* is posted and the row will be skipped.
Refuse(p, d) ==
  /\ Executing(p, d)
  /\ stage[p][d] = "queued"
  /\ SetStage(p, d, "skipped")
  /\ PostComment(d, "refusal")
  /\ UNCHANGED <<clock, rowVars, procVars, closed, queue, sweepVars, scans>>

\* markRunning, and the workflow starts.
Scan(p, d) ==
  /\ Executing(p, d)
  /\ stage[p][d] = "queued"
  /\ status' = Running(d)
  /\ SetStage(p, d, "scanning")
  /\ scans' = [scans EXCEPT ![d] = @ + 1]
  /\ UNCHANGED <<clock, startedAt, comment, procVars, closed, queue, sweepVars>>

Report(p, d) ==
  /\ Executing(p, d)
  /\ stage[p][d] = "scanning"
  /\ SetStage(p, d, "scanned")
  /\ PostComment(d, "report")
  /\ UNCHANGED <<clock, rowVars, procVars, closed, queue, sweepVars, scans>>

\* GitHub refused the pull request or the comment, or the scan threw.
Fail(p, d) ==
  /\ Executing(p, d)
  /\ stage[p][d] \in {"queued", "scanning"}
  /\ SetStage(p, d, "failed")
  /\ UNCHANGED <<clock, rowVars, comment, procVars, closed, queue, sweepVars, scans>>

\* The task's finally block: the row, unless the deadline closed it, and
\* then the slot.
Close(p, d) ==
  /\ Executing(p, d)
  /\ stage[p][d] \in Outcomes
  /\ IF closed[p][d] THEN UNCHANGED status ELSE TryFinishRow(d, stage[p][d])
  /\ SetStage(p, d, "none")
  /\ closed' = [closed EXCEPT ![p][d] = FALSE]
  /\ Dequeue(p, d)
  /\ UNCHANGED <<clock, startedAt, comment, procVars, sweepVars, scans>>

\* onDeadline: the row is closed and the caller answered; the work goes on.
TimeOut(p, d) ==
  /\ Executing(p, d)
  /\ ~closed[p][d]
  /\ closed' = [closed EXCEPT ![p][d] = TRUE]
  /\ TryFinishRow(d, "timed_out")
  /\ UNCHANGED <<clock, startedAt, comment, procVars, stage, queue, sweepVars, scans>>

\* The hold's bound: the slot is given up, the work still goes on.
Leak(p, d) ==
  /\ Executing(p, d)
  /\ closed[p][d]
  /\ AtHead(p, d)
  /\ Dequeue(p, d)
  /\ UNCHANGED <<clock, rowVars, comment, procVars, stage, closed, sweepVars, scans>>

-----------------------------------------------------------------------------
(* The sweep, once per process, one row after the other. *)

Current(p) ==
  CHOOSE r \in todo[p] : \A q \in todo[p] : startedAt[r.of] <= startedAt[q.of]

\* The loop goes on with the next row.
NextRow(p) ==
  /\ todo' = [todo EXCEPT ![p] = @ \ {Current(p)}]
  /\ sweep' = [sweep EXCEPT ![p] = "next"]

AtRow(p, where) == Up(p) /\ sweep[p] = where /\ todo[p] # {}

\* A listing that fails ends the sweep: it is one that waits for ever.
List(p) ==
  /\ Up(p)
  /\ sweep[p] = "waiting"
  /\ PredecessorsGone(p)
  /\ sweep' = [sweep EXCEPT ![p] = "next"]
  /\ todo' = [todo EXCEPT ![p] = {[of |-> d, status |-> status[d]] : d \in Listed(p)}]
  /\ UNCHANGED <<clock, rowVars, comment, procVars, runVars, scans>>

Supersede(p) ==
  /\ AtRow(p, "next")
  /\ HasNewerRun(Current(p).of)
  /\ FinishRow(Current(p).of, "superseded")
  /\ NextRow(p)
  /\ UNCHANGED <<clock, startedAt, comment, procVars, runVars, scans>>

\* The second attempt did not finish either: closed first, noticed after.
\* The status tested is the listed one.
GiveUp(p) ==
  /\ AtRow(p, "next")
  /\ ~HasNewerRun(Current(p).of)
  /\ Current(p).status = "retrying"
  /\ FinishRow(Current(p).of, "interrupted")
  /\ sweep' = [sweep EXCEPT ![p] = "notifying"]
  /\ UNCHANGED <<clock, startedAt, comment, procVars, runVars, todo, scans>>

Notify(p) ==
  /\ AtRow(p, "notifying")
  /\ \/ PostComment(Current(p).of, "interrupted")
     \/ Current(p).of \in Fallible /\ UNCHANGED comment
  /\ NextRow(p)
  /\ UNCHANGED <<clock, rowVars, procVars, runVars, scans>>

\* hasNewerRun answered no: the row will be re-run.
Choose(p) ==
  /\ AtRow(p, "next")
  /\ ~HasNewerRun(Current(p).of)
  /\ Current(p).status # "retrying"
  /\ sweep' = [sweep EXCEPT ![p] = "marking"]
  /\ UNCHANGED <<clock, rowVars, comment, procVars, runVars, todo, scans>>

MarkRetrying(p) ==
  /\ AtRow(p, "marking")
  /\ LET d == Current(p).of
     IN  \/ /\ MayRetry(d)
            /\ status' = [status EXCEPT ![d] = "retrying"]
            /\ SetStage(p, d, "accepted")
            /\ sweep' = [sweep EXCEPT ![p] = "rerunning"]
            /\ UNCHANGED todo
         \/ /\ ~MayRetry(d)
            /\ NextRow(p)
            /\ UNCHANGED <<status, stage>>
  /\ UNCHANGED <<clock, startedAt, comment, procVars, closed, queue, scans>>

\* rerunRecordedScanRun answered: the attempt settled, or its deadline came.
Rerun(p) ==
  /\ AtRow(p, "rerunning")
  /\ stage[p][Current(p).of] = "none" \/ closed[p][Current(p).of]
  /\ NextRow(p)
  /\ UNCHANGED <<clock, rowVars, comment, procVars, runVars, scans>>

\* A query or an update failed: the row is left for the next start.
GoOn(p) ==
  /\ AtRow(p, "next") \/ AtRow(p, "marking")
  /\ Current(p).of \in Fallible
  /\ NextRow(p)
  /\ UNCHANGED <<clock, rowVars, comment, procVars, runVars, scans>>

-----------------------------------------------------------------------------
Next ==
  \E p \in Process :
    \/ StartProcess(p) \/ Die(p)
    \/ \E d \in Delivery :
         \/ Accept(p, d) \/ AcceptUnrecorded(p, d) \/ RefuseUnrecorded(p, d)
         \/ Enqueue(p, d) \/ Refuse(p, d) \/ Scan(p, d) \/ Report(p, d)
         \/ Fail(p, d) \/ Close(p, d) \/ TimeOut(p, d) \/ Leak(p, d)
    \/ List(p) \/ Supersede(p) \/ GiveUp(p) \/ Notify(p)
    \/ Choose(p) \/ MarkRetrying(p) \/ Rerun(p) \/ GoOn(p)

\* The host starts the process again, timers fire, queued work is picked up
\* and a sweep goes on.  That a scan itself ends is not assumed.
Fairness ==
  \A p \in Process :
    /\ WF_vars(StartProcess(p))
    /\ \A d \in Delivery :
         WF_vars(Enqueue(p, d)) /\ WF_vars(TimeOut(p, d)) /\ WF_vars(Leak(p, d))
    /\ WF_vars(List(p))
    /\ WF_vars(Supersede(p)) /\ WF_vars(GiveUp(p)) /\ WF_vars(Notify(p))
    /\ WF_vars(Choose(p)) /\ WF_vars(MarkRetrying(p)) /\ WF_vars(Rerun(p))

Spec == Init /\ [][Next]_vars

FairSpec == Spec /\ Fairness

-----------------------------------------------------------------------------
(* Properties *)

\* The process is at work on the delivery, with a row to close.
Attempting(p, d) == Up(p) /\ stage[p][d] \notin {"none", "unrecorded"}

\* The attempt is one the sweep made.
Retrying(p, d) == Attempting(p, d) /\ startedAt[d] < bornAt[p]

\* "A third attempt is never made": whatever dies when, and whatever GitHub
\* redelivers, a delivery is scanned, and charged, at most twice.
AtMostTwoScans ==
  \A d \in Delivery : scans[d] <= 2

\* No two processes work on one row: the sweep never takes over a row that a
\* draining process, or its own, is still scanning.
OneAttemptAtATime ==
  \A d \in Delivery : \A p, q \in Process :
    Attempting(p, d) /\ Attempting(q, d) => p = q

\* A row's final state is final, whoever else still tries to close it: the
\* late work, the deadline, the sweep.
FinalStateIsFinal ==
  [][\A d \in Delivery : Finished(d) => status'[d] = status[d]]_vars

\* The sweep never re-runs a delivery that had a later one when the process
\* started, even if that one was refused or failed long ago.
NoRerunPastALaterRow ==
  \A p \in Process : \A d, e \in Delivery :
    (Retrying(p, d) /\ status[e] # "none" /\ Later(e, d)) => startedAt[e] > bornAt[p]

\* The interrupted notice stands only where the row says the same: it never
\* covers the report of a retry that finished after the rows were listed.
NoticeMatchesTheRow ==
  \A r \in PullRequest :
    comment[r].kind = "interrupted" => status[comment[r].of] = "interrupted"

\* The rows live as DeliveryLife promises: of all the processes that are at
\* work, at most one attempts a delivery, and the sweep says nothing of one
\* that is attempted.
AttemptAt(d) ==
  IF \E p \in Process : Attempting(p, d) /\ stage[p][d] \in {"accepted", "queued"} THEN "ready"
  ELSE IF \E p \in Process : Attempting(p, d) THEN "working"
  ELSE "none"

Life == INSTANCE DeliveryLife WITH attempt <- [d \in Delivery |-> AttemptAt(d)]

ImplementsDeliveryLife == Life!Spec

\* Every recorded delivery reaches a final state, whatever process dies
\* when: the next start sweeps what was left.
EveryRowIsFinished ==
  \A d \in Delivery : status[d] = "pending" ~> Finished(d)

\* What SCAN_RUN_MESSAGES.superseded tells the customer: "the scan was
\* interrupted, and a later delivery for this pull request was scanned
\* instead."
SupersededByAScan ==
  \A d \in Delivery : status[d] = "superseded" =>
    \E e \in Delivery : Later(e, d) /\ status[e] \in Unfinished \cup {"scanned", "superseded"}

\* What the sweeper's header rules out: "re-running the older delivery would
\* overwrite the later commit's report with the older commit's".
RerunNeverOverwritesALaterReport ==
  [][\A p \in Process : \A d, e \in Delivery :
       (/\ Retrying(p, d)
        /\ comment[PrOf[d]] = [of |-> e, kind |-> "report"]
        /\ Later(e, d)
        /\ comment'[PrOf[d]] = [of |-> d, kind |-> "report"]) => FALSE]_vars

-----------------------------------------------------------------------------
(* The inductive invariant. *)

\* Processes started in the order of their numbers, and what is not up has
\* nothing in memory.
ProcessesInOrder ==
  \A p \in Process :
    /\ bornAt[p] <= clock
    /\ mode[p] # "off" =>
         \A q \in Process : q < p => mode[q] # "off" /\ bornAt[q] < bornAt[p]
    /\ ~Up(p) => todo[p] = {} /\ \A d \in Delivery : stage[p][d] = "none"

RowsDated ==
  /\ \A d \in Delivery : startedAt[d] <= clock
  /\ \A d, e \in Delivery :
       status[d] # "none" /\ status[e] # "none" /\ startedAt[d] = startedAt[e] => d = e

\* A sweep has rows older than its process, and no predecessor works on them.
SweepsAlone ==
  \A p \in Process :
    /\ \A r \in todo[p] : status[r.of] # "none" /\ startedAt[r.of] < bornAt[p]
    /\ todo[p] # {} => PredecessorsGone(p)

AttemptsDated ==
  \A p \in Process : \A d \in Delivery :
    Attempting(p, d) =>
      /\ status[d] # "none"
      /\ startedAt[d] < bornAt[p] => PredecessorsGone(p)

\* A process that is about to mark the oldest row it listed has seen that no
\* later one was there when it started.
Oldest(p, r) == \A q \in todo[p] : startedAt[r.of] <= startedAt[q.of]

MarkedIsLatest ==
  \A p \in Process : sweep[p] = "marking" =>
    \A r \in todo[p] : \A e \in Delivery :
      (Oldest(p, r) /\ status[e] # "none" /\ Later(e, r.of)) => startedAt[e] > bornAt[p]

\* The scans a delivery may still have, beyond one that is already queued.
ScansLeft(d) ==
  CASE status[d] = "none"                   -> 2
    [] status[d] \in {"pending", "running"} -> 1
    [] OTHER                                -> 0

ScansBudgeted ==
  \A d \in Delivery :
    /\ scans[d] + ScansLeft(d) <= 2
    /\ \A p \in Process :
         stage[p][d] \in {"accepted", "queued"} => scans[d] + ScansLeft(d) <= 1

\* What a sweep has listed nobody else touches: no attempt is made at it but
\* the one of its own that it waits for, so that a row listed as retrying is
\* still retrying when the sweep comes to it and gives it up.
OwnsRow(p, r) ==
  /\ \A q \in todo[p] : q.of = r.of => q = r
  /\ Attempting(p, r.of) => sweep[p] = "rerunning" /\ Oldest(p, r)
  /\ r.status = "retrying" /\ sweep[p] = "notifying" /\ Oldest(p, r)
       => status[r.of] = "interrupted"
  /\ r.status = "retrying" /\ ~(sweep[p] = "notifying" /\ Oldest(p, r))
       => status[r.of] = "retrying"
  /\ sweep[p] = "notifying" /\ Oldest(p, r) => r.status = "retrying"
  /\ sweep[p] \in {"marking", "rerunning"} /\ Oldest(p, r) => r.status # "retrying"

SweepOwnsItsRows ==
  \A p \in Process :
    /\ sweep[p] = "waiting" => todo[p] = {} /\ \A d \in Delivery : ~Retrying(p, d)
    /\ \A r \in todo[p] : OwnsRow(p, r)

\* A notice is about a delivery.
NoticesAreAddressed ==
  \A r \in PullRequest : comment[r].kind # "none" => comment[r].of \in Delivery

IInv ==
  /\ TypeOK
  /\ ProcessesInOrder
  /\ RowsDated
  /\ SweepsAlone
  /\ AttemptsDated
  /\ MarkedIsLatest
  /\ ScansBudgeted
  /\ OneAttemptAtATime
  /\ NoRerunPastALaterRow

=============================================================================
