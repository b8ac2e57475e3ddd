# Fixor: specifications

TLA+ models of Fixor: what decides, for every pull request delivery, whether it
is scanned, when, at whose cost, and what the customer is told; what the scan
reads, asks and makes of the answers; and the organisation's row that plans,
settings and e-mails share. Paths below are relative to the repository root, and a bare file name means the file
of that name under `src/`.

- [1. The system](#1-the-system)
- [2. The modules and the code](#2-the-modules-and-the-code)
- [3. The runs](#3-the-runs)
- [4. Fairness](#4-fairness)
- [5. What is proved, and how](#5-what-is-proved-and-how)
- [6. Disagreements with the repository's own text](#6-disagreements-with-the-repositorys-own-text)
- [7. What is not modelled, and the plan](#7-what-is-not-modelled-and-the-plan)
- [8. Observations](#8-observations)

To check a run: `tlc -workers 2 -config X.cfg MCX.tla`. To check the proofs:
`tlapm XProofs.tla`.

## 1. The system

Fixor is a GitHub App and an HTTP API. A Node process receives webhook
deliveries, runs detectors (partly model calls, which cost money) over the files
a pull request changes, and posts one comment. Postgres holds the organisations,
a ledger of what every model call cost, and one `scan_runs` row per delivery. A
Next.js dashboard shows the rows and sells the plans.

What makes this hard is not any one function. It is that the work goes on after
the webhook was answered, in promises nobody can abort, in a process that a
deploy or a crash may end at any moment, against a spending cap that is read
before the money is spent.

| component | state it keeps | operations | meets others through | what is hard |
|---|---|---|---|---|
| Scan queue (`lib/scan-queue.ts`) | last promise per key, slot counter, list of waiters | `run`, `acquire`, `release` | called by handler and API scan, one key per installation | interleaved continuations, a stale map entry, a lost wake-up |
| Deadline and slot hold (`lib/scan-deadline.ts`) | two timers, a cancel flag per scan | `withScanDeadline`, `holdSlotUntilSettled`, `startSignal` | wraps the queued task | four events race for one answer; a slot may be given away with its work still running |
| Pull request handler (`integrations/github/pr-webhook-handler.ts`) | per scan: outcome, spend, `finished` | accept, run, re-run, notice | queue, store, budget gate, workflow, comment | every await between a test and the write it guards |
| Scan run store (`services/scan-run-store.ts`) | `scan_runs` rows | insert, `markRunning`, `markRetrying`, `finish`, `listUnfinished`, `hasNewerRun` | Postgres, shared by overlapping processes | guards in SQL are the only mutual exclusion |
| Startup sweep (`services/scan-run-sweeper.ts`) | the rows it listed | one sweep, ten minutes after the start | store, handler | a listing that grows stale row by row; a death in the middle |
| Spend guard (`services/cost-store.ts`, `lib/cost-context.ts`) | `cost_ledger` rows, a flag per scan | `recordCost`, `checkBudget` | model client, handler, API scan | the read comes before the spending; a ledger write may fail after the money is gone |
| Model client (`analysis-engine/anthropic-client.ts`) | none but the context | `callClaude` with retries and a timeout | spend guard, cancel flag | refuse before a call, count after it |
| Auditor workflow (`workflows/auditor-workflow.ts`) | steps of one scan | `runAuditorWorkflow`, `executeWorkflow` | model client | a 120 s timeout that abandons instead of cancelling |
| Process (`server/webhook-server.ts`, `lib/in-flight.ts`) | promises in flight | start, drain, exit | all of the above | deploy overlap; a drain shorter than a scan |
| Webhook route (`server/github-webhook-route.ts`) | none | verify, dispatch, acknowledge | handler, provisioning | what is acknowledged before it is done |
| API scan (`server/api-scan.ts`, `lib/rate-limiter.ts`) | limiter windows | token, limit, gate, queue, deadline | queue, spend guard | windows that roll; callers that hang up |
| Comment posting (`integrations/github/post-pr-comment.service.ts`) | comment id per pull request, if the pilot store is on | find, then create or update | GitHub | two scans past one another, lost answers, truncation, deletion |
| Installation tokens (`integrations/github/app-auth.service.ts`) | cache, fetches in flight | get | GitHub | taken at the start of a scan, used at its end |
| Org provisioning and settings (`services/orgs.service.ts`, the dashboard's settings route) | `orgs`, `org_settings`, `audit_log` | provision, save | database, gate, billing | the same row under five writers |
| E-mails (`services/first-scan-email.ts`, `services/scan-limit-warning.ts`) | a stamp in the org's row | claim, send, roll back | database, mailer | a send that fails after its claim, a roll-back of someone else's claim |
| Billing (`apps/dashboard/src/app/api/billing`) | tier, cap, subscription of the org | Paddle events | database, spend guard | repeated, late and reordered events, a failing route |
| Coverage integrity (`lib/llm-coverage.ts`, `integrations/github/whole-file-scan-input.ts`) | a process-wide tally | count, snapshot, difference; fetch, fall back | model client, workflow | scans share the tally; inputs that are missing |
| Detectors (`analysis-engine/detectors`, `analysis-engine/verdict-escalation.ts`) | none that lasts | pick lines, ask, judge | model client, workflow | a verdict lost between the answer and the result |
| Command line (`cli/`) | one run | walk, scan, report, exit | detectors | an exit code of 0 that means less than it says |
| Fixes, reports, dashboard pages | none that lasts | text, rendering | workflow, handler | nothing concurrent |

How they interact: route -> handler (`acceptPullRequestDelivery` inserts the row,
the webhook is answered, `runAccepted` goes on) -> queue (key: the installation)
-> `holdSlotUntilSettled` inside it and `withScanDeadline` around it ->
`scanDelivery`: token, budget gate, fetches, workflow, comment, outcome ->
`finish`. Deadline and finished work both close the row; the sweep of the next
process closes or repeats what a dead one left.

What makes each correct, in a sentence: the queue runs one scan per installation
and loses no wake-up; a deadline answers every caller truthfully and gives a slot
on only when its scan can no longer spend; a row is closed once, and a delivery is
charged at most twice; a failed ledger write stops the spending and shows on
the row; the cap is overshot by less than one scan for each process that scans for
the installation; the pull request carries one
report; an acknowledged delivery survives the process; a result reads as clean
only when every call was answered and every file that was not dropped was read, and a verdict that came is in the result; the
organisation's row is what Paddle sells once its newest event is in, and its stamps stand for e-mails. The hazards behind these, each at
its line, are in `PROJECT.json`.

## 2. The modules and the code

```
KeyedSlots  <--- refines ---  ScanQueue            ScanQueueProofs
    ^
    | INSTANCE
ScanDeadline                                       ScanDeadlineProofs
ScanSpend   (one key, a queue per process)         ScanSpendProofs

DeliveryLife  <--- refines ---  ScanRuns           ScanRunsProofs   a queue per process, as a sequence

Comments  <--- EXTENDS ---  Delivery               DeliveryProofs   tokens and comment; the process
ScanInput <- Detectors <- ScanWork <- LocalScan    LocalScanProofs  input, detectors, workflow, command line
Plans     <--- EXTENDS ---  Account                AccountProofs    pure rules; the organisation's row
```

Several views of one pipeline rather than one product of everything: each keeps
the control that its properties depend on, and takes from the others what they
were shown to guarantee. The first four follow a scan through queue, deadline,
row and ledger; Delivery looks at the same scan from outside, as what GitHub and
the process see of it; LocalScan looks inside it; Account is what its gate reads.

**KeyedSlots** is what the queue promises: tasks of one key become active in call
order, each after the one before it has finished, and only into a free slot. It
has no promises, no counter and no waiter list.

**ScanQueue** is `lib/scan-queue.ts`. An action is one piece of JavaScript between
two awaits. `Run` is `run()` up to `await previous`; `Acquire` the call of
`acquire()`; `Start` the continuation that calls the task; `Finish` the two
`finally` blocks, with `Release` and `TailAfter` as the bodies of `release()` and
of the conditional delete. `previous` and `tails` are the promise chain, `running`
and `waiting` the private fields; `granted` is the gap between the resolver that
`release()` calls and the microtask in which the waiter goes on. `ticket` and
`clock` are history: nothing reads them but the properties.

**ScanDeadline** is one scan from its place in the queue to its answer. `work` is
how far `scanDelivery` has come, `detecting` that `executeWorkflow` is pending,
`calls` its requests in flight, `cancelled` the flag `callClaude` reads, `row` who
closed the row, `answer` what `withScanDeadline` resolved with. Time is the order
in which timers may fire. The hold (deadline plus grace) fires after the
deadline, and, with the default grace of a whole deadline (10 min), after every
request then in flight has ended, since `config/models.ts` gives a request at
most 60 s. A scan in `ZeroGrace` was started with `graceMs = 0`, as the
tests do: its hold and its deadline race. `WorkflowTimeout` is the 120 s
race of `runAuditorWorkflow`: the handler goes on, `detecting` stays true.

**ScanRuns** is the row's life across processes. An action is one database or
GitHub round trip, so anything may happen between two. `Accept` is the insert
(with `ON CONFLICT DO NOTHING`: a redelivery finds its row and nothing happens),
`Enqueue` the call of `queue.run`, `Refuse`, `Scan`, `Report`, `Fail` the ways
through `scanDelivery`, `Close` the finally block, `TimeOut` `onDeadline`, `Leak`
the end of the hold. `List`, `Supersede`, `GiveUp`, `Notify`, `Choose`,
`MarkRetrying`, `Rerun` and `GoOn` are the sweep, line by line; `todo` is the list
it holds in memory, statuses as they were listed. `Die` is a crash or the exit
after a drain; the memory of the process is gone, the rows stay. The SQL guards
are `FinishRow` (`status IN unfinished`), `Running` and `MayRetry`. `Fallible` are the
deliveries whose database calls and notices may fail. Timestamps are a counter:
`startedAt` of a row, `bornAt` of a process. Since the delay and the staleness
bound of the sweep are the same ten minutes, a row is stale exactly when it is older
than the sweeping process.

**DeliveryLife** is what that amounts to for one delivery, with no process, queue, date
or list in it: a row that is recorded, attempted by one at a time, retried once after the
first attempt is lost, and ended once. `attempt` is "ready" or "working" when
somebody is at it. In ScanRuns (`AttemptAt`) that is the stage in whichever process attempts the
delivery; an insert that failed, the stages of a working scan, the deadline's
flag, the queue and the sweep's own steps are stutters.

**ScanSpend** is the money. `PassGate` is `checkBudget` finding the ledger's sum
under the cap; `StartCall`, `CallPaid`, `CallFails`, `Record`, `Lose` are one
model call: request, priced answer, error, ledger insert, failed insert.
`spent` is `run.spend.usd`, `ledger` the sum of the scan's rows, `failed` and
`unrecorded` the two places where a lost write is remembered, `row` the final
code with its `cost_usd`. A call costs one unit. `Settle`, `RefuseComment` and `Throw`
are the three ways `scanDelivery` ends: an outcome, an outcome whose code a refused
comment overrides, and none. `home` is the process that accepted the delivery:
`KeyFree` looks at that process's queue only, the gate reads the ledger of all.
`seen` and `abandoned` are history.

**Comments** is how a report reaches the pull request. `cached` is the token
cache's entry as the time it has left, `Waiting` the promise that its callers
share; `Life` and `Margin` are the hour of a token and the 60 s of
`getInstallationToken`, shrunk. One action is one request to GitHub: `List`,
`Patch`, `Create`, with the answer lost or not, `Refuse` any error status. A
comment is its author, its marker, whether it still exists, and whether it lies
beyond the 2000 comments that `listIssueComments` reads. `Guarded` is the size
guard: what matters of a truncated body is that its marker survives. GitHub and
the people on the pull request are external.

**Delivery** is one process after another. `RouteStatus` is the chain of early
returns of `routeGitHubWebhook`, as a function of what a request is like; `Receive` the
request up to the insert; `Accept` the insert's return, the tracker and
the answer, one step of the event loop; `Settles` the last write of the row and the tracker's
`finally`. `TokenStatus`, `Allows`, `RefusalStatus` and `ApiStatus` are the
API's answers. `Shutdown`, `Drain`, `DrainEnds` and `DrainTimesOut` are
`shutdown()`, `Killed` the platform, `Exits` what a process takes with it,
`Restart` `main()`. `admitted` is history, the requests one token was granted by
their age; `Grants` is the set of them. `Rerun` is the startup sweep's re-run, which no tracker knows. A
scan's own steps are those of Comments; its turn and its deadline are coarse.

**ScanInput** is pure: a line of a file is the set of detectors' patterns that match
it, a pull request's part for a file a sequence of added, removed and kept
lines. `Nth` and `Picked` take a set of positions in their order, as the parser takes
the added lines and the file walker the files it does not skip. `ParsedDiff`, `WholeFile`, `ChangedLines` and `FileInput` are what the
parsers make of it; `Candidates` and `Guards` which layouts are asked for and which
of them count for a route, once with what GitHub gave (`GuardsFetched`) and once with
what the disk does (`GuardsOnDisk`): a layout that cannot be read is an error there
and nothing here; `Passes` the organisation's filter, `Introduced` the
partition.

**Detectors** is pure too. `ReadingOf` gives, for a detector and a content, the
lines it reports without asking, those it asks the model about, and what a
verdict may name instead. `Replies` are the model's answers, well formed or not, as the
tools' schemas and `callLlm` let them through; `Resolved` the second opinion,
`LaneOf` the deferral between auth-bypass, admin-check and idor, `Findings` what
a detector returns.

**ScanWork** is `executeWorkflow`, several at once in one process, with the tally of
`llm-coverage.ts` as the one variable they share: `Begin` (input, layouts, filter, mark),
`Judge` (the end of one call, out of the table `Answers` of all that the model may say), `Throw` (a detector rejects), `Finish` (findings,
filter, partition, errors, status) and `TimeOut`. **LocalScan** adds
`cli/scan.ts`, file by file, and puts the two ways of scanning together; `guarded` is
history, the layouts that the command line's files were judged with. `Dropped` are the
files over the size limit from which the request only takes lines: nothing is read
of them and no error says so. Fixes are not
in it: the workflow makes them without a call, and none of them can fail.

**Plans** is pure: tiers, prices, Paddle's signature, roles, settings patches, the
budget decision, the warning range. **Account** is the `orgs` row and whoever
writes it: `Install` and `Gate` (provisioning), `PostApplied`, `PostIgnored` and
`PostFails` (one delivery of a Paddle event), `ReadForm` and `SaveForm` (the
settings route, whose read and transaction are two steps), `PopulateEmail`, and
the two e-mail tasks: `ClaimFirst`, `RollBackFirst`, `SendFirst`, `LookUp`,
`ClaimLimit`, `RollBackLimit`, `SendLimit`. Paddle is external: `subs` is what it
has sold, `events` what it has to say, and it may say each of it again, late and
even after an answer; `answered` are those it knows to be received. An event names this
organisation, one that is not here, or none, and may lack the ids a sale needs: `Reaches`,
`Actionable` and `Ignored` are what the route makes of that (a sale to an
organisation that is not here is none of the last two: its audit entry's foreign key
refuses it, every time). The `plan_changed` entry of the audit log repeats the row and is left out.
The variables `told`, `named`, `announced`, `warned`, `lost` and `straddled`
are history; `straddled` says that a roll-back cleared the stamp under a
nudge that another scan had sent or was about to send (`Nudged`).

What is abstracted in the first four: what is fetched, found and written; the
comment is its delivery and its kind; errors of one outcome class are one value
(`failed` stands for scan_failed, comment_refused, pr_fetch_refused and internal_error).

Each `...Mutant` operator is a plausible mistake in the definition that follows it
(a dropped guard, a missed reset, a swapped test). It is used by no specification:
replacing the definition by it must make TLC report the property
that `PROJECT.json` pairs it with.

## 3. The runs

| run | instance | distinct states | what it shows |
|---|---|---|---|
| ScanQueue | 5 calls, 3 keys, 2 slots | 72,965 | the queue's invariants, every task finishes, and ScanQueue implements KeyedSlots |
| ScanDeadline | 3 scans, 2 installations, 1 slot, 1 call at a time, one scan with zero grace | 449,389 | truthful answers, rows closed before the answer, slots only from cancelled scans, every caller answered |
| ScanRuns | 2 deliveries of one pull request, 3 overlapping processes, sweep limit 1, calls about one delivery may fail | 633,484 | two scans at most, one attempt at a time, final states final, no re-run past a later row, truthful notices, and ScanRuns implements DeliveryLife |
| ScanRunsLive | the same without overlap or failing calls, sweep limit 2 | 48,445 | every recorded delivery reaches a final state |
| ScanSpend | 2 scans of one installation, 2 processes, cap 2, 3 calls each, 2 in flight; symmetric | 1,300,180 | bounded loss, truthful cost and code on the row, overshoot bounded per process |
| Account | 2 scans, 2 subscriptions, 3 events, 2 settings forms, 2 months, of which 3 things at a time; symmetric | 264,123 | the row is what Paddle sells once the newest event is in, every first-scan stamp accounted for, one nudge a month, every setting named in the audit log |
| Delivery | 2 deliveries of one pull request, 2 processes, 2 API calls for each delivery less, 2 comments; symmetric | 882,318 | one report, tokens that last, the rate bound, nothing acknowledged lost by an exit |
| ScanWork | 2 pull request scans or one command line scan, 5 files, 6 detectors | 1,053,620 | clean means judged; verdicts are in the result |
| ScanDeadlineBound | as ScanDeadline | violation | section 6, 1 |
| ScanRunsSuperseded, ScanRunsOverwrite | two deliveries, no failing calls | violations | section 6, 2 and 3 |
| ScanSpendThrow | as ScanSpend | violation | section 6, 4 |

Why the bounds are enough to be interesting:

- *ScanQueue.* Three calls of one key and one of each of two others, over two
  slots: the chain must wait while both slots are taken, other keys overtake
  it, and a third call arrives when the first has finished and the second has not, which
  is where the conditional delete matters (two calls per key do not show it).
- *ScanDeadline.* One slot and three scans, two of which share a key: a leaked slot is taken over
  by a scan of the same installation and by one of another, with the
  leaked scan still running, abandoned or settling late.
- *ScanRuns.* Three process starts are the fewest in which a third scan could
  happen (scan, retry, and once more). With a sweep limit of one, a
  row waits for a later start. `Overlap` lets all three run together, in
  any order of deaths; two deliveries allow older, newer and redelivered. A
  fourth process adds only repetition: the last one listed never dies. The
  state constraint `UnrecordedBound` lets an insert fail in the second process
  only, the one that may serve beside either of the others.
- *ScanRunsLive.* `MaxProcess` bounds deaths: after the last start the process
  stays. This stands for "a process eventually lives long enough to
  sweep", without which nothing finishes anything. With overlap the property
  is not claimed: a row that an old process accepts after a new one started, and then
  takes down with it, waits for the start after that.
- *ScanSpend.* A cap of two calls and scans of three: the first scan can
  exhaust the cap, stay below it, or overshoot it; with two calls in flight one
  may fail to be recorded while the other is being paid. The two scans share a
  process or have one each, as in a deploy: then both may pass the gate on an empty ledger.
- *Account.* `Load` bounds scans, events and forms together at three: a sale, a
  change and an end; a sale and two scans; a scan between a read and a save. Two of each are the fewest
  that can get in one another's way, two months the fewest that a
  roll-back can straddle. Costs of 0 and 4 against caps of 5, 30 and 200 reach both sides of
  the warning range. Events may be repeated without bound. The state constraint
  `ForeignBound` keeps events that change nothing on the row (another organisation's, an
  incomplete one) apart from scans, which see of Paddle only the row.
- *Delivery.* `Load` is four, a delivery and a restart counting two: two
  deliveries that race, or one whose process dies and whose row the next one
  takes up, or a delivery and two API calls. A life of 2 with a margin of 1
  lets a token be new, at its margin and dead, and a limit of one in a window of two ticks
  shows the twofold burst at a window's edge. Two state constraints keep the
  run short: one scan at a time posts past its deadline (`LateBound`), and the
  process does not end on a pull request with more comments than a list
  reaches (`CrowdBound`), which has no bearing on how it ends.
- *ScanWork.* Four requests: a deletion alone, a file with an administrator's
  literal before a route, one with a masked key, a key and a webhook, and a
  layouted route with a source and two sinks beside a file that dumps the
  environment; between them every detector asks, and every lane is left for another. Files
  come whole, too large or not at all, the deletion among them. The
  second scan is short, so it begins and ends inside the first. Windows of 0, 1 and 2
  lines stand for 5, 8, 16 and 40, a limit of one site for twelve.

`CHECK_DEADLOCK FALSE` everywhere: all work may be done, or hang, and nothing new may come.

The bounds `MaxCalls`, `MaxInFlight` and `MaxProcess` are guards in the modules; the
code has the first two (the number of detectors times candidates, and the pool's
width) as data-dependent numbers. Everything else is bounded by the finite sets.

## 4. Fairness

*ScanQueue* (`FairSpec`): weak fairness of the microtasks (`Acquire`, `Start`) and of
`Finish`: a task given to the queue ends because `holdSlotUntilSettled` makes it
end. That is an assumption there and the result here:

*ScanDeadline* (`FairSpec`): weak fairness of `Start` (the queue), of `EndCall` (every
request has its own timeout), of the deadline, the answer and the hold. The work
itself is not fair: `EnterWorkflow`, `EndWorkflow`, `CloseRow` and `Settle`
may never happen, because a fetch without an abort signal may never return.
`AnswerTimedOut` is fair since the closing write settles or rejects, and both answer.

*ScanRuns* (`FairSpec`): the host restarts the process, timers fire, and the steps of a
sweep are taken while its process lives. That a scan ends is not assumed, and
neither is that a process dies. The other modules state safety only: an e-mail, a
report or an event that never comes is something their code allows.

## 5. What is proved, and how

For every value of the constants, from the `ASSUME` of each module: the sets of
scans, posters, subscriptions and forms are finite, functions have their types, and the
bounds are positive where the code's are (a rate limit, a window, a month). `ScanWork` assumes
that a fetch ends in one of the outcomes `fetchFileAtRef` has (`Fetches`). Every safety
invariant and every action property of the runs is a theorem:

| module | theorems |
|---|---|
| ScanQueueProofs | `TypeCorrect`, `Serial`, `Bounded`, `NoLostWakeup`, `NoStaleTail`, `Refinement` |
| ScanDeadlineProofs | `TypeCorrect`, `SlotsFromCancelledScans`, `TruthfulAnswers`, `RowsBeforeAnswers`, `CallsEndBeforeTheSlot` |
| ScanRunsProofs | `TypeCorrect`, `TwoScans`, `OneAttempt`, `NoRerunPast`, `FinalOnce`, `TruthfulNotice`, `Refinement` |
| ScanSpendProofs | `TypeCorrect`, `BoundedLoss`, `CostOnTheRow`, `LossOnTheRow`, `CapHolds` |
| AccountProofs | `TypeCorrect`, `RowFollowsPaddle`, `FirstMailAccounted`, `OneNudge`, `AuditNames` |
| DeliveryProofs | `TypeCorrect`, `ReportIsUnique`, `ShortScansPost`, `RateBounded`, `NothingIsLost` |
| LocalScanProofs | `TypeCorrect`, `CleanIsJudged`, `VerdictsAccounted` |

Each module ends with `IInv`, an inductive invariant TLC has also checked on the
runs' instances, and each proof module shows `Init => IInv`, `IInv /\ [Next]_vars =>
IInv'`, and that `IInv` implies the property.

**Queue.** That no two tasks of one key hold slots is not inductive: nothing in
the state of two holders forbids it. What forbids it is the shape of the
chain. `ChainLinked` says that an unfinished call awaits a call at least as
young as every older unfinished call of its key; `PastTheAwait` that whoever got
past the await has a finished predecessor. So a task past its await is
the oldest unfinished one of its key (lemma `FreeIsOldest`), and there is one
oldest. The link is kept because `tails` is the youngest unfinished call
(`TailsFollowTheChain`), which in turn is why the `finally` block must delete
only its own entry. The refinement follows: what is oldest may start.
The abstract ticket and clock are the concrete ones; `granted` is
still pending in the abstract queue, so handing a slot to a waiter is a stutter
together with the finish that caused it.

**Deadline.** `WorkFollowsTheQueue` ties the work to the queue's stage and
`WorkClosesTheRow` says the finally block precedes the settlement. With these,
a slot that is gone under unsettled work can only come from `LeakSlot`, which
either finds the answer already "closing" or makes it so, with the flag. A scan with a
grace is leaked only after its calls have ended, and cancelled by then, so that it starts no
other: that is `CallsEndBeforeTheSlot`.

**Rows.** That no row has two attempts rests on dates. A sweep lists only rows older than its
process, and only when every earlier process is gone (`SweepsAlone`); an attempt
on a row younger than the process is one the process accepted itself
(`AttemptsDated`). Two attempts on one row would need two processes, the
younger of which has a row older than itself, so the other must be gone, or
younger still. `ScansBudgeted` counts: a row without
status has two scans left, a pending or running one has one beyond what is
queued, a retrying or final one none; `markRetrying` moves from the second class to
the third, which is why its guard must exclude a row already retrying.
One assumption of the model carries weight: `PredecessorsGone`, that a process's
sweep starts after earlier processes are gone. The code does not test it; it
waits `SWEEP_DELAY_MS`, ten minutes, which outlasts the drain (150 s) of a process that was
told to stop when its successor started. A process that nobody told to stop
would break it, and the mutant of `PredecessorsGone` shows what
would happen. (The comment at `src/services/scan-run-sweeper.ts:39`, "longer
than any one scan (its deadline) plus a drain", adds up differently: the deadline
alone is ten minutes. What saves the argument is that the drain gives up
on a scan rather than wait for its deadline.)

**Spend.** `Accounts` is the bookkeeping of one scan: until a write fails, spent
equals recorded plus being recorded; the first failure stops new calls, so
what is then in flight is all that can still be lost. `RowCounts` carries that to
the row: the deadline reads the spend with at most the calls in flight to come.

What a lost write leaves on the row (`LossOnTheRow`) is the cost: every closing
with a decided outcome writes the spend, which the ledger then lacks. The code is weaker: a
refused comment overrides it (section 6).

That the cap is overshot by one scan for each process (`CapHolds`) needs `KeyFree`, the chain of each queue: between
a scan's reading of the ledger and its end no other scan of its process
writes to it, unless one was abandoned or leaked and still has calls to
record. `NoneAbandoned` excludes the first, and a leaked scan is cancelled with its calls ended. What
the scan of another process writes meanwhile the gate did not see. So the invariant counts what the running scans
may still write: `Claimed` are the rows that are there and all those that a
running scan could add, and they are fewer than the cap plus a scan for each process. A scan is admitted below the
cap, and adds its `MaxCalls` to the claims; its process has no other claim at that moment, and
the claims without it are what the ledger has plus at most a scan for each other process. The ledger's sum is
the cardinality of the set of its rows (`LedgerRows`), which is what lets a
prover add: rows of different scans are disjoint, and a scan has at most `MaxCalls`.

**Notices.** `TruthfulNotice` relates a list in memory to rows in the database. The
notice is posted for a row that was listed long before, but a process owns the rows it
has listed and not yet passed (`OwnsRow`, `SweepOwnsItsRows`): every process that could change
them is gone, and its own queue does not hold them. So the status it has just
written is still there when it posts (`NoticesAreAddressed`). The same fact keeps the notice
from covering a later report.

**Life of a delivery.** The refinement (`Refinement` in ScanRunsProofs) puts these together. The mapped
attempt is well defined because there is at most one (`OneAttemptAtATime`, lemma
`AttemptCases`), so a step of a process about a delivery changes its mapped attempt and no other
(`OthersStay`, `Moves`). What the sweep does to a row needs that nobody attempts it
(`SweepOwnsItsRows`, lemma `NobodyAtTheRow`): superseding, retrying and giving up are steps of an
abstract delivery that is left alone. A row given up is still retrying although
the sweep tests the listed status only. A death maps to `Abandon` of what the process attempted.

**Account.** `RowTracksPaddle` speaks of a moment when the newest event is in. `told` remembers
whether the row was last told by it or, afterwards, by an older one:
`RowIsTheNewestEvent` says what the row shows in the first case, and that an answer without an
application is for an event that is not this row's; `EventsTellTheSubscription` says that the newest event
tells how its subscription stands, and `OursIsThere` that an event for this organisation finds it. `FirstMailIsAccountedFor` is an
equation of cardinalities and is its own invariant, given that a claim is made on a
row that exists. `NudgesAreStamped` is the invariant of the month: the stamp is at
least as late as every nudge sent or about to be, which is what `Claimable` tests.
`FormsAreNamed` carries the settings from a form's read to its save: a field that it will save
without naming it was at its default, or had been named, when it was read, and named stays named.

**Delivery.** `ReportIsUnique` rests on `OneWriter` and `NoneToEdit`: as long as nobody
raced, one poster at most is about to create, and what it found missing is still missing.
`ShortScansPost` is the cache's margin carried along with a token's age
(`TokensCoverTheMargin`). For `RateBounded` the grants of the last window's time are split into those
that the current bucket counts (`Fresh`) and older ones (`Stale`), which the bucket before
it counted in full; each part is at most the limit, and a bucket that rolls turns the
first into the second. `NothingIsLost` needs that a drain's snapshot has every answered
delivery in it (`DrainSeesTheAnswered`), since a closed server accepts none after.

**Scan.** Detectors, parsers and guards are functions; what the proofs of LocalScanProofs use of them is
little, and is stated as lemmas: which answers a call may have (`Answers`), that the tally only
grows (`TallyIs`), that a finding of a kept answer is in `FindingsIn`, and how positions are picked.
`WorkOK` says of every scan in work that its answers are about its own files and that a failed
call is in the difference between the tally and the scan's mark. That is all that makes
a shared, process-wide tally safe: another scan's failures can make the difference too large, never
too small. So a result without an error has no failed call, no throw and no missing
input, and nothing left to ask; and since an empty diff is an error, it read a file that was not
dropped (`DroppedIsEmpty`). `GuardsStand` is why no missing layout went unnoticed on the server, `NoneReplaced` why an unreadable
one on the command line at least lets no other layout clear the route. `CliOK` says the same of the command line, file
by file, with `CliNoneSkipped` for the files it has passed. Induction over positions
is replaced by the least element of a set of numbers (lemma `Least`, from the library's `WFMin`).

**Model-checked only.** The liveness properties, `EveryTaskFinishes`, `EveryScanIsAnswered` and
`EveryRowIsFinished`: fairness and ENABLED are beyond the prover. What the pure operators compute
(which lines trigger which detector, which guards a route has) is checked through the
instances of the ScanWork run only: the theorems hold for whatever they compute.

## 6. Disagreements with the repository's own text

Four runs are expected to fail: each checks one sentence of the repository, and TLC shows a
behaviour of the code that contradicts it.

1. `src/lib/scan-deadline.ts:30`: the bound "holds for every scan that can
   start a model call". `runAuditorWorkflow` abandons its workflow after 120 s and
   does not cancel it (`src/workflows/auditor-workflow.ts:204`): its scan finishes and gives
   the slot on while the abandoned workflow may still call. The same cause
   makes a budget read miss calls (`CapOvershotByAScanPerProcess` and the cost
   properties are stated for scans that were not abandoned).
2. `src/services/scan-run-store.ts:87`: superseded means "a later delivery ... was
   scanned instead". `hasNewerRun` takes any later row, one that timed out or was
   refused included.
3. `src/services/scan-run-sweeper.ts:17`: an older delivery's re-run must not
   overwrite a later commit's report. The question is asked once, before the re-run; a
   delivery accepted after it reports first and is overwritten.
4. `src/services/scan-run-store.ts:147`: an empty outcome means "the scan did not
   run, or ran nothing". An error rethrown after the workflow closes the row with
   one, `cost_usd` 0, though calls were paid.

The modules have further behaviours that a comment of the repository says otherwise of, without a run
of their own; the properties are worded to what the code does:

- `src/integrations/github/pr-webhook-handler.ts:474`: a lost ledger write "is the more serious truth
  than the timeout, so the row says that", and 631-636: a scan stopped by the spend guard has "its own code, so the
  dashboard says why". When GitHub refuses the comment, `comment_refused` replaces that code
  (1080-1088, `RefuseComment`): the row then tells only by its `cost_usd`.
- `src/lib/scan-queue.ts:8`: running an installation's scans one after another "makes each budget read see the previous scan's
  ledger rows". It does within a process. In a deploy two queues admit two scans on one sum
  (`src/services/cost-store.ts:378`), and the cap is overshot by less than two scans.
- `apps/dashboard/src/lib/billing-events.ts:8`: duplicate deliveries "don't corrupt state". A duplicate of an older
  event, applied after a newer one, does: a repeated sale after a cancellation gives the paid tier back
  (`PostApplied`, `told = "older"`), and a reordered one likewise.
- `apps/dashboard/src/app/api/orgs/[id]/settings/route.ts:78`: the audit entry is to "record only what actually
  changed". Of two overlapping saves the second is described against a row it did not replace: it may name a
  field it leaves alone, and put one back without naming it. That some entry names every
  field that is not at its default is what remains (`AuditNamesEverySetting`).
- `src/services/scan-limit-warning.ts:9`: "at most one nudge per org". The roll-back sets the stamp to null
  whosever it is by then (line 172): if the month turned since its claim and another
  scan has claimed the new month's nudge, a third scan sends a second one. This is what `straddled`
  excludes. It takes three scans, one more than the
  Account run has; TLC finds it on an instance with three scans and no subscription.

## 7. What is not modelled, and the plan

Left out for good: prompts, regular expressions, fixes, reports, comment and SARIF
layout, the merging of findings in the command line's report (functions of text
without state); the dashboard's pages; logging and monitoring. The SQL fix
service (`services/fix.service.ts`) is reached by `src/real-tests` only, and the
Semgrep import (`services/vulnerability.service.ts`) only by a payload without a
diff. Deliveries without an installation (a local demo mode) have no row, key or
budget. The welcome and other billing e-mails change nothing. The pruning of the
rate limiter's windows is called by nothing, and so is `retryAfterSeconds` left
out, which only fills in a header.

Simplifications:

- ScanRuns: a failing database write changes nothing, except where the caller
  ignores the error anyway. A write that took effect although its answer was lost
  is distinguished in Delivery (the insert) and Account (the answer), not in ScanRuns.
- ScanSpend, ScanDeadline: `callClaude`'s three retries are part of one call in
  flight.
- ScanWork: the order of the files within a detector is kept; a source line that
  itself begins with "++", which the diff parsers take for a header, is not
  represented.
- Delivery: `RateIsBounded` assumes, with the code, a clock that does not step back; the
  windows are a process's own.
- Comments: one pull request, and GitHub's edits and creations are atomic.

Order of the work, done and planned:

| # | module | of | properties | proofs |
|---|---|---|---|---|
| 1 | KeyedSlots, ScanQueue | queue | refinement | done |
| 2 | ScanDeadline | deadline, hold, workflow race | done | done, but for liveness |
| 3 | DeliveryLife, ScanRuns | handler, store, sweep, process | refinement | done, but for liveness |
| 4 | ScanSpend | spend guard, model client | done | done |
| 5 | Plans, Account | billing, provisioning, gate, settings, e-mails | done | done |
| 6 | Comments, Delivery | tokens, comment, route, API, process | done | done |
| 7 | ScanInput, Detectors, ScanWork, LocalScan | the scan's own work | done | done; planned: lemmas on `Guards` and `Introduced` |
| 8 | ModelCall | `callClaude`'s retries and backoff | refines the call of ScanSpend | refinement |

One lift of what is there: ScanRuns' queues as instances of KeyedSlots.

## 8. Observations

What the models' authors noticed in the code and no run states, because no text of the repository
says otherwise or because the models leave the place out:

- A row given up on is closed before its notice is posted
  (`src/services/scan-run-sweeper.ts:94`); a death between the two loses the notice.
- The first-scan e-mail is also sent for a scan refused at its cap, and
  `applyDowngradeToFree` ends the paid tier whichever subscription was cancelled.
- A file over the size limit from which the request only takes lines is dropped unread, without an error
  (`src/integrations/github/whole-file-scan-input.ts:192`): beside one other file the result may read as clean.
- A layout that cannot be read on the command line is passed over in silence
  (`src/analysis-engine/detectors/shared/route-guard-resolver.ts:50`): its route is judged without it, and the exit
  code does not say so. So the stage "resolve-route-guard" of `src/cli/scan.ts:426` is one that no file is lost at.
- A sale without `customer_id`, an update without `data.id` and an event of a price that is not sold here are
  answered 200 and dropped (`apps/dashboard/src/app/api/billing/webhook/route.ts:104`); a sale to an
  organisation that is not here is answered 500 each time it comes.
- The daily cap comes from the environment alone.
- The sweep's re-runs, and the e-mails, are in no tracker: a drain does not wait for them.
- A pull request with more than 2000 comments gets a new report with every scan
  (`crowded`), and a comment deleted between the list and the edit makes the report fail.
- A verdict that is missing from a reply, or malformed, is read as "no finding", and the
  call is counted as answered. idor's sites past the twelfth are logged only.
- auth-bypass leaves an administrator's route to admin-check
  (`src/analysis-engine/detectors/auth-bypass.detector.ts:789`), which judges
  its own earliest trigger only, so that what was left to it need not be judged.
- The command line exits with 0 when the root does not exist, when everything is
  ignored and when the user declines at the prompt; a directory that cannot be read is
  skipped in silence.
- SARIF's `executionSuccessful` does not know of files and layouts that could not
  be fetched.
- A pull request that only deletes files has an empty diff, which the workflow rejects as
  a malformed payload.
- The comment lists the first five errors only.
