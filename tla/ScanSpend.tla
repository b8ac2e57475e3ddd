----------------------------- MODULE ScanSpend -----------------------------
(***************************************************************************)
(* What one installation's scans spend, and what the ledger and the rows   *)
(* know of it: the budget gate (checkBudget in src/services/               *)
(* cost-store.ts), the model calls with their ledger writes (callClaude in *)
(* src/analysis-engine/anthropic-client.ts), the per-scan context that     *)
(* stops them (src/lib/cost-context.ts), and the outcome the handler       *)
(* writes (src/integrations/github/pr-webhook-handler.ts).                 *)
(*                                                                         *)
(* Every priced call costs one unit.  The scans share one queue key, so a  *)
(* scan starts when no other scan of its process holds the key's slot      *)
(* (module ScanQueue); each process has a queue of its own, and in a       *)
(* deploy two of them scan side by side (module ScanRuns).  A process that *)
(* died is one whose scans take no more steps.  When the slot is given up  *)
(* early is module ScanDeadline's business, repeated here for the default  *)
(* grace.  The ledger is the number of rows the scans have written, within *)
(* one budget period.                                                      *)
(***************************************************************************)
EXTENDS Naturals, FiniteSets

CONSTANTS
  Scan,          \* the installation's scans
  Process,       \* the processes that accept its deliveries
  Cap,           \* the cap that governs it
  MaxCalls,      \* bound on the priced calls of one scan
  MaxInFlight    \* bound on its calls in flight at once

ASSUME SpendAssumption ==
  /\ IsFiniteSet(Scan) /\ Scan # {}
  /\ IsFiniteSet(Process)
  /\ Cap \in Nat
  /\ MaxCalls \in Nat \ {0}
  /\ MaxInFlight \in Nat \ {0}

VARIABLES
  home,        \* the process that accepted the scan's delivery
  stage,       \* how far scanDelivery has come
  held,        \* the scan has its queue slot
  seen,        \* history: of the sum the budget gate read, the rows of its process
  detecting,   \* executeWorkflow's promise is pending
  flying,      \* requests to the model that are not answered
  writing,     \* answered and priced calls whose ledger write is pending
  spent,       \* run.spend.usd
  ledger,      \* cost_ledger rows of the scan
  failed,      \* costCtx.ledgerWriteFailed
  unrecorded,  \* run.spendUnrecorded
  cancelled,   \* cancel.cancelled
  abandoned,   \* history: the workflow's own timeout left it running
  row          \* the final state of the scan_runs row, and its cost_usd

callVars == <<detecting, flying, writing, spent, ledger, failed>>
vars == <<home, stage, held, seen, callVars, unrecorded, cancelled, abandoned, row>>

Stages == {"queued", "started", "scanning", "refused", "returned", "settled"}
Codes == {"open", "not_scanned", "scanned", "spend_unrecorded", "comment_refused", "timed_out",
          "internal_error"}

TypeOK ==
  /\ home \in [Scan -> Process]
  /\ stage \in [Scan -> Stages]
  /\ held \in [Scan -> BOOLEAN]
  /\ seen \in [Scan -> Nat]
  /\ detecting \in [Scan -> BOOLEAN]
  /\ flying \in [Scan -> 0..MaxInFlight]
  /\ writing \in [Scan -> 0..MaxInFlight]
  /\ spent \in [Scan -> 0..MaxCalls]
  /\ ledger \in [Scan -> 0..MaxCalls]
  /\ failed \in [Scan -> BOOLEAN]
  /\ unrecorded \in [Scan -> BOOLEAN]
  /\ cancelled \in [Scan -> BOOLEAN]
  /\ abandoned \in [Scan -> BOOLEAN]
  /\ row \in [Scan -> [code : Codes, cost : 0..MaxCalls]]

-----------------------------------------------------------------------------
\* The cost_ledger rows of some scans, and their sum, as checkBudget reads it.
LedgerRows(S) == {r \in S \X (1..MaxCalls) : r[2] <= ledger[r[1]]}

LedgerOf(S) == Cardinality(LedgerRows(S))

\* The chain for this installation, in the queue of the scan's process, lets
\* it start.
KeyFree(s) == \A r \in Scan : home[r] = home[s] => ~held[r]

\* The other scans of its process.
Neighbours(s) == {r \in Scan \ {s} : home[r] = home[s]}

\* callClaude's refusals: before a call, and again before every retry.
MayCallMutant(s) == detecting[s] /\ ~cancelled[s]
MayCallLateMutant(s) == detecting[s] /\ ~failed[s]
MayCall(s) == detecting[s] /\ ~failed[s] /\ ~cancelled[s]

\* Nothing the scan paid for, or may be asked to pay, is under way.
Quiet(s) == flying[s] = 0 /\ writing[s] = 0

\* The hold on a cancelled scan's slot outlasts its calls.
HoldExpiredMutant(s) == cancelled[s]
HoldExpired(s) == cancelled[s] /\ Quiet(s)

\* scannedOutcome: the workflow's outcome, or that spend was lost.
Outcome(s) ==
  CASE stage[s] = "refused" -> "not_scanned"
    [] unrecorded[s]        -> "spend_unrecorded"
    [] OTHER                -> "scanned"

\* The catch branch of the comment's post: what GitHub refused is told before
\* anything the workflow says, but a skipped scan stays skipped.
RefusedOutcome(s) == IF stage[s] = "refused" THEN "not_scanned" ELSE "comment_refused"

\* onDeadline reads the cost context too: the workflow may never return.
DeadlineCodeMutant(s) == IF unrecorded[s] THEN "spend_unrecorded" ELSE "timed_out"
DeadlineCode(s) ==
  IF unrecorded[s] \/ failed[s] THEN "spend_unrecorded" ELSE "timed_out"

\* finishOnce.
CloseRow(s, code, cost) ==
  row' = [row EXCEPT ![s] = IF @.code = "open" THEN [code |-> code, cost |-> cost] ELSE @]

-----------------------------------------------------------------------------
Init ==
  /\ home \in [Scan -> Process]
  /\ stage = [s \in Scan |-> "queued"]
  /\ held = [s \in Scan |-> FALSE]
  /\ seen = [s \in Scan |-> 0]
  /\ detecting = [s \in Scan |-> FALSE]
  /\ flying = [s \in Scan |-> 0]
  /\ writing = [s \in Scan |-> 0]
  /\ spent = [s \in Scan |-> 0]
  /\ ledger = [s \in Scan |-> 0]
  /\ failed = [s \in Scan |-> FALSE]
  /\ unrecorded = [s \in Scan |-> FALSE]
  /\ cancelled = [s \in Scan |-> FALSE]
  /\ abandoned = [s \in Scan |-> FALSE]
  /\ row = [s \in Scan |-> [code |-> "open", cost |-> 0]]

Start(s) ==
  /\ stage[s] = "queued"
  /\ KeyFree(s)
  /\ stage' = [stage EXCEPT ![s] = "started"]
  /\ held' = [held EXCEPT ![s] = TRUE]
  /\ UNCHANGED <<home, seen, callVars, unrecorded, cancelled, abandoned, row>>

\* checkBudget could be read, and the installation is under its cap.
PassGate(s) ==
  /\ stage[s] = "started"
  /\ LedgerOf(Scan) \in 0..(Cap - 1)
  /\ seen' = [seen EXCEPT ![s] = LedgerOf(Neighbours(s))]
  /\ stage' = [stage EXCEPT ![s] = "scanning"]
  /\ detecting' = [detecting EXCEPT ![s] = TRUE]
  /\ UNCHANGED <<home, held, flying, writing, spent, ledger, failed, unrecorded,
                 cancelled, abandoned, row>>

\* The cap is reached, the budget could not be verified, or markRunning
\* failed: nothing is scanned.
RefuseScan(s) ==
  /\ stage[s] = "started"
  /\ stage' = [stage EXCEPT ![s] = "refused"]
  /\ UNCHANGED <<home, held, seen, callVars, unrecorded, cancelled, abandoned, row>>

StartCall(s) ==
  /\ MayCall(s)
  /\ flying[s] + writing[s] < MaxInFlight
  /\ spent[s] + flying[s] < MaxCalls
  /\ flying' = [flying EXCEPT ![s] = @ + 1]
  /\ UNCHANGED <<home, stage, held, seen, detecting, writing, spent, ledger, failed,
                 unrecorded, cancelled, abandoned, row>>

\* An error, or the call's own timeout: nothing is counted.
CallFails(s) ==
  /\ flying[s] > 0
  /\ flying' = [flying EXCEPT ![s] = @ - 1]
  /\ UNCHANGED <<home, stage, held, seen, detecting, writing, spent, ledger, failed,
                 unrecorded, cancelled, abandoned, row>>

\* The answer arrived: addScanSpend, and recordCost is called.
CallPaid(s) ==
  /\ flying[s] > 0
  /\ flying' = [flying EXCEPT ![s] = @ - 1]
  /\ writing' = [writing EXCEPT ![s] = @ + 1]
  /\ spent' = [spent EXCEPT ![s] = @ + 1]
  /\ UNCHANGED <<home, stage, held, seen, detecting, ledger, failed, unrecorded,
                 cancelled, abandoned, row>>

\* recordCost inserted the call's cost_ledger row.
RecordMutant(s) ==
  /\ writing[s] > 0
  /\ ledger' = [ledger EXCEPT ![s] = @ + 1]
  /\ UNCHANGED <<home, stage, held, seen, detecting, flying, writing, spent, failed,
                 unrecorded, cancelled, abandoned, row>>
Record(s) ==
  /\ writing[s] > 0
  /\ writing' = [writing EXCEPT ![s] = @ - 1]
  /\ ledger' = [ledger EXCEPT ![s] = @ + 1]
  /\ UNCHANGED <<home, stage, held, seen, detecting, flying, spent, failed, unrecorded,
                 cancelled, abandoned, row>>

\* The ledger write failed: markLedgerWriteFailed.
Lose(s) ==
  /\ writing[s] > 0
  /\ writing' = [writing EXCEPT ![s] = @ - 1]
  /\ failed' = [failed EXCEPT ![s] = TRUE]
  /\ UNCHANGED <<home, stage, held, seen, detecting, flying, spent, ledger, unrecorded,
                 cancelled, abandoned, row>>

\* The workflow settles, having awaited its calls; the handler, if it still
\* waits, takes over what the cost context knows.
EndWorkflow(s) ==
  /\ detecting[s]
  /\ Quiet(s)
  /\ detecting' = [detecting EXCEPT ![s] = FALSE]
  /\ IF stage[s] = "scanning"
     THEN /\ stage' = [stage EXCEPT ![s] = "returned"]
          /\ unrecorded' = [unrecorded EXCEPT ![s] = failed[s]]
     ELSE UNCHANGED <<stage, unrecorded>>
  /\ UNCHANGED <<home, held, seen, flying, writing, spent, ledger, failed, cancelled,
                 abandoned, row>>

\* The workflow's own timeout: the handler goes on, and so do the calls.
WorkflowTimeout(s) ==
  /\ stage[s] = "scanning"
  /\ stage' = [stage EXCEPT ![s] = "returned"]
  /\ unrecorded' = [unrecorded EXCEPT ![s] = failed[s]]
  /\ abandoned' = [abandoned EXCEPT ![s] = TRUE]
  /\ UNCHANGED <<home, held, seen, callVars, cancelled, row>>

\* The scan has left the queue's task: its slot is given back unless it
\* leaked before.
Leave(s) ==
  /\ stage' = [stage EXCEPT ![s] = "settled"]
  /\ held' = [held EXCEPT ![s] = FALSE]
  /\ UNCHANGED <<home, seen, callVars, unrecorded, cancelled, abandoned>>

\* The outcome is decided, with the spend so far, and the row closed unless
\* the deadline did.
Settle(s) ==
  /\ stage[s] \in {"refused", "returned"}
  /\ CloseRow(s, Outcome(s), spent[s])
  /\ Leave(s)

\* The same, but GitHub refused the comment (GitHubApiError).
RefuseComment(s) ==
  /\ stage[s] \in {"refused", "returned"}
  /\ CloseRow(s, RefusedOutcome(s), spent[s])
  /\ Leave(s)

\* The handler threw before it decided an outcome (no token; a network error
\* while the comment is posted): the finally block closes the row with an
\* empty outcome.
Throw(s) ==
  /\ stage[s] \in {"started", "refused", "returned"}
  /\ CloseRow(s, "internal_error", 0)
  /\ Leave(s)

\* The scan's deadline: later calls are refused, the row is closed.
Deadline(s) ==
  /\ stage[s] \notin {"queued", "settled"}
  /\ ~cancelled[s]
  /\ cancelled' = [cancelled EXCEPT ![s] = TRUE]
  /\ CloseRow(s, DeadlineCode(s), spent[s])
  /\ UNCHANGED <<home, stage, held, seen, callVars, unrecorded, abandoned>>

Leak(s) ==
  /\ held[s]
  /\ HoldExpired(s)
  /\ held' = [held EXCEPT ![s] = FALSE]
  /\ UNCHANGED <<home, stage, seen, callVars, unrecorded, cancelled, abandoned, row>>

Next ==
  \E s \in Scan :
    \/ Start(s) \/ PassGate(s) \/ RefuseScan(s)
    \/ StartCall(s) \/ CallFails(s) \/ CallPaid(s) \/ Record(s) \/ Lose(s)
    \/ EndWorkflow(s) \/ WorkflowTimeout(s) \/ Settle(s) \/ RefuseComment(s) \/ Throw(s)
    \/ Deadline(s) \/ Leak(s)

Spec == Init /\ [][Next]_vars

-----------------------------------------------------------------------------
(* Properties *)

Closed(s) == row[s].code # "open"

\* Closed with an outcome somebody decided.
Decided(s) == row[s].code \notin {"open", "internal_error"}

NoneAbandoned == \A s \in Scan : ~abandoned[s]

\* A failed ledger write stops the scan: what the cap never sees is at most
\* the calls that were under way together when the first write failed.
LossIsBounded ==
  \A s \in Scan : spent[s] <= ledger[s] + writing[s] + MaxInFlight

\* The cost_usd of a row with a decided outcome is the scan's spend; only a
\* scan that hit its deadline spends after its row is closed, and only with
\* the calls then in flight.
SpendAfterClosingIsBounded ==
  \A s \in Scan : Decided(s) /\ ~abandoned[s] =>
    spent[s] <= row[s].cost + (IF cancelled[s] THEN MaxInFlight ELSE 0)

\* A ledger write that failed shows on the row whoever closes it with a
\* decided outcome: cost_usd is more than the ledger has of the scan, and the
\* code is spend_unrecorded, unless GitHub refused the comment, which
\* overrides it.  In particular the deadline never calls such a scan timed
\* out, and finished work never calls it scanned.
LostSpendIsOnTheRow ==
  [][\A s \in Scan :
       ~Closed(s) /\ Decided(s)' /\ failed[s] /\ ~abandoned[s] =>
         /\ row'[s].cost > ledger[s] + writing[s]
         /\ row'[s].code \in {"spend_unrecorded", "comment_refused"}
         /\ row'[s].code = "comment_refused" => ~cancelled'[s]]_vars

\* What the budget gate read of a running scan's own process is still true of
\* it (src/lib/scan-queue.ts: "Running them one after another makes each
\* budget read see the previous scan's ledger rows"), and so the cap is
\* overshot by less than one scan for every process that scans for the
\* installation: one, or two in a deploy.  As long as no workflow was
\* abandoned.
BudgetReadIsCurrent(s) ==
  held[s] /\ stage[s] \in {"scanning", "returned"} => LedgerOf(Neighbours(s)) = seen[s]

Homes == {home[s] : s \in Scan}

CapOvershotByAScanPerProcess ==
  NoneAbandoned =>
    /\ \A s \in Scan : BudgetReadIsCurrent(s)
    /\ LedgerOf(Scan) < Cap + Cardinality(Homes) * MaxCalls

\* What emptyOutcome says of itself in src/services/scan-run-store.ts: "An
\* outcome with nothing counted: the scan did not run, or ran nothing."
NothingCountedMeansNothingRan ==
  \A s \in Scan : row[s].code = "internal_error" => spent[s] = 0

-----------------------------------------------------------------------------
(* The inductive invariant. *)

\* Until a ledger write fails, every counted call is in the ledger or on its
\* way; from then on no call starts, and those under way are all that can be
\* lost.
AccountsOf(s) ==
  /\ flying[s] + writing[s] <= MaxInFlight
  /\ spent[s] + flying[s] <= MaxCalls
  /\ ledger[s] + writing[s] <= spent[s]
  /\ ~failed[s] => spent[s] = ledger[s] + writing[s]
  /\ failed[s] => /\ spent[s] > ledger[s] + writing[s]
                  /\ spent[s] + flying[s] <= ledger[s] + MaxInFlight

Accounts == \A s \in Scan : AccountsOf(s)

\* Nothing is spent before the gate, and nothing after the workflow has
\* returned, unless its own timeout abandoned it.
SpendOnlyInTheWorkflow ==
  \A s \in Scan :
    /\ stage[s] \in {"queued", "started", "refused"} => ~failed[s] /\ ~abandoned[s]
    /\ stage[s] # "scanning" /\ ~abandoned[s] => ~detecting[s] /\ Quiet(s)
    /\ stage[s] = "returned" /\ ~abandoned[s] => unrecorded[s] = failed[s]

\* The deadline closes the row at once, and only the end of the work does so
\* without it.
RowCounts ==
  \A s \in Scan :
    /\ cancelled[s] => Closed(s)
    /\ Closed(s) /\ ~cancelled[s] => stage[s] = "settled"
    /\ Decided(s) /\ cancelled[s] => spent[s] + flying[s] <= row[s].cost + MaxInFlight
    /\ Decided(s) /\ ~cancelled[s] /\ ~abandoned[s] => spent[s] = row[s].cost

IInv ==
  /\ TypeOK
  /\ Accounts
  /\ SpendOnlyInTheWorkflow
  /\ RowCounts

\* One scan of the installation at a time has a process's slot, and only with
\* the slot does a scan spend; one that gave it up makes no further call.
SpendOnlyWithTheSlot ==
  /\ \A s, r \in Scan : held[s] /\ held[r] /\ home[s] = home[r] => s = r
  /\ \A s \in Scan :
       /\ stage[s] \in {"queued", "started", "refused"} => spent[s] = 0
       /\ ~held[s] => Quiet(s) /\ (stage[s] \in {"queued", "settled"} \/ cancelled[s])

\* The rows there are, and those that the running scans may still add.
Running(s) == held[s] /\ stage[s] \in {"scanning", "returned"}
Claimed == {r \in Scan \X (1..MaxCalls) : r[2] <= ledger[r[1]] \/ Running(r[1])}

CapInv ==
  NoneAbandoned =>
    /\ SpendOnlyWithTheSlot
    /\ \A s \in Scan : BudgetReadIsCurrent(s)
    /\ Cardinality(Claimed) < Cap + Cardinality(Homes) * MaxCalls

=============================================================================
