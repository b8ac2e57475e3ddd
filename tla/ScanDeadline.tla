---------------------------- MODULE ScanDeadline ----------------------------
(***************************************************************************)
(* A scan between its place in the queue and its answer: the deadline, the *)
(* cancellation of its model calls, the bounded hold on its queue slot     *)
(* (src/lib/scan-deadline.ts), the row that is closed exactly once         *)
(* (runAccepted in src/integrations/github/pr-webhook-handler.ts), and the *)
(* workflow with a timeout of its own that is not a cancellation           *)
(* (runAuditorWorkflow in src/workflows/auditor-workflow.ts).              *)
(*                                                                         *)
(* The queue is KeyedSlots, which ScanQueue implements.  Time is           *)
(* abstracted to the order in which timers may fire: a scan's deadline     *)
(* after its work has started, the hold on its slot after the deadline     *)
(* unless the grace is zero, and, with the default grace, not before the   *)
(* model calls in flight at the deadline have ended (their timeouts in     *)
(* src/config/models.ts are far shorter than the grace).                   *)
(***************************************************************************)
EXTENDS Naturals, FiniteSets

CONSTANTS
  Scan,            \* accepted scans
  Key,             \* installations
  KeyOf,           \* the installation of each scan
  MaxConcurrent,   \* MAX_CONCURRENT_SCANS
  MaxCalls,        \* bound on the model calls a scan has in flight at once
  ZeroGrace        \* scans whose graceMs is 0; the default is the deadline

ASSUME DeadlineAssumption ==
  /\ IsFiniteSet(Scan)
  /\ KeyOf \in [Scan -> Key]
  /\ MaxConcurrent \in Nat \ {0}
  /\ MaxCalls \in Nat \ {0}
  /\ ZeroGrace \subseteq Scan

VARIABLES
  stage, ticket, clock,  \* the queue (KeyedSlots)
  work,        \* how far scanDelivery has come
  detecting,   \* executeWorkflow's promise is pending: it may start model calls
  calls,       \* model calls in flight
  cancelled,   \* cancel.cancelled
  row,         \* run.finished, and who set it
  answer       \* what withScanDeadline's promise resolved with

queueVars == <<stage, ticket, clock>>
workVars == <<work, detecting, calls>>
vars == <<queueVars, workVars, cancelled, row, answer>>

Queue == INSTANCE KeyedSlots WITH Task <- Scan

\* "before" is everything up to the workflow (token, budget, fetches),
\* "after" everything from the workflow's return to the outcome (comment,
\* reports), "closing" the finally block that closes the row.
Works == {"none", "before", "workflow", "after", "closing", "settled"}

Answers == {"none", "closing", "timed_out", "result"}

TypeOK ==
  /\ stage \in [Scan -> Queue!Stages]
  /\ ticket \in [Scan -> Nat]
  /\ clock \in Nat
  /\ work \in [Scan -> Works]
  /\ detecting \in [Scan -> BOOLEAN]
  /\ calls \in [Scan -> 0..MaxCalls]
  /\ cancelled \in [Scan -> BOOLEAN]
  /\ row \in [Scan -> {"open", "closed_by_work", "closed_by_deadline"}]
  /\ answer \in [Scan -> Answers]

-----------------------------------------------------------------------------
(* What the code tests. *)

Started(s) == work[s] # "none"
Unsettled(s) == work[s] \notin {"none", "settled"}

\* callClaude would let this scan start a model call.
MayCallMutant(s) == detecting[s]
MayCall(s) == detecting[s] /\ ~cancelled[s]

\* The hold's timer is pending: the task still has its slot.
SlotHeld(s) == stage[s] = "active"

\* The hold's timer is due.
HoldExpiredMutant(s) == FALSE
HoldExpired(s) == s \in ZeroGrace \/ (answer[s] # "none" /\ calls[s] = 0)

\* finishOnce: whoever comes first closes the row.
CloseRowAs(s, who) == row' = [row EXCEPT ![s] = IF @ = "open" THEN who ELSE @]

\* fireDeadline, once: the flag, then onDeadline closes the row and answers.
TimeOutMutant(s) ==
  /\ answer' = [answer EXCEPT ![s] = "closing"]
  /\ UNCHANGED cancelled
TimeOut(s) ==
  /\ answer' = [answer EXCEPT ![s] = "closing"]
  /\ cancelled' = [cancelled EXCEPT ![s] = TRUE]

\* What the deadline race makes of a task that left the queue: nothing if
\* the caller is answered, the timed-out path if the slot only leaked.
LeakedTaskMutant(s) ==
  /\ answer' = [answer EXCEPT ![s] = "result"]
  /\ UNCHANGED cancelled
LeakedTask(s) ==
  IF answer[s] = "none" THEN TimeOut(s) ELSE UNCHANGED <<answer, cancelled>>

-----------------------------------------------------------------------------
Init ==
  /\ Queue!Init
  /\ work = [s \in Scan |-> "none"]
  /\ detecting = [s \in Scan |-> FALSE]
  /\ calls = [s \in Scan |-> 0]
  /\ cancelled = [s \in Scan |-> FALSE]
  /\ row = [s \in Scan |-> "open"]
  /\ answer = [s \in Scan |-> "none"]

\* queue.run and withScanDeadline are called; nothing is timed yet.
Submit(s) ==
  /\ Queue!Submit(s)
  /\ UNCHANGED <<workVars, cancelled, row, answer>>

\* The queued task runs: clock.started() arms the deadline, and the hold's
\* timer is set.
Start(s) ==
  /\ Queue!Start(s)
  /\ work' = [work EXCEPT ![s] = "before"]
  /\ UNCHANGED <<detecting, calls, cancelled, row, answer>>

\* The gates passed: the workflow starts.
EnterWorkflow(s) ==
  /\ work[s] = "before"
  /\ work' = [work EXCEPT ![s] = "workflow"]
  /\ detecting' = [detecting EXCEPT ![s] = TRUE]
  /\ UNCHANGED <<queueVars, calls, cancelled, row, answer>>

\* callClaude reaches the network (a first attempt or a retry).
StartCall(s) ==
  /\ MayCall(s)
  /\ calls[s] < MaxCalls
  /\ calls' = [calls EXCEPT ![s] = @ + 1]
  /\ UNCHANGED <<queueVars, work, detecting, cancelled, row, answer>>

\* A model call ends: an answer, an error, or its own timeout.
EndCallMutant(s) ==
  /\ detecting[s]
  /\ calls' = [calls EXCEPT ![s] = @ - 1]
  /\ UNCHANGED <<queueVars, work, detecting, cancelled, row, answer>>
EndCall(s) ==
  /\ calls[s] > 0
  /\ calls' = [calls EXCEPT ![s] = @ - 1]
  /\ UNCHANGED <<queueVars, work, detecting, cancelled, row, answer>>

\* executeWorkflow's promise settles: it has awaited every call it made.  The
\* race with the workflow's own timeout decides whether anyone was waiting.
EndWorkflow(s) ==
  /\ detecting[s]
  /\ calls[s] = 0
  /\ detecting' = [detecting EXCEPT ![s] = FALSE]
  /\ work' = [work EXCEPT ![s] = IF @ = "workflow" THEN "after" ELSE @]
  /\ UNCHANGED <<queueVars, calls, cancelled, row, answer>>

\* The workflow's 120 s timeout wins the race: the handler goes on, and
\* executeWorkflow is neither stopped nor awaited.
WorkflowTimeout(s) ==
  /\ work[s] = "workflow"
  /\ work' = [work EXCEPT ![s] = "after"]
  /\ UNCHANGED <<queueVars, detecting, calls, cancelled, row, answer>>

\* scanDelivery returned or threw before or after the workflow: the finally
\* block closes the row unless the deadline already did.
CloseRow(s) ==
  /\ work[s] \in {"before", "after"}
  /\ work' = [work EXCEPT ![s] = "closing"]
  /\ CloseRowAs(s, "closed_by_work")
  /\ UNCHANGED <<queueVars, detecting, calls, cancelled, answer>>

\* The work's promise settles.  A held slot is given back and the queue's
\* promise settles with it; a leaked one is past both.
Settle(s) ==
  /\ work[s] = "closing"
  /\ work' = [work EXCEPT ![s] = "settled"]
  /\ IF SlotHeld(s) THEN Queue!Finish(s) ELSE UNCHANGED queueVars
  /\ answer' = [answer EXCEPT ![s] = IF @ = "none" THEN "result" ELSE @]
  /\ UNCHANGED <<detecting, calls, cancelled, row>>

\* The deadline's timer fires before the scan has settled.
FireDeadline(s) ==
  /\ Started(s)
  /\ answer[s] = "none"
  /\ TimeOut(s)
  /\ UNCHANGED <<queueVars, workVars, row>>

\* onDeadline closes the row, unless the work is doing so, and answers.
AnswerTimedOutMutant(s) ==
  /\ answer[s] = "closing"
  /\ answer' = [answer EXCEPT ![s] = "timed_out"]
  /\ UNCHANGED <<queueVars, workVars, cancelled, row>>
AnswerTimedOut(s) ==
  /\ answer[s] = "closing"
  /\ answer' = [answer EXCEPT ![s] = "timed_out"]
  /\ CloseRowAs(s, "closed_by_deadline")
  /\ UNCHANGED <<queueVars, workVars, cancelled>>

\* The hold's timer fires with the work still running: the slot goes to the
\* next task and the queue's promise resolves with undefined.
LeakSlot(s) ==
  /\ SlotHeld(s)
  /\ Unsettled(s)
  /\ HoldExpired(s)
  /\ Queue!Finish(s)
  /\ LeakedTask(s)
  /\ UNCHANGED <<workVars, row>>

Next ==
  \E s \in Scan :
    \/ Submit(s) \/ Start(s)
    \/ EnterWorkflow(s) \/ StartCall(s) \/ EndCall(s) \/ EndWorkflow(s)
    \/ WorkflowTimeout(s) \/ CloseRow(s) \/ Settle(s)
    \/ FireDeadline(s) \/ AnswerTimedOut(s) \/ LeakSlot(s)

\* Timers fire, the queue starts what it can, a model call ends by its own
\* timeout and the row's last write settles.  Nothing else is assumed: the
\* work itself may hang for ever on a fetch that never returns.
Fairness ==
  \A s \in Scan :
    /\ WF_vars(Start(s))
    /\ WF_vars(EndCall(s))
    /\ WF_vars(FireDeadline(s))
    /\ WF_vars(AnswerTimedOut(s))
    /\ WF_vars(LeakSlot(s))

Spec == Init /\ [][Next]_vars

FairSpec == Spec /\ Fairness

-----------------------------------------------------------------------------
(* Properties *)

\* A slot leaves an unfinished scan only if that scan's model calls are
\* refused: whatever order timers, calls and completions come in, nothing
\* that is still allowed to spend runs on a slot the queue gave away.
OnlyCancelledScansLoseTheirSlot ==
  \A s \in Scan : Unsettled(s) /\ ~SlotHeld(s) => cancelled[s]

\* With the default grace no model call is in flight on a given-away slot as
\* long as the workflow's own timeout did not abandon it.
NoCallOutlivesTheSlot ==
  \A s \in Scan \ ZeroGrace :
    calls[s] > 0 /\ work[s] = "workflow" => SlotHeld(s)

\* The caller is told "timed out" exactly when the scan was cancelled, never
\* the empty value of a leaked slot, and never a result of unfinished work.
AnswerMatchesTheScan ==
  \A s \in Scan :
    /\ answer[s] = "result" => work[s] = "settled" /\ ~cancelled[s]
    /\ answer[s] \in {"closing", "timed_out"} <=> cancelled[s]

\* When the caller is answered the row is closed, once: closed by the
\* deadline only for a scan that was cancelled, and never changed again by
\* the work that goes on behind it.
RowClosedBeforeAnswer ==
  \A s \in Scan :
    /\ answer[s] \in {"result", "timed_out"} => row[s] # "open"
    /\ row[s] = "closed_by_deadline" => cancelled[s]

\* Every accepted scan starts and every caller is answered, though any
\* number of scans may hang: the deadline answers and the hold's bound
\* hands the slot on.
EveryScanIsAnswered ==
  \A s \in Scan : stage[s] = "pending" ~> answer[s] \in {"result", "timed_out"}

\* What the header of src/lib/scan-deadline.ts says: "The bound of
\* MAX_CONCURRENT_SCANS thus holds for every scan that can start a model
\* call; only a cancelled task can ever exceed it."
BoundHoldsForEveryScanThatMayCall ==
  Cardinality({s \in Scan : MayCall(s)}) <= MaxConcurrent

-----------------------------------------------------------------------------
(* The inductive invariant. *)

\* The work runs exactly from the moment the queue starts it, and when it has
\* settled the slot is gone and the caller has an answer.
WorkFollowsTheQueue ==
  \A s \in Scan :
    /\ work[s] = "none" <=> stage[s] \in {"idle", "pending"}
    /\ work[s] = "settled" => stage[s] = "finished" /\ answer[s] # "none"

\* The finally block has run before the work's promise settles.
WorkClosesTheRow ==
  \A s \in Scan : work[s] \in {"closing", "settled"} => row[s] # "open"

\* Only the workflow makes model calls.
NoCallBeforeTheWorkflow ==
  \A s \in Scan : work[s] \in {"none", "before"} => ~detecting[s] /\ calls[s] = 0

IInv ==
  /\ TypeOK
  /\ WorkFollowsTheQueue
  /\ WorkClosesTheRow
  /\ NoCallBeforeTheWorkflow
  /\ NoCallOutlivesTheSlot
  /\ OnlyCancelledScansLoseTheirSlot
  /\ AnswerMatchesTheScan
  /\ RowClosedBeforeAnswer

=============================================================================
