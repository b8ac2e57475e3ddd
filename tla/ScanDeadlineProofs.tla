------------------------- MODULE ScanDeadlineProofs -------------------------
(* What ScanDeadline's deadline, hold and write-once row guarantee, for any  *)
(* number of scans, keys, slots and calls, and for either grace.             *)
EXTENDS ScanDeadline, TLAPS

\* No answer, no slot and no row before anything was accepted.
LEMMA InitIInv == Init => IInv
  BY DeadlineAssumption DEF Init, IInv, TypeOK, WorkFollowsTheQueue, WorkClosesTheRow,
     NoCallBeforeTheWorkflow, NoCallOutlivesTheSlot, OnlyCancelledScansLoseTheirSlot, AnswerMatchesTheScan, RowClosedBeforeAnswer,
     Queue!Init, Queue!Stages, Works, Answers, Unsettled, SlotHeld

\* Every step of one scan keeps the invariant, whatever the others do.
LEMMA NextIInv == IInv /\ [Next]_vars => IInv'
<1> SUFFICES ASSUME IInv, [Next]_vars PROVE IInv'
  OBVIOUS
<1> USE DeadlineAssumption DEF IInv, TypeOK, WorkFollowsTheQueue, WorkClosesTheRow,
      NoCallBeforeTheWorkflow, NoCallOutlivesTheSlot, OnlyCancelledScansLoseTheirSlot, AnswerMatchesTheScan, RowClosedBeforeAnswer,
      Queue!Stages, Works, Answers, Unsettled, SlotHeld, vars, queueVars, workVars
<1>1. ASSUME NEW s \in Scan, Submit(s) PROVE IInv'
  BY <1>1 DEF Submit, Queue!Submit
<1>2. ASSUME NEW s \in Scan, Start(s) PROVE IInv'
  BY <1>2 DEF Start, Queue!Start
<1>3. ASSUME NEW s \in Scan, EnterWorkflow(s) PROVE IInv'
  BY <1>3 DEF EnterWorkflow
<1>4. ASSUME NEW s \in Scan, StartCall(s) PROVE IInv'
  BY <1>4 DEF StartCall, MayCall
<1>5. ASSUME NEW s \in Scan, EndCall(s) PROVE IInv'
  BY <1>5 DEF EndCall
<1>6. ASSUME NEW s \in Scan, EndWorkflow(s) PROVE IInv'
  BY <1>6 DEF EndWorkflow
<1>7. ASSUME NEW s \in Scan, WorkflowTimeout(s) PROVE IInv'
  BY <1>7 DEF WorkflowTimeout
<1>8. ASSUME NEW s \in Scan, CloseRow(s) PROVE IInv'
  BY <1>8 DEF CloseRow, CloseRowAs
<1>9. ASSUME NEW s \in Scan, Settle(s) PROVE IInv'
  BY <1>9 DEF Settle, Queue!Finish
<1>10. ASSUME NEW s \in Scan, FireDeadline(s) PROVE IInv'
  BY <1>10 DEF FireDeadline, TimeOut, Started
<1>11. ASSUME NEW s \in Scan, AnswerTimedOut(s) PROVE IInv'
  BY <1>11 DEF AnswerTimedOut, CloseRowAs
<1>12. ASSUME NEW s \in Scan, LeakSlot(s) PROVE IInv'
  <2>1. /\ stage' = [stage EXCEPT ![s] = "finished"]
        /\ UNCHANGED <<ticket, clock, work, detecting, calls, row>>
        /\ stage[s] = "active" /\ work[s] \notin {"none", "settled"}
    BY <1>12 DEF LeakSlot, Queue!Finish
  <2>2. CASE answer[s] = "none"
    <3>1. /\ answer' = [answer EXCEPT ![s] = "closing"]
          /\ cancelled' = [cancelled EXCEPT ![s] = TRUE]
      BY <1>12, <2>2 DEF LeakSlot, LeakedTask, TimeOut
    <3>2. TypeOK' /\ WorkFollowsTheQueue' /\ WorkClosesTheRow'
      BY <2>1, <2>2, <3>1
    <3>3. NoCallBeforeTheWorkflow' /\ NoCallOutlivesTheSlot'
      BY <1>12, <2>1, <2>2 DEF LeakSlot, HoldExpired
    <3>4. OnlyCancelledScansLoseTheirSlot' /\ AnswerMatchesTheScan' /\ RowClosedBeforeAnswer'
      BY <2>1, <2>2, <3>1
    <3>5. QED
      BY <3>2, <3>3, <3>4
  <2>3. CASE answer[s] # "none"
    \* The caller was answered before, by the deadline: the work is not settled.
    <3>1. UNCHANGED <<answer, cancelled>> /\ cancelled[s]
      BY <1>12, <2>1, <2>3 DEF LeakSlot, LeakedTask
    <3>2. NoCallBeforeTheWorkflow' /\ NoCallOutlivesTheSlot'
      BY <1>12, <2>1 DEF LeakSlot, HoldExpired
    <3>3. QED
      BY <2>1, <3>1, <3>2
  <2>4. QED
    BY <2>2, <2>3
<1>13. CASE UNCHANGED vars
  BY <1>13
<1>14. QED
  BY <1>1, <1>2, <1>3, <1>4, <1>5, <1>6, <1>7, <1>8, <1>9, <1>10, <1>11, <1>12, <1>13 DEF Next

\* The invariant holds in every reachable state.
THEOREM Inductive == Spec => []IInv
  BY InitIInv, NextIInv, PTL DEF Spec

\* Type correctness.
THEOREM TypeCorrect == Spec => []TypeOK
<1>1. IInv => TypeOK
  BY DEF IInv
<1>2. QED
  BY Inductive, <1>1, PTL

\* A slot is handed on only from a settled or a cancelled scan
\* (holdSlotUntilSettled, withScanDeadline).
THEOREM SlotsFromCancelledScans == Spec => []OnlyCancelledScansLoseTheirSlot
<1>1. IInv => OnlyCancelledScansLoseTheirSlot
  BY DEF IInv
<1>2. QED
  BY Inductive, <1>1, PTL

\* No model call is in flight on a slot that was handed on, unless the grace
\* is zero or the workflow was abandoned (holdSlotUntilSettled, callClaude).
THEOREM CallsEndBeforeTheSlot == Spec => []NoCallOutlivesTheSlot
<1>1. IInv => NoCallOutlivesTheSlot
  BY DEF IInv
<1>2. QED
  BY Inductive, <1>1, PTL

\* The caller's answer tells what became of the scan (withScanDeadline).
THEOREM TruthfulAnswers == Spec => []AnswerMatchesTheScan
<1>1. IInv => AnswerMatchesTheScan
  BY DEF IInv
<1>2. QED
  BY Inductive, <1>1, PTL

\* Whoever is answered has a closed row (runAccepted).
THEOREM RowsBeforeAnswers == Spec => []RowClosedBeforeAnswer
<1>1. IInv => RowClosedBeforeAnswer
  BY DEF IInv
<1>2. QED
  BY Inductive, <1>1, PTL

=============================================================================
