--------------------------- MODULE ScanRunsProofs ---------------------------
(* What the scan_runs rows guarantee across process deaths, for any number  *)
(* of deliveries, pull requests and process starts, any sweep limit, with   *)
(* or without overlapping processes and failing calls.                      *)
EXTENDS ScanRuns, WellFoundedInduction, TLAPS

\* The invariant without the typing.
Consistent ==
  /\ ProcessesInOrder
  /\ RowsDated
  /\ SweepsAlone
  /\ AttemptsDated
  /\ MarkedIsLatest
  /\ ScansBudgeted
  /\ OneAttemptAtATime
  /\ NoRerunPastALaterRow

-----------------------------------------------------------------------------
(* The sweep's CHOOSE always finds a row. *)

\* A list of rows that is not empty has an oldest one (Current).
LEMMA CurrentIsListed ==
  ASSUME TypeOK, NEW p \in Process, todo[p] # {}
  PROVE  /\ Current(p) \in todo[p]
         /\ Oldest(p, Current(p))
<1> DEFINE Times == {startedAt[r.of] : r \in todo[p]}
<1>1. todo[p] \subseteq Row /\ \A r \in todo[p] : startedAt[r.of] \in Nat
  BY DEF TypeOK, Row
<1>2. Times \subseteq Nat /\ Times # {}
  BY <1>1
<1> HIDE DEF Times
<1>3. PICK m \in Times : \A n \in Times : ~(<<n, m>> \in OpToRel(<, Nat))
  BY <1>2, WFMin, NatLessThanWellFounded
<1>4. \A n \in Times : ~(n < m)
  BY <1>2, <1>3, Zenon DEF OpToRel
<1>5. PICK r \in todo[p] : startedAt[r.of] = m
  BY <1>3 DEF Times
<1>6. \A q \in todo[p] : startedAt[r.of] <= startedAt[q.of]
  <2> SUFFICES ASSUME NEW q \in todo[p] PROVE startedAt[r.of] <= startedAt[q.of]
    OBVIOUS
  <2>1. startedAt[q.of] \in Times
    BY DEF Times
  <2>2. QED
    BY <1>1, <1>2, <1>4, <1>5, <2>1
<1>7. QED
  BY <1>5, <1>6, Zenon DEF Current, Oldest

-----------------------------------------------------------------------------
(* Steps that only let go of something. *)

\* No row appears, no process starts or dies, and nobody takes up a delivery
\* or a row: what most steps of a scan and of a sweep have in common.
Quieter ==
  /\ UNCHANGED <<clock, startedAt, mode, bornAt, scans>>
  /\ \A q \in Process :
       /\ todo'[q] \subseteq todo[q]
       /\ sweep'[q] = "marking" => sweep[q] = "marking" /\ todo'[q] = todo[q]
  /\ \A e \in Delivery :
       /\ status'[e] = "none" <=> status[e] = "none"
       /\ ScansLeft(e)' <= ScansLeft(e)
  /\ \A q \in Process : \A e \in Delivery :
       \/ stage'[q][e] = stage[q][e]
       \/ Up(q) /\ stage'[q][e] \in {"none", "unrecorded"}
       \/ /\ Attempting(q, e)
          /\ stage'[q][e] \in {"accepted", "queued"} => stage[q][e] \in {"accepted", "queued"}

\* Such a step keeps the invariant.
LEMMA QuietStep ==
  ASSUME IInv, TypeOK', Quieter
  PROVE  Consistent'
<1> USE RunsAssumption DEF IInv
<1>1. UNCHANGED <<clock, startedAt, mode, bornAt, scans>>
  BY DEF Quieter
<1>2. \A q \in Process : \A e \in Delivery : Attempting(q, e)' => Attempting(q, e)
  BY <1>1 DEF Quieter, Attempting, Up
<1>3. \A e \in Delivery : status'[e] # "none" <=> status[e] # "none"
  BY DEF Quieter
<1>4. ProcessesInOrder'
  BY <1>1 DEF ProcessesInOrder, Quieter, Attempting, Up, TypeOK
<1>5. RowsDated'
  BY <1>1, <1>3 DEF RowsDated
<1>6. SweepsAlone'
  <2>1. \A q \in Process : todo'[q] \subseteq todo[q] /\ todo[q] \subseteq Row
    BY DEF Quieter, TypeOK
  <2>2. \A q \in Process : \A r \in todo[q] : r.of \in Delivery
    BY <2>1 DEF Row
  <2>3. \A q \in Process : PredecessorsGone(q)' <=> PredecessorsGone(q)
    BY <1>1 DEF PredecessorsGone
  <2>4. QED
    BY <1>1, <1>3, <2>1, <2>2, <2>3 DEF SweepsAlone
<1>7. AttemptsDated'
  BY <1>1, <1>2, <1>3 DEF AttemptsDated, PredecessorsGone
<1>8. MarkedIsLatest'
  BY <1>1, <1>3 DEF MarkedIsLatest, Quieter, Oldest, Later
<1>9. ScansBudgeted'
  <2>1. ASSUME NEW e \in Delivery
        PROVE  ScansLeft(e)' \in Nat /\ ScansLeft(e) \in Nat /\ ScansLeft(e)' <= ScansLeft(e)
    BY DEF Quieter, ScansLeft
  <2>2. \A q \in Process : \A e \in Delivery :
          stage'[q][e] \in {"accepted", "queued"} => stage[q][e] \in {"accepted", "queued"}
    BY DEF Quieter
  <2>3. \A e \in Delivery : scans'[e] = scans[e] /\ scans[e] \in Nat
    BY <1>1 DEF TypeOK
  <2>4. QED
    BY <2>1, <2>2, <2>3 DEF ScansBudgeted
<1>10. OneAttemptAtATime'
  BY <1>2 DEF OneAttemptAtATime
<1>11. NoRerunPastALaterRow'
  BY <1>1, <1>2, <1>3 DEF NoRerunPastALaterRow, Retrying, Later
<1>12. QED
  BY <1>4, <1>5, <1>6, <1>7, <1>8, <1>9, <1>10, <1>11 DEF Consistent

-----------------------------------------------------------------------------
(* Typing. *)

\* The rows a sweep handles are deliveries with a listed status.
LEMMA CurrentTyped ==
  ASSUME TypeOK, NEW p \in Process, todo[p] # {}
  PROVE  Current(p).of \in Delivery /\ Current(p).status \in Unfinished
<1>1. todo[p] \subseteq Row
  BY DEF TypeOK
<1>2. QED
  BY <1>1, CurrentIsListed DEF Row

\* The counter and the tables of startedAt and of the processes' births start
\* at zero, and no process is up.
LEMMA InitIInv == Init => IInv
  BY RunsAssumption DEF Init, IInv, TypeOK, ProcessesInOrder, RowsDated, SweepsAlone, AttemptsDated,
     MarkedIsLatest, ScansBudgeted, ScansLeft, OneAttemptAtATime, NoRerunPastALaterRow,
     Attempting, Retrying, Up, Stages, Outcomes, Row, Process

\* Closing a row keeps the column typed.
LEMMA FinishTyped ==
  ASSUME TypeOK, NEW d \in Delivery, NEW final \in Finals,
         FinishRow(d, final) \/ TryFinishRow(d, final)
  PROVE  /\ status' \in [Delivery -> {"none"} \cup Unfinished \cup Finals]
         /\ \A e \in Delivery : (status'[e] = "none" <=> status[e] = "none")
         /\ \A e \in Delivery : ScansLeft(e)' <= ScansLeft(e)
<1> USE DEF Finals, Outcomes, Unfinished
<1>1. CASE FinishRow(d, final)
  <2>1. status \in [Delivery -> {"none"} \cup Unfinished \cup Finals]
    BY DEF TypeOK
  <2>2. status' \in [Delivery -> {"none"} \cup Unfinished \cup Finals]
    BY <1>1, <2>1 DEF FinishRow
  <2>3. \A e \in Delivery : status'[e] = status[e] \/ (status[e] \in Unfinished /\ status'[e] = final)
    BY <1>1, <2>1 DEF FinishRow
  <2>4. \A e \in Delivery : (status'[e] = "none" <=> status[e] = "none")
    BY <2>3
  <2>5. \A e \in Delivery : ScansLeft(e)' <= ScansLeft(e)
    BY <2>3 DEF ScansLeft
  <2>6. QED
    BY <2>2, <2>4, <2>5
<1>2. CASE UNCHANGED status
  BY <1>2 DEF TypeOK, ScansLeft
<1>3. QED
  BY <1>1, <1>2 DEF TryFinishRow

\* So does posting a comment.
LEMMA PostTyped ==
  ASSUME TypeOK, RunsAssumption, NEW d \in Delivery, NEW kind \in {"report", "refusal", "interrupted"},
         PostComment(d, kind)
  PROVE  comment' \in [PullRequest -> [of : Delivery \cup {NoDelivery},
                         kind : {"none", "report", "refusal", "interrupted"}]]
  BY DEF TypeOK, PostComment, RunsAssumption

\* A step of a process keeps every variable's type.
LEMMA NextTypeOK == TypeOK /\ [Next]_vars => TypeOK'
<1> SUFFICES ASSUME TypeOK, [Next]_vars PROVE TypeOK'
  OBVIOUS
<1> USE RunsAssumption DEF rowVars, runVars, sweepVars, procVars
<1>1. ASSUME NEW p \in Process, StartProcess(p) PROVE TypeOK'
  BY <1>1 DEF TypeOK, StartProcess, Stages, Outcomes, Finals, Unfinished
<1>2. ASSUME NEW p \in Process, Die(p) PROVE TypeOK'
  BY <1>2 DEF TypeOK, Die, Stages, Outcomes, Finals, Unfinished
<1>3. ASSUME NEW p \in Process, NEW d \in Delivery, Accept(p, d) PROVE TypeOK'
  BY <1>3 DEF TypeOK, Accept, SetStage, Stages, Outcomes, Finals, Unfinished
<1>4. ASSUME NEW p \in Process, NEW d \in Delivery, AcceptUnrecorded(p, d) PROVE TypeOK'
  BY <1>4 DEF TypeOK, AcceptUnrecorded, SetStage, Stages, Outcomes, Finals, Unfinished
<1>5. ASSUME NEW p \in Process, NEW d \in Delivery, RefuseUnrecorded(p, d) PROVE TypeOK'
  BY <1>5, PostTyped DEF TypeOK, RefuseUnrecorded, SetStage, Stages, Outcomes, Finals, Unfinished
<1>6. ASSUME NEW p \in Process, NEW d \in Delivery, Enqueue(p, d) PROVE TypeOK'
  BY <1>6 DEF TypeOK, Enqueue, SetStage, Stages, Outcomes, Finals, Unfinished
<1>7. ASSUME NEW p \in Process, NEW d \in Delivery, Refuse(p, d) PROVE TypeOK'
  BY <1>7, PostTyped DEF TypeOK, Refuse, SetStage, Stages, Outcomes, Finals, Unfinished
<1>8. ASSUME NEW p \in Process, NEW d \in Delivery, Scan(p, d) PROVE TypeOK'
  BY <1>8 DEF TypeOK, Scan, Running, SetStage, Stages, Outcomes, Finals, Unfinished
<1>9. ASSUME NEW p \in Process, NEW d \in Delivery, Report(p, d) PROVE TypeOK'
  BY <1>9, PostTyped DEF TypeOK, Report, SetStage, Stages, Outcomes, Finals, Unfinished
<1>10. ASSUME NEW p \in Process, NEW d \in Delivery, Fail(p, d) PROVE TypeOK'
  BY <1>10 DEF TypeOK, Fail, SetStage, Stages, Outcomes, Finals, Unfinished
<1>11. ASSUME NEW p \in Process, NEW d \in Delivery, Close(p, d) PROVE TypeOK'
  <2>1. stage[p][d] \in Finals
    BY <1>11 DEF Close, Finals
  <2>2. status' \in [Delivery -> {"none"} \cup Unfinished \cup Finals]
    BY <1>11, <2>1, FinishTyped DEF Close, TypeOK
  <2>3. queue' \in [Process -> Seq(Delivery)]
    BY <1>11 DEF Close, Dequeue, AtHead, TypeOK
  <2>4. QED
    BY <1>11, <2>2, <2>3 DEF TypeOK, Close, SetStage, Stages
<1>12. ASSUME NEW p \in Process, NEW d \in Delivery, TimeOut(p, d) PROVE TypeOK'
  BY <1>12, FinishTyped DEF TypeOK, TimeOut, SetStage, Stages, Outcomes, Finals, Unfinished
<1>13. ASSUME NEW p \in Process, NEW d \in Delivery, Leak(p, d) PROVE TypeOK'
  BY <1>13 DEF TypeOK, Leak, Dequeue, AtHead, SetStage, Stages, Outcomes, Finals, Unfinished
<1>14. ASSUME NEW p \in Process, List(p) PROVE TypeOK'
  <2>1. {[of |-> d, status |-> status[d]] : d \in Listed(p)} \in SUBSET Row
    <3>1. \A d \in Listed(p) : d \in Delivery /\ status[d] \in Unfinished
      BY DEF Listed, Stale
    <3>2. QED
      BY <3>1 DEF Row
  <2>2. QED
    BY <1>14, <2>1 DEF TypeOK, List
<1>15. ASSUME NEW p \in Process, Supersede(p) PROVE TypeOK'
  BY <1>15, CurrentTyped, FinishTyped DEF TypeOK, Supersede, NextRow, AtRow, Stages, Outcomes, Finals, Unfinished
<1>16. ASSUME NEW p \in Process, GiveUp(p) PROVE TypeOK'
  BY <1>16, CurrentTyped, FinishTyped DEF TypeOK, GiveUp, AtRow, Stages, Outcomes, Finals, Unfinished
<1>17. ASSUME NEW p \in Process, Notify(p) PROVE TypeOK'
  BY <1>17, CurrentTyped, PostTyped DEF TypeOK, Notify, NextRow, AtRow, Stages, Outcomes, Finals, Unfinished
<1>18. ASSUME NEW p \in Process, Choose(p) PROVE TypeOK'
  BY <1>18 DEF TypeOK, Choose, Stages, Outcomes, Finals, Unfinished
<1>19. ASSUME NEW p \in Process, MarkRetrying(p) PROVE TypeOK'
  <2> DEFINE d == Current(p).of
  <2>1. d \in Delivery
    BY <1>19, CurrentTyped DEF MarkRetrying, AtRow
  <2> HIDE DEF d
  <2>2. CASE MayRetry(d) /\ status' = [status EXCEPT ![d] = "retrying"] /\ SetStage(p, d, "accepted")
             /\ sweep' = [sweep EXCEPT ![p] = "rerunning"] /\ UNCHANGED todo
    BY <1>19, <2>1, <2>2 DEF TypeOK, MarkRetrying, SetStage, Stages, Unfinished
  <2>3. CASE NextRow(p) /\ UNCHANGED <<status, stage>>
    BY <1>19, <2>3 DEF TypeOK, MarkRetrying, NextRow
  <2>4. QED
    BY <1>19, <2>2, <2>3 DEF MarkRetrying, d
<1>20. ASSUME NEW p \in Process, Rerun(p) PROVE TypeOK'
  BY <1>20 DEF TypeOK, Rerun, NextRow, Stages, Outcomes, Finals, Unfinished
<1>21. ASSUME NEW p \in Process, GoOn(p) PROVE TypeOK'
  BY <1>21 DEF TypeOK, GoOn, NextRow, Stages, Outcomes, Finals, Unfinished
<1>22. CASE UNCHANGED vars
  BY <1>22 DEF TypeOK, vars
<1>23. QED
  BY <1>1, <1>2, <1>3, <1>4, <1>5, <1>6, <1>7, <1>8, <1>9, <1>10, <1>11, <1>12, <1>13, <1>14, <1>15, <1>16, <1>17, <1>18, <1>19, <1>20, <1>21, <1>22 DEF Next

-----------------------------------------------------------------------------
(* The other parts of the invariant. *)

\* What a sweep lists are deliveries.
LEMMA ListedTyped ==
  ASSUME TypeOK
  PROVE  \A p \in Process : \A r \in todo[p] : r.of \in Delivery
<1>1. \A p \in Process : todo[p] \subseteq Row
  BY DEF TypeOK
<1>2. QED
  BY <1>1 DEF Row

\* No row is listed anew or loses its date, and the dead stay dead.
Steady ==
  /\ \A q \in Process : todo'[q] \subseteq todo[q]
  /\ \A q \in Process : todo[q] # {} => bornAt'[q] = bornAt[q]
  /\ \A q \in Process : mode[q] = "gone" => mode'[q] = "gone"
  /\ \A e \in Delivery : status[e] # "none" => status'[e] # "none" /\ startedAt'[e] = startedAt[e]

\* Then a sweep still has only rows older than its process.
LEMMA SweepFrame ==
  ASSUME IInv, Steady
  PROVE  SweepsAlone'
<1>1. \A q \in Process : \A r \in todo[q] : r.of \in Delivery
  BY ListedTyped DEF IInv
<1>2. \A q \in Process : todo'[q] # {} => PredecessorsGone(q)'
  BY DEF Steady, IInv, SweepsAlone, PredecessorsGone
<1>3. \A q \in Process : \A r \in todo'[q] : status'[r.of] # "none" /\ startedAt'[r.of] < bornAt'[q]
  BY <1>1 DEF Steady, IInv, SweepsAlone
<1>4. QED
  BY <1>2, <1>3 DEF SweepsAlone

\* And a row about to be re-run is still the latest, if new rows are new.
LEMMA MarkedFrame ==
  ASSUME IInv, Steady,
         \A q \in Process : sweep'[q] = "marking" => sweep[q] = "marking" /\ todo'[q] = todo[q],
         \A e \in Delivery : status'[e] # "none" => status[e] # "none" \/ startedAt'[e] = clock + 1
  PROVE  MarkedIsLatest'
<1> SUFFICES ASSUME NEW q \in Process, sweep'[q] = "marking", NEW r \in todo'[q], NEW e \in Delivery,
                    Oldest(q, r)', status'[e] # "none", Later(e, r.of)'
             PROVE  startedAt'[e] > bornAt'[q]
  BY DEF MarkedIsLatest
<1>1. \A x \in todo[q] : x.of \in Delivery /\ status[x.of] # "none"
  BY ListedTyped DEF IInv, SweepsAlone
<1>2. r \in todo[q] /\ bornAt'[q] = bornAt[q]
  BY DEF Steady
<1>3. \A x \in todo[q] : startedAt'[x.of] = startedAt[x.of]
  BY <1>1 DEF Steady
<1>4. CASE status[e] = "none"
  BY <1>2, <1>4 DEF IInv, ProcessesInOrder, TypeOK
<1>5. CASE status[e] # "none"
  <2>1. startedAt'[e] = startedAt[e]
    BY <1>5 DEF Steady
  <2>2. Oldest(q, r) /\ Later(e, r.of)
    BY <1>2, <1>3, <2>1 DEF Oldest, Later
  <2>3. QED
    BY <1>2, <1>5, <2>1, <2>2 DEF IInv, MarkedIsLatest
<1>6. QED
  BY <1>4, <1>5

\* A step of a process keeps what the invariant says beyond the typing.
LEMMA NextConsistent == IInv /\ TypeOK' /\ [Next]_vars => Consistent'
<1> SUFFICES ASSUME IInv, TypeOK', [Next]_vars PROVE Consistent'
  OBVIOUS
<1> USE RunsAssumption DEF IInv, rowVars, runVars, sweepVars, procVars
<1>1. ASSUME NEW p \in Process, StartProcess(p) PROVE Consistent'
  <2>1. ProcessesInOrder'
    BY <1>1 DEF StartProcess, ProcessesInOrder, Up, TypeOK, RowsDated, SweepsAlone, AttemptsDated, Row
  <2>2. RowsDated'
    BY <1>1 DEF StartProcess, RowsDated, TypeOK
  <2>3. SweepsAlone'
    <3>1. todo[p] = {} /\ UNCHANGED <<todo, status, startedAt, sweep>>
      BY <1>1 DEF StartProcess, ProcessesInOrder, Up
    <3>2. \A q \in Process : q # p => bornAt'[q] = bornAt[q] /\ mode'[q] = mode[q]
      BY <1>1 DEF StartProcess, TypeOK
    <3>3. mode[p] = "off"
      BY <1>1 DEF StartProcess
    <3>4. Steady
      BY <3>1, <3>2, <3>3 DEF Steady
    <3>5. QED
      BY <3>1, <3>4, SweepFrame
  <2>4. AttemptsDated'
    BY <1>1 DEF StartProcess, AttemptsDated, Attempting, Up, PredecessorsGone, TypeOK, ProcessesInOrder, RowsDated, SweepsAlone, Row
  <2>5. MarkedIsLatest'
    <3>1. todo[p] = {} /\ UNCHANGED <<todo, status, startedAt, sweep>>
      BY <1>1 DEF StartProcess, ProcessesInOrder, Up
    <3>2. \A q \in Process : q # p => bornAt'[q] = bornAt[q] /\ mode'[q] = mode[q]
      BY <1>1 DEF StartProcess, TypeOK
    <3>3. mode[p] = "off"
      BY <1>1 DEF StartProcess
    <3>4. Steady
      BY <3>1, <3>2, <3>3 DEF Steady
    <3>5. QED
      BY <3>1, <3>4, MarkedFrame
  <2>6. ScansBudgeted'
    BY <1>1 DEF StartProcess, ScansBudgeted, ScansLeft, TypeOK
  <2>7. OneAttemptAtATime'
    BY <1>1 DEF StartProcess, OneAttemptAtATime, Attempting, Up, TypeOK, ProcessesInOrder, RowsDated, SweepsAlone, AttemptsDated, Row
  <2>8. NoRerunPastALaterRow'
    BY <1>1 DEF StartProcess, NoRerunPastALaterRow, Retrying, Attempting, Up, Later, TypeOK, ProcessesInOrder, RowsDated, SweepsAlone, AttemptsDated, Row
  <2>9. QED
    BY <2>1, <2>2, <2>3, <2>4, <2>5, <2>6, <2>7, <2>8 DEF Consistent
<1>2. ASSUME NEW p \in Process, Die(p) PROVE Consistent'
  <2>1. ProcessesInOrder'
    BY <1>2 DEF Die, ProcessesInOrder, Up, TypeOK, RowsDated, SweepsAlone, AttemptsDated, Row
  <2>2. RowsDated'
    BY <1>2 DEF Die, RowsDated, TypeOK
  <2>3. SweepsAlone'
    BY <1>2, SweepFrame DEF Steady, Die, TypeOK
  <2>4. AttemptsDated'
    BY <1>2 DEF Die, AttemptsDated, Attempting, Up, PredecessorsGone, TypeOK, ProcessesInOrder, RowsDated, SweepsAlone, Row
  <2>5. MarkedIsLatest'
    BY <1>2 DEF Die, MarkedIsLatest, Oldest, Later, TypeOK, ProcessesInOrder, RowsDated, SweepsAlone, AttemptsDated, Row
  <2>6. ScansBudgeted'
    BY <1>2 DEF Die, ScansBudgeted, ScansLeft, TypeOK
  <2>7. OneAttemptAtATime'
    BY <1>2 DEF Die, OneAttemptAtATime, Attempting, Up, TypeOK, ProcessesInOrder, RowsDated, SweepsAlone, AttemptsDated, Row
  <2>8. NoRerunPastALaterRow'
    BY <1>2 DEF Die, NoRerunPastALaterRow, Retrying, Attempting, Up, Later, TypeOK, ProcessesInOrder, RowsDated, SweepsAlone, AttemptsDated, Row
  <2>9. QED
    BY <2>1, <2>2, <2>3, <2>4, <2>5, <2>6, <2>7, <2>8 DEF Consistent
<1>3. ASSUME NEW p \in Process, NEW d \in Delivery, Accept(p, d) PROVE Consistent'
  <2>1. ProcessesInOrder'
    BY <1>3 DEF Accept, SetStage, ProcessesInOrder, Up, TypeOK, RowsDated, SweepsAlone, AttemptsDated, Row
  <2>2. RowsDated'
    BY <1>3 DEF Accept, SetStage, RowsDated, TypeOK
  <2>3. SweepsAlone'
    BY <1>3, SweepFrame DEF Steady, Accept, TypeOK
  <2>4. AttemptsDated'
    BY <1>3 DEF Accept, SetStage, AttemptsDated, Attempting, Up, PredecessorsGone, TypeOK, ProcessesInOrder, RowsDated, SweepsAlone, Row
  <2>5. MarkedIsLatest'
    BY <1>3, MarkedFrame DEF Steady, Accept, TypeOK
  <2>6. ScansBudgeted'
    BY <1>3 DEF Accept, SetStage, ScansBudgeted, ScansLeft, TypeOK
  <2>7. OneAttemptAtATime'
    BY <1>3 DEF Accept, SetStage, OneAttemptAtATime, Attempting, Up, TypeOK, ProcessesInOrder, RowsDated, SweepsAlone, AttemptsDated, Row
  <2>8. NoRerunPastALaterRow'
    BY <1>3 DEF Accept, SetStage, NoRerunPastALaterRow, Retrying, Attempting, Up, Later, TypeOK, ProcessesInOrder, RowsDated, SweepsAlone, AttemptsDated, Row
  <2>9. QED
    BY <2>1, <2>2, <2>3, <2>4, <2>5, <2>6, <2>7, <2>8 DEF Consistent
<1>4. ASSUME NEW p \in Process, NEW d \in Delivery, AcceptUnrecorded(p, d) PROVE Consistent'
  <2>1. Quieter
    BY <1>4 DEF Quieter, AcceptUnrecorded, SetStage, Attempting, Up, Executing, ScansLeft, TypeOK
  <2>2. QED
    BY <2>1, QuietStep
<1>5. ASSUME NEW p \in Process, NEW d \in Delivery, RefuseUnrecorded(p, d) PROVE Consistent'
  <2>1. Quieter
    BY <1>5 DEF Quieter, RefuseUnrecorded, SetStage, Attempting, Up, Executing, ScansLeft, TypeOK
  <2>2. QED
    BY <2>1, QuietStep
<1>6. ASSUME NEW p \in Process, NEW d \in Delivery, Enqueue(p, d) PROVE Consistent'
  <2>1. Quieter
    BY <1>6 DEF Quieter, Enqueue, SetStage, Attempting, Up, Executing, ScansLeft, TypeOK
  <2>2. QED
    BY <2>1, QuietStep
<1>7. ASSUME NEW p \in Process, NEW d \in Delivery, Refuse(p, d) PROVE Consistent'
  <2>1. Quieter
    BY <1>7 DEF Quieter, Refuse, SetStage, Attempting, Up, Executing, ScansLeft, TypeOK
  <2>2. QED
    BY <2>1, QuietStep
<1>8. ASSUME NEW p \in Process, NEW d \in Delivery, Scan(p, d) PROVE Consistent'
  <2>1. ProcessesInOrder'
    BY <1>8 DEF Scan, SetStage, Running, Executing, Up, ProcessesInOrder, TypeOK, RowsDated, SweepsAlone, AttemptsDated, Row
  <2>2. RowsDated'
    BY <1>8 DEF Scan, SetStage, Running, Executing, Up, RowsDated, TypeOK
  <2>3. SweepsAlone'
    BY <1>8, SweepFrame DEF Steady, Scan, Running, TypeOK
  <2>4. AttemptsDated'
    BY <1>8 DEF Scan, SetStage, Running, Executing, Up, AttemptsDated, Attempting, PredecessorsGone, TypeOK, ProcessesInOrder, RowsDated, SweepsAlone, Row
  <2>5. MarkedIsLatest'
    BY <1>8 DEF Scan, SetStage, Running, Executing, Up, MarkedIsLatest, Oldest, Later, TypeOK, ProcessesInOrder, RowsDated, SweepsAlone, AttemptsDated, Row
  <2>6. ScansBudgeted'
    <3>1. stage[p][d] = "queued" /\ scans[d] \in Nat /\ stage'[p][d] = "scanning" /\ Up(p)
      BY <1>8 DEF Scan, SetStage, Executing, TypeOK
    <3>2. scans[d] + ScansLeft(d) <= 1 /\ scans'[d] = scans[d] + 1
      BY <1>8, <3>1 DEF ScansBudgeted, Scan, TypeOK
    <3>3. \A e \in Delivery : ScansLeft(e)' = ScansLeft(e) /\ ScansLeft(e) \in Nat
      BY <1>8 DEF Scan, Running, ScansLeft, TypeOK
    <3>4. scans'[d] + ScansLeft(d)' <= 2
      BY <3>1, <3>2, <3>3
    <3>5. ASSUME NEW q \in Process, q # p PROVE stage'[q][d] \notin {"accepted", "queued"}
      <4>1. stage'[q][d] = stage[q][d]
        BY <1>8, <3>5 DEF Scan, SetStage, TypeOK
      <4>2. stage[q][d] # "none" => Up(q)
        BY DEF ProcessesInOrder
      <4>3. QED
        BY <3>1, <3>5, <4>1, <4>2 DEF OneAttemptAtATime, Attempting
    <3>6. ASSUME NEW e \in Delivery, e # d
          PROVE  scans'[e] = scans[e] /\ \A q \in Process : stage'[q][e] = stage[q][e]
      BY <1>8, <3>6 DEF Scan, SetStage, TypeOK
    <3>7. QED
      BY <3>1, <3>3, <3>4, <3>5, <3>6 DEF ScansBudgeted
  <2>7. OneAttemptAtATime'
    BY <1>8 DEF Scan, SetStage, Running, Executing, Up, OneAttemptAtATime, Attempting, TypeOK, ProcessesInOrder, RowsDated, SweepsAlone, AttemptsDated, Row
  <2>8. NoRerunPastALaterRow'
    BY <1>8 DEF Scan, SetStage, Running, Executing, Up, NoRerunPastALaterRow, Retrying, Attempting, Later, TypeOK, ProcessesInOrder, RowsDated, SweepsAlone, AttemptsDated, Row
  <2>9. QED
    BY <2>1, <2>2, <2>3, <2>4, <2>5, <2>6, <2>7, <2>8 DEF Consistent
<1>9. ASSUME NEW p \in Process, NEW d \in Delivery, Report(p, d) PROVE Consistent'
  <2>1. Quieter
    BY <1>9 DEF Quieter, Report, SetStage, Attempting, Up, Executing, ScansLeft, TypeOK
  <2>2. QED
    BY <2>1, QuietStep
<1>10. ASSUME NEW p \in Process, NEW d \in Delivery, Fail(p, d) PROVE Consistent'
  <2>1. Quieter
    BY <1>10 DEF Quieter, Fail, SetStage, Attempting, Up, Executing, ScansLeft, TypeOK
  <2>2. QED
    BY <2>1, QuietStep
<1>11. ASSUME NEW p \in Process, NEW d \in Delivery, Close(p, d) PROVE Consistent'
  <2>1. /\ \A e \in Delivery : (status'[e] = "none" <=> status[e] = "none")
        /\ \A e \in Delivery : ScansLeft(e)' <= ScansLeft(e)
    BY <1>11, FinishTyped DEF Close, AtRow, Finals, Outcomes, ScansLeft
  <2>2. Quieter
    BY <1>11, <2>1 DEF Quieter, Close, Dequeue, AtHead, SetStage, Attempting, Up, Executing, TypeOK, Outcomes
  <2>3. QED
    BY <2>2, QuietStep
<1>12. ASSUME NEW p \in Process, NEW d \in Delivery, TimeOut(p, d) PROVE Consistent'
  <2>1. /\ \A e \in Delivery : (status'[e] = "none" <=> status[e] = "none")
        /\ \A e \in Delivery : ScansLeft(e)' <= ScansLeft(e)
    BY <1>12, FinishTyped DEF TimeOut, AtRow, Finals, Outcomes, ScansLeft
  <2>2. Quieter
    BY <1>12, <2>1 DEF Quieter, TimeOut, SetStage, Attempting, Up, Executing, TypeOK, Outcomes
  <2>3. QED
    BY <2>2, QuietStep
<1>13. ASSUME NEW p \in Process, NEW d \in Delivery, Leak(p, d) PROVE Consistent'
  <2>1. Quieter
    BY <1>13 DEF Quieter, Leak, Dequeue, AtHead, SetStage, Attempting, Up, Executing, ScansLeft, TypeOK
  <2>2. QED
    BY <2>1, QuietStep
<1>14. ASSUME NEW p \in Process, List(p) PROVE Consistent'
  <2>1. ProcessesInOrder'
    BY <1>14 DEF List, Listed, Stale, Up, Unfinished, ProcessesInOrder, TypeOK, RowsDated, SweepsAlone, AttemptsDated, Row
  <2>2. RowsDated'
    BY <1>14 DEF List, Listed, Stale, Up, Unfinished, RowsDated, TypeOK
  <2>3. SweepsAlone'
    <3>1. \A q \in Process : q # p => todo'[q] = todo[q]
      BY <1>14 DEF List, TypeOK
    <3>2. \A r \in todo'[p] : status[r.of] # "none" /\ startedAt[r.of] < bornAt[p]
      <4>1. todo'[p] = {[of |-> d, status |-> status[d]] : d \in Listed(p)}
        BY <1>14 DEF List, TypeOK
      <4>2. \A d \in Listed(p) : status[d] # "none" /\ startedAt[d] < bornAt[p]
        BY DEF Listed, Stale, Unfinished
      <4>3. QED
        BY <4>1, <4>2
    <3>3. PredecessorsGone(p) /\ UNCHANGED <<status, startedAt, mode, bornAt>>
      BY <1>14 DEF List
    <3>4. QED
      BY <3>1, <3>2, <3>3 DEF SweepsAlone, PredecessorsGone
  <2>4. AttemptsDated'
    BY <1>14 DEF List, Listed, Stale, Up, Unfinished, AttemptsDated, Attempting, PredecessorsGone, TypeOK, ProcessesInOrder, RowsDated, SweepsAlone, Row
  <2>5. MarkedIsLatest'
    BY <1>14 DEF List, Listed, Stale, Up, Unfinished, MarkedIsLatest, Oldest, Later, TypeOK, ProcessesInOrder, RowsDated, SweepsAlone, AttemptsDated, Row
  <2>6. ScansBudgeted'
    BY <1>14 DEF List, Listed, Stale, Up, Unfinished, ScansBudgeted, ScansLeft, TypeOK
  <2>7. OneAttemptAtATime'
    BY <1>14 DEF List, Listed, Stale, Up, Unfinished, OneAttemptAtATime, Attempting, TypeOK, ProcessesInOrder, RowsDated, SweepsAlone, AttemptsDated, Row
  <2>8. NoRerunPastALaterRow'
    BY <1>14 DEF List, Listed, Stale, Up, Unfinished, NoRerunPastALaterRow, Retrying, Attempting, Later, TypeOK, ProcessesInOrder, RowsDated, SweepsAlone, AttemptsDated, Row
  <2>9. QED
    BY <2>1, <2>2, <2>3, <2>4, <2>5, <2>6, <2>7, <2>8 DEF Consistent
<1>15. ASSUME NEW p \in Process, Supersede(p) PROVE Consistent'
  <2>1. /\ \A e \in Delivery : (status'[e] = "none" <=> status[e] = "none")
        /\ \A e \in Delivery : ScansLeft(e)' <= ScansLeft(e)
    BY <1>15, CurrentTyped, FinishTyped DEF Supersede, AtRow, Finals, Outcomes, ScansLeft
  <2>2. Quieter
    BY <1>15, CurrentTyped, <2>1 DEF Quieter, Supersede, NextRow, AtRow, Attempting, Up, Executing, TypeOK, Outcomes
  <2>3. QED
    BY <2>2, QuietStep
<1>16. ASSUME NEW p \in Process, GiveUp(p) PROVE Consistent'
  <2>1. /\ \A e \in Delivery : (status'[e] = "none" <=> status[e] = "none")
        /\ \A e \in Delivery : ScansLeft(e)' <= ScansLeft(e)
    BY <1>16, CurrentTyped, FinishTyped DEF GiveUp, AtRow, Finals, Outcomes, ScansLeft
  <2>2. Quieter
    BY <1>16, CurrentTyped, <2>1 DEF Quieter, GiveUp, AtRow, Attempting, Up, Executing, TypeOK, Outcomes
  <2>3. QED
    BY <2>2, QuietStep
<1>17. ASSUME NEW p \in Process, Notify(p) PROVE Consistent'
  <2>1. Quieter
    BY <1>17, CurrentTyped DEF Quieter, Notify, NextRow, AtRow, Attempting, Up, Executing, ScansLeft, TypeOK
  <2>2. QED
    BY <2>1, QuietStep
<1>18. ASSUME NEW p \in Process, Choose(p) PROVE Consistent'
  <2>1. ProcessesInOrder'
    BY <1>18, CurrentIsListed, CurrentTyped DEF Choose, AtRow, Up, ProcessesInOrder, TypeOK, RowsDated, SweepsAlone, AttemptsDated, Row
  <2>2. RowsDated'
    BY <1>18, CurrentIsListed, CurrentTyped DEF Choose, AtRow, Up, RowsDated, TypeOK
  <2>3. SweepsAlone'
    BY <1>18, SweepFrame DEF Steady, Choose
  <2>4. AttemptsDated'
    BY <1>18, CurrentIsListed, CurrentTyped DEF Choose, AtRow, Up, AttemptsDated, Attempting, PredecessorsGone, TypeOK, ProcessesInOrder, RowsDated, SweepsAlone, Row
  <2>5. MarkedIsLatest'
    <3> DEFINE c == Current(p)
    <3>1. c \in todo[p] /\ c.of \in Delivery /\ Oldest(p, c)
      BY <1>18, CurrentIsListed, CurrentTyped DEF Choose, AtRow
    <3>2. ~HasNewerRun(c.of) /\ UNCHANGED <<todo, status, startedAt, bornAt>>
      BY <1>18 DEF Choose
    <3> HIDE DEF c
    <3>3. ASSUME NEW r \in todo[p], Oldest(p, r) PROVE r.of = c.of
      <4>1. r.of \in Delivery /\ status[r.of] # "none" /\ status[c.of] # "none"
        BY <3>1, ListedTyped DEF SweepsAlone
      <4>2. startedAt[r.of] = startedAt[c.of]
        BY <3>1, <3>3, <4>1 DEF Oldest, TypeOK
      <4>3. QED
        BY <3>1, <4>1, <4>2 DEF RowsDated
    <3>4. \A q \in Process : q # p => sweep'[q] = sweep[q]
      BY <1>18 DEF Choose, TypeOK
    <3>5. QED
      BY <3>2, <3>3, <3>4 DEF MarkedIsLatest, HasNewerRun, Oldest, Later
  <2>6. ScansBudgeted'
    BY <1>18, CurrentIsListed, CurrentTyped DEF Choose, AtRow, Up, ScansBudgeted, ScansLeft, TypeOK
  <2>7. OneAttemptAtATime'
    BY <1>18, CurrentIsListed, CurrentTyped DEF Choose, AtRow, Up, OneAttemptAtATime, Attempting, TypeOK, ProcessesInOrder, RowsDated, SweepsAlone, AttemptsDated, Row
  <2>8. NoRerunPastALaterRow'
    BY <1>18, CurrentIsListed, CurrentTyped DEF Choose, AtRow, Up, NoRerunPastALaterRow, Retrying, Attempting, Later, TypeOK, ProcessesInOrder, RowsDated, SweepsAlone, AttemptsDated, Row
  <2>9. QED
    BY <2>1, <2>2, <2>3, <2>4, <2>5, <2>6, <2>7, <2>8 DEF Consistent
<1>19. ASSUME NEW p \in Process, MarkRetrying(p) PROVE Consistent'
  <2>1. PICK d \in Delivery :
          /\ d = Current(p).of
          /\ Current(p) \in todo[p] /\ Oldest(p, Current(p))
          /\ Up(p) /\ sweep[p] = "marking"
          /\ UNCHANGED <<clock, startedAt, mode, bornAt, scans>>
    BY <1>19, CurrentIsListed, CurrentTyped DEF MarkRetrying, AtRow
  <2>2. CASE NextRow(p) /\ UNCHANGED <<status, stage>>
    <3>1. Quieter
      BY <2>1, <2>2 DEF Quieter, NextRow, ScansLeft, TypeOK
    <3>2. QED
      BY <3>1, QuietStep
  <2>3. CASE /\ MayRetry(d) /\ status' = [status EXCEPT ![d] = "retrying"] /\ SetStage(p, d, "accepted")
             /\ sweep' = [sweep EXCEPT ![p] = "rerunning"] /\ UNCHANGED todo
    <3>1. /\ status[d] \in {"pending", "running"} /\ startedAt[d] < bornAt[p] /\ PredecessorsGone(p)
          /\ \A e \in Delivery : status[e] # "none" /\ Later(e, d) => startedAt[e] > bornAt[p]
      BY <2>1, <2>3 DEF MayRetry, SweepsAlone, MarkedIsLatest
    <3>2. /\ status'[d] = "retrying" /\ stage'[p][d] = "accepted"
          /\ \A e \in Delivery : e # d => status'[e] = status[e]
          /\ \A q \in Process : \A e \in Delivery : q # p \/ e # d => stage'[q][e] = stage[q][e]
          /\ \A q \in Process : q # p => sweep'[q] = sweep[q]
          /\ sweep'[p] = "rerunning" /\ UNCHANGED todo
      BY <2>1, <2>3 DEF SetStage, TypeOK
    <3>3. \A e \in Delivery : status'[e] # "none" <=> status[e] # "none"
      BY <3>1, <3>2
    <3>4. \A q \in Process : \A e \in Delivery : (q # p \/ e # d) => (Attempting(q, e)' <=> Attempting(q, e))
      BY <2>1, <3>2 DEF Attempting, Up
    <3>5. ProcessesInOrder'
      BY <2>1, <3>2 DEF ProcessesInOrder, Up
    <3>6. RowsDated'
      BY <2>1, <3>3 DEF RowsDated
    <3>7. SweepsAlone'
      BY <2>1, <3>2, <3>3, SweepFrame DEF Steady
    <3>8. AttemptsDated'
      BY <2>1, <3>1, <3>3, <3>4 DEF AttemptsDated, PredecessorsGone
    <3>9. MarkedIsLatest'
      BY <2>1, <3>2, <3>3, MarkedFrame DEF Steady
    <3>10. ScansBudgeted'
      <4>1. scans[d] + 1 <= 2 /\ scans[d] \in Nat
        BY <2>1, <3>1 DEF ScansBudgeted, ScansLeft, TypeOK
      <4>2. ScansLeft(d)' = 0
        BY <3>2 DEF ScansLeft
      <4>3. \A e \in Delivery : e # d => ScansLeft(e)' = ScansLeft(e)
        BY <3>2 DEF ScansLeft
      <4>4. QED
        BY <2>1, <3>2, <4>1, <4>2, <4>3 DEF ScansBudgeted
    <3>11. OneAttemptAtATime'
      <4>1. ASSUME NEW q \in Process, q # p, Attempting(q, d) PROVE FALSE
        <5>1. CASE q < p
          BY <3>1, <4>1, <5>1 DEF PredecessorsGone, Attempting, Up
        <5>2. CASE p < q
          <6>1. bornAt[p] < bornAt[q]
            BY <4>1, <5>2 DEF ProcessesInOrder, Attempting, Up
          <6>2. startedAt[d] < bornAt[q]
            BY <2>1, <3>1, <6>1 DEF TypeOK
          <6>3. mode[p] = "gone"
            BY <2>1, <4>1, <5>2, <6>2 DEF AttemptsDated, PredecessorsGone
          <6>4. QED
            BY <2>1, <6>3 DEF Up
        <5>3. QED
          BY <4>1, <5>1, <5>2 DEF Process
      <4>2. QED
        BY <2>1, <3>4, <4>1 DEF OneAttemptAtATime
    <3>12. NoRerunPastALaterRow'
      BY <2>1, <3>1, <3>3, <3>4 DEF NoRerunPastALaterRow, Retrying, Later
    <3>13. QED
      BY <3>5, <3>6, <3>7, <3>8, <3>9, <3>10, <3>11, <3>12 DEF Consistent
  <2>4. QED
    BY <1>19, <2>1, <2>2, <2>3 DEF MarkRetrying
<1>20. ASSUME NEW p \in Process, Rerun(p) PROVE Consistent'
  <2>1. Quieter
    BY <1>20 DEF Quieter, Rerun, NextRow, Attempting, Up, Executing, ScansLeft, TypeOK
  <2>2. QED
    BY <2>1, QuietStep
<1>21. ASSUME NEW p \in Process, GoOn(p) PROVE Consistent'
  <2>1. Quieter
    BY <1>21 DEF Quieter, GoOn, NextRow, Attempting, Up, Executing, ScansLeft, TypeOK
  <2>2. QED
    BY <2>1, QuietStep
<1>22. CASE UNCHANGED vars
  <2>1. Quieter
    BY <1>22 DEF Quieter, vars, ScansLeft, TypeOK
  <2>2. QED
    BY <2>1, QuietStep
<1>23. QED
  BY <1>1, <1>2, <1>3, <1>4, <1>5, <1>6, <1>7, <1>8, <1>9, <1>10, <1>11, <1>12, <1>13, <1>14, <1>15, <1>16, <1>17, <1>18, <1>19, <1>20, <1>21, <1>22 DEF Next

-----------------------------------------------------------------------------
(* The results. *)

\* The invariant holds in every reachable state.
THEOREM Inductive == Spec => []IInv
<1>1. IInv /\ [Next]_vars => IInv'
  BY NextTypeOK, NextConsistent DEF IInv, Consistent
<1>2. QED
  BY InitIInv, <1>1, PTL DEF Spec

\* Type correctness.
THEOREM TypeCorrect == Spec => []TypeOK
<1>1. IInv => TypeOK
  BY DEF IInv
<1>2. QED
  BY Inductive, <1>1, PTL

\* "A third attempt is never made" (the sweeper's header): however often
\* processes die, overlap or lose their calls, and whatever is redelivered,
\* one delivery is scanned at most twice.
THEOREM TwoScans == Spec => []AtMostTwoScans
<1>1. IInv => AtMostTwoScans
  <2> SUFFICES ASSUME IInv, NEW d \in Delivery PROVE scans[d] <= 2
    BY DEF AtMostTwoScans
  <2>1. scans[d] \in Nat /\ ScansLeft(d) \in Nat
    BY DEF IInv, TypeOK, ScansLeft
  <2>2. QED
    BY <2>1 DEF IInv, ScansBudgeted
<1>2. QED
  BY Inductive, <1>1, PTL

\* A row is never worked on by two processes (sweepUnfinishedScanRuns,
\* listUnfinished).
THEOREM OneAttempt == Spec => []OneAttemptAtATime
<1>1. IInv => OneAttemptAtATime
  BY DEF IInv
<1>2. QED
  BY Inductive, <1>1, PTL

\* A re-run's delivery was the last one of its pull request when the process
\* that re-runs it started (hasNewerRun).
THEOREM NoRerunPast == Spec => []NoRerunPastALaterRow
<1>1. IInv => NoRerunPastALaterRow
  BY DEF IInv
<1>2. QED
  BY Inductive, <1>1, PTL

\* The conditions of finish, markRunning, markRetrying and of the insert keep
\* a final state.
LEMMA FinalStep ==
  IInv /\ [Next]_vars => \A d \in Delivery : Finished(d) => status'[d] = status[d]
<1> SUFFICES ASSUME IInv, [Next]_vars, NEW d \in Delivery, status[d] \in Finals
             PROVE  status'[d] = status[d]
  BY DEF Finished
<1>1. status[d] \notin Unfinished \cup {"none"} /\ DOMAIN status = Delivery
  BY DEF Finals, Outcomes, Unfinished, IInv, TypeOK
<1>2. QED
  BY <1>1 DEF Next, vars, rowVars, runVars, Unfinished, StartProcess, Die, Accept, AcceptUnrecorded,
     RefuseUnrecorded, Enqueue, Refuse, Scan, Running, Report, Fail, Close, TimeOut, Leak, FinishRow,
     TryFinishRow, List, Supersede, GiveUp, Notify, Choose, MarkRetrying, MayRetry, Rerun, GoOn

\* No update rewrites a final state, whoever makes it.
THEOREM FinalOnce == Spec => FinalStateIsFinal
<1> DEFINE Keeps == \A d \in Delivery : Finished(d) => status'[d] = status[d]
<1>1. IInv /\ [Next]_vars => [Keeps]_vars
  BY FinalStep
<1>2. QED
  BY Inductive, <1>1, PTL DEF Spec, FinalStateIsFinal

-----------------------------------------------------------------------------
(* The notice. *)

\* Only one sweep at a time has rows to handle.
LEMMA LoneSweep ==
  ASSUME IInv, NEW p \in Process, NEW q \in Process, todo[p] # {}, todo[q] # {}
  PROVE  p = q
<1>1. mode[p] # "gone" /\ mode[q] # "gone"
  BY DEF IInv, ProcessesInOrder, Up
<1>2. ~(p < q) /\ ~(q < p)
  BY <1>1 DEF IInv, SweepsAlone, PredecessorsGone
<1>3. QED
  BY <1>2 DEF Process

\* An attempt at a listed row is the one its sweep waits for.
LEMMA AttemptOfTheSweep ==
  ASSUME IInv, SweepOwnsItsRows, NEW p \in Process, NEW r \in todo[p],
         NEW q \in Process, Attempting(q, r.of)
  PROVE  q = p /\ sweep[p] = "rerunning" /\ Oldest(p, r)
<1>1. r.of \in Delivery /\ startedAt[r.of] < bornAt[p] /\ PredecessorsGone(p)
  BY ListedTyped DEF IInv, SweepsAlone
<1>2. Up(q) /\ Up(p)
  BY DEF Attempting, IInv, ProcessesInOrder
<1>3. ~(q < p)
  BY <1>1, <1>2 DEF PredecessorsGone, Up
<1>4. ~(p < q)
  <2> SUFFICES ASSUME p < q PROVE FALSE
    OBVIOUS
  <2>1. bornAt[p] < bornAt[q]
    BY <1>2 DEF IInv, ProcessesInOrder, Up
  <2>2. startedAt[r.of] < bornAt[q]
    BY <1>1, <2>1 DEF IInv, TypeOK
  <2>3. PredecessorsGone(q)
    BY <1>1, <2>2 DEF IInv, AttemptsDated
  <2>4. QED
    BY <1>2, <2>3 DEF PredecessorsGone, Up
<1>5. q = p
  BY <1>3, <1>4 DEF Process
<1>6. QED
  BY <1>5 DEF SweepOwnsItsRows, OwnsRow

\* The oldest row of a sweep is the one it handles.
LEMMA OldestIsCurrent ==
  ASSUME IInv, SweepOwnsItsRows, NEW p \in Process, NEW r \in todo[p], Oldest(p, r)
  PROVE  r = Current(p)
<1>1. Current(p) \in todo[p] /\ Oldest(p, Current(p))
  BY CurrentIsListed DEF IInv
<1>2. /\ r.of \in Delivery /\ Current(p).of \in Delivery
      /\ status[r.of] # "none" /\ status[Current(p).of] # "none"
  BY <1>1, ListedTyped DEF IInv, SweepsAlone
<1>3. startedAt[r.of] = startedAt[Current(p).of]
  BY <1>1, <1>2 DEF Oldest, IInv, TypeOK
<1>4. r.of = Current(p).of
  BY <1>2, <1>3 DEF IInv, RowsDated
<1>5. QED
  BY <1>1, <1>4 DEF SweepOwnsItsRows, OwnsRow

\* What the steps of scans and processes have in common: a sweep is left
\* alone or lost with its process, an attempt is an old one or one at a new
\* row, and only an attempt changes a row.
Undisturbed ==
  /\ \A q \in Process :
       \/ todo'[q] = todo[q] /\ sweep'[q] = sweep[q]
       \/ todo'[q] = {} /\ sweep'[q] = "waiting" /\ \A e \in Delivery : ~Attempting(q, e)'
  /\ \A q \in Process : \A e \in Delivery : Attempting(q, e)' =>
       \/ Attempting(q, e) /\ bornAt'[q] = bornAt[q] /\ startedAt'[e] = startedAt[e]
       \/ status[e] = "none" /\ ~(startedAt'[e] < bornAt'[q])
  /\ \A e \in Delivery : status[e] # "none" => startedAt'[e] = startedAt[e]
  /\ \A e \in Delivery : status'[e] # status[e] =>
       status[e] = "none" \/ \E q \in Process : Attempting(q, e)

\* Such a step leaves the sweeps their rows.
LEMMA UndisturbedKeeps ==
  ASSUME IInv, SweepOwnsItsRows, Undisturbed
  PROVE  SweepOwnsItsRows'
<1>1. ASSUME NEW p \in Process, sweep'[p] = "waiting"
      PROVE  todo'[p] = {} /\ \A d \in Delivery : ~Retrying(p, d)'
  BY <1>1 DEF Undisturbed, SweepOwnsItsRows, OwnsRow, Retrying
<1>2. ASSUME NEW p \in Process, NEW r \in todo'[p]
      PROVE  OwnsRow(p, r)'
  <2>1. todo'[p] = todo[p] /\ sweep'[p] = sweep[p]
    BY <1>2 DEF Undisturbed
  <2>2. \A x \in todo[p] : x.of \in Delivery /\ status[x.of] # "none"
    BY ListedTyped DEF IInv, SweepsAlone
  <2>3. \A x \in todo[p] : startedAt'[x.of] = startedAt[x.of]
    BY <2>2 DEF Undisturbed
  <2>4. Oldest(p, r)' <=> Oldest(p, r)
    BY <1>2, <2>1, <2>3 DEF Oldest
  <2>5. Attempting(p, r.of)' => Attempting(p, r.of)
    BY <1>2, <2>1, <2>2 DEF Undisturbed
  <2>6. status'[r.of] = status[r.of] \/ (sweep[p] = "rerunning" /\ Oldest(p, r))
    <3> SUFFICES ASSUME status'[r.of] # status[r.of] PROVE sweep[p] = "rerunning" /\ Oldest(p, r)
      OBVIOUS
    <3>1. PICK q \in Process : Attempting(q, r.of)
      BY <1>2, <2>1, <2>2 DEF Undisturbed
    <3>2. QED
      BY <1>2, <2>1, <3>1, AttemptOfTheSweep
  <2>7. QED
    BY <1>2, <2>1, <2>4, <2>5, <2>6 DEF SweepOwnsItsRows, OwnsRow
<1>3. QED
  BY <1>1, <1>2 DEF SweepOwnsItsRows, OwnsRow

\* So does a sweep that goes on with its next row, having changed at most the
\* row it leaves.
LEMMA NextRowKeeps ==
  ASSUME IInv, SweepOwnsItsRows, NEW p \in Process, todo[p] # {}, NextRow(p),
         UNCHANGED <<startedAt, procVars, stage>>, sweep[p] # "waiting",
         \A e \in Delivery : status'[e] # status[e] => e = Current(p).of
  PROVE  SweepOwnsItsRows'
<1>1. /\ todo'[p] = todo[p] \ {Current(p)} /\ sweep'[p] = "next"
      /\ \A q \in Process : q # p => todo'[q] = todo[q] /\ sweep'[q] = sweep[q]
  BY DEF NextRow, IInv, TypeOK
<1>2. \A q \in Process : \A e \in Delivery :
        /\ Attempting(q, e)' <=> Attempting(q, e)
        /\ Retrying(q, e)' <=> Retrying(q, e)
  BY DEF Attempting, Retrying, Up, procVars
<1>3. \A q \in Process : q # p => todo[q] = {}
  BY LoneSweep
<1>4. ASSUME NEW r \in todo'[p]
      PROVE  /\ \A q \in todo'[p] : q.of = r.of => q = r
             /\ ~Attempting(p, r.of)'
             /\ r.status = "retrying" => status'[r.of] = "retrying"
  <2>1. r \in todo[p] /\ r # Current(p) /\ r.of \in Delivery
    BY <1>1, <1>4, ListedTyped DEF IInv
  <2>2. ~Oldest(p, r)
    BY <2>1, OldestIsCurrent
  <2>3. r.of # Current(p).of
    BY <2>1, CurrentIsListed DEF IInv, SweepOwnsItsRows, OwnsRow
  <2>4. QED
    BY <1>1, <1>2, <2>1, <2>2, <2>3 DEF SweepOwnsItsRows, OwnsRow
<1>5. QED
  BY <1>1, <1>2, <1>3, <1>4 DEF SweepOwnsItsRows, OwnsRow

\* Every step leaves the sweeps their rows.
LEMMA NextOwns == IInv /\ SweepOwnsItsRows /\ [Next]_vars => SweepOwnsItsRows'
<1> SUFFICES ASSUME IInv, SweepOwnsItsRows, [Next]_vars PROVE SweepOwnsItsRows'
  OBVIOUS
<1> USE RunsAssumption DEF rowVars, runVars, sweepVars, procVars
<1>0. TypeOK
  BY DEF IInv
<1>1. ASSUME NEW p \in Process, StartProcess(p) PROVE SweepOwnsItsRows'
  <2>1. \A e \in Delivery : ~Attempting(p, e)'
    BY <1>1 DEF StartProcess, Attempting, IInv, ProcessesInOrder, Up
  <2>2. Undisturbed
    BY <1>0, <1>1, <2>1 DEF StartProcess, Undisturbed, Attempting, Up, TypeOK
  <2>3. QED
    BY <2>2, UndisturbedKeeps
<1>2. ASSUME NEW p \in Process, Die(p) PROVE SweepOwnsItsRows'
  <2>1. Undisturbed
    BY <1>0, <1>2 DEF Die, Undisturbed, Attempting, Up, TypeOK
  <2>2. QED
    BY <2>1, UndisturbedKeeps
<1>3. ASSUME NEW p \in Process, NEW d \in Delivery, Accept(p, d) PROVE SweepOwnsItsRows'
  <2>1. bornAt[p] <= clock /\ startedAt'[d] = clock + 1 /\ clock \in Nat /\ bornAt[p] \in Nat
    BY <1>0, <1>3 DEF Accept, IInv, ProcessesInOrder, TypeOK
  <2>2. \A q \in Process : \A e \in Delivery : e # d => (Attempting(q, e)' <=> Attempting(q, e))
    BY <1>0, <1>3 DEF Accept, SetStage, Attempting, Up, TypeOK
  <2>3. \A q \in Process : Attempting(q, d)' => ~(startedAt'[d] < bornAt'[q])
    BY <1>0, <1>3, <2>1 DEF Accept, IInv, ProcessesInOrder, TypeOK
  <2>4. status[d] = "none"
    BY <1>3 DEF Accept
  <2>5. \A e \in Delivery : e # d => status'[e] = status[e] /\ startedAt'[e] = startedAt[e]
    BY <1>0, <1>3 DEF Accept, TypeOK
  <2>6. UNCHANGED <<todo, sweep, bornAt>>
    BY <1>3 DEF Accept
  <2>7. Undisturbed
    BY <2>2, <2>3, <2>4, <2>5, <2>6 DEF Undisturbed
  <2>8. QED
    BY <2>7, UndisturbedKeeps
<1>4. ASSUME NEW p \in Process, NEW d \in Delivery,
             \/ AcceptUnrecorded(p, d) \/ RefuseUnrecorded(p, d) \/ Enqueue(p, d)
             \/ Refuse(p, d) \/ Scan(p, d) \/ Report(p, d) \/ Fail(p, d)
             \/ Close(p, d) \/ TimeOut(p, d) \/ Leak(p, d)
      PROVE  SweepOwnsItsRows'
  <2>1. UNCHANGED <<startedAt, mode, bornAt, sweep, todo>>
    BY <1>4 DEF AcceptUnrecorded, RefuseUnrecorded, Enqueue, Refuse, Scan, Report, Fail, Close, TimeOut, Leak
  <2>2. \A q \in Process : \A e \in Delivery : Attempting(q, e)' => Attempting(q, e)
    <3>1. \A q \in Process : \A e \in Delivery : q # p \/ e # d => stage'[q][e] = stage[q][e]
      BY <1>0, <1>4 DEF AcceptUnrecorded, RefuseUnrecorded, Enqueue, Refuse, Scan, Report, Fail, Close,
         TimeOut, Leak, SetStage, TypeOK
    <3>2. CASE AcceptUnrecorded(p, d) \/ RefuseUnrecorded(p, d)
      <4>1. stage'[p][d] \in {"none", "unrecorded"}
        BY <1>0, <3>2 DEF AcceptUnrecorded, RefuseUnrecorded, SetStage, TypeOK
      <4>2. QED
        BY <2>1, <3>1, <4>1 DEF Attempting, Up
    <3>3. CASE ~(AcceptUnrecorded(p, d) \/ RefuseUnrecorded(p, d))
      <4>1. Attempting(p, d)
        BY <1>4, <3>3 DEF Enqueue, Refuse, Scan, Report, Fail, Close, TimeOut, Leak, Executing, Attempting
      <4>2. QED
        BY <2>1, <3>1, <4>1 DEF Attempting, Up
    <3>4. QED
      BY <3>2, <3>3
  <2>3. \A e \in Delivery : status'[e] # status[e] => Attempting(p, e)
    <3>1. UNCHANGED status \/ (Executing(p, d) /\ \A e \in Delivery : e # d => status'[e] = status[e])
      BY <1>0, <1>4 DEF AcceptUnrecorded, RefuseUnrecorded, Enqueue, Refuse, Scan, Report, Fail, Close, TimeOut,
         Leak, Running, TryFinishRow, FinishRow, TypeOK
    <3>2. QED
      BY <3>1 DEF Executing, Attempting
  <2>4. Undisturbed
    BY <2>1, <2>2, <2>3 DEF Undisturbed
  <2>5. QED
    BY <2>4, UndisturbedKeeps
<1>5. ASSUME NEW p \in Process, List(p) PROVE SweepOwnsItsRows'
  <2>1. /\ todo'[p] = {[of |-> d, status |-> status[d]] : d \in Listed(p)} /\ sweep'[p] = "next"
        /\ \A q \in Process : q # p => todo'[q] = todo[q] /\ sweep'[q] = sweep[q]
        /\ UNCHANGED <<status, startedAt, mode, bornAt, stage>> /\ sweep[p] = "waiting"
    BY <1>0, <1>5 DEF List, TypeOK
  <2>2. \A q \in Process : \A e \in Delivery :
          /\ Attempting(q, e)' <=> Attempting(q, e)
          /\ Retrying(q, e)' <=> Retrying(q, e)
    BY <2>1 DEF Attempting, Retrying, Up
  <2>3. \A d \in Listed(p) : d \in Delivery /\ startedAt[d] < bornAt[p]
    BY DEF Listed, Stale
  <2>4. \A d \in Listed(p) : ~Attempting(p, d)
    BY <2>1, <2>3 DEF SweepOwnsItsRows, OwnsRow, Retrying
  <2>5. ASSUME NEW r \in todo'[p]
        PROVE  /\ \A q \in todo'[p] : q.of = r.of => q = r
               /\ ~Attempting(p, r.of)'
               /\ r.status = status[r.of]
    BY <2>1, <2>2, <2>3, <2>4, <2>5
  <2>6. ASSUME NEW q \in Process, q # p, NEW r \in todo[q] PROVE OwnsRow(q, r)'
    <3>1. Oldest(q, r)' <=> Oldest(q, r)
      BY <2>1, <2>6 DEF Oldest
    <3>2. Attempting(q, r.of)' <=> Attempting(q, r.of)
      BY <1>0, <2>2, <2>6, ListedTyped
    <3>3. OwnsRow(q, r)
      BY <2>6 DEF SweepOwnsItsRows
    <3>4. QED
      BY <2>1, <2>6, <3>1, <3>2, <3>3 DEF OwnsRow
  <2>7. ASSUME NEW r \in todo'[p] PROVE OwnsRow(p, r)'
    BY <2>1, <2>5, <2>7 DEF OwnsRow
  <2>8. ASSUME NEW q \in Process, sweep'[q] = "waiting"
        PROVE  todo'[q] = {} /\ \A d \in Delivery : ~Retrying(q, d)'
    BY <2>1, <2>2, <2>8 DEF SweepOwnsItsRows
  <2>9. QED
    BY <2>1, <2>6, <2>7, <2>8 DEF SweepOwnsItsRows
<1>6. ASSUME NEW p \in Process, Supersede(p) \/ Notify(p) \/ Rerun(p) \/ GoOn(p)
      PROVE  SweepOwnsItsRows'
  <2>1. /\ todo[p] # {} /\ sweep[p] # "waiting" /\ NextRow(p)
        /\ UNCHANGED <<startedAt, procVars, stage>>
    BY <1>6 DEF Supersede, Notify, Rerun, GoOn, AtRow
  <2>2. \A e \in Delivery : status'[e] # status[e] => e = Current(p).of
    BY <1>0, <1>6 DEF Supersede, Notify, Rerun, GoOn, FinishRow, TypeOK
  <2>3. QED
    BY <2>1, <2>2, NextRowKeeps
<1>7. ASSUME NEW p \in Process, GiveUp(p) PROVE SweepOwnsItsRows'
  <2> DEFINE c == Current(p)
  <2>1. /\ c \in todo[p] /\ Oldest(p, c) /\ c.of \in Delivery /\ c.status = "retrying"
        /\ sweep[p] = "next" /\ todo[p] # {}
    BY <1>0, <1>7, CurrentIsListed, CurrentTyped DEF GiveUp, AtRow
  <2>2. /\ sweep'[p] = "notifying" /\ \A q \in Process : q # p => sweep'[q] = sweep[q]
        /\ UNCHANGED <<startedAt, mode, bornAt, stage, todo>>
    BY <1>0, <1>7 DEF GiveUp, TypeOK
  <2>3. status[c.of] = "retrying"
    BY <2>1 DEF SweepOwnsItsRows, OwnsRow
  <2>4. /\ status'[c.of] = "interrupted"
        /\ \A e \in Delivery : e # c.of => status'[e] = status[e]
    BY <1>0, <1>7, <2>1, <2>3 DEF GiveUp, FinishRow, TypeOK, Unfinished
  <2>5. \A r \in todo[p] : Oldest(p, r) => r = c
    BY OldestIsCurrent
  <2>6. \A r \in todo[p] : r.of \in Delivery /\ (r # c => r.of # c.of)
    BY <1>0, <2>1, ListedTyped DEF SweepOwnsItsRows, OwnsRow
  <2> HIDE DEF c
  <2>7. \A q \in Process : q # p => todo[q] = {}
    BY <2>1, LoneSweep
  <2>8. \A q \in Process : \A e \in Delivery :
          /\ Attempting(q, e)' <=> Attempting(q, e)
          /\ Retrying(q, e)' <=> Retrying(q, e)
    BY <2>2 DEF Attempting, Retrying, Up
  <2>9. \A r \in todo[p] : Oldest(p, r)' <=> Oldest(p, r)
    BY <2>2 DEF Oldest
  <2>10. ASSUME NEW r \in todo[p]
         PROVE  /\ ~Attempting(p, r.of)
                /\ r.status = "retrying" => status[r.of] = "retrying"
                /\ \A q \in todo[p] : q.of = r.of => q = r
    BY <2>1 DEF SweepOwnsItsRows, OwnsRow
  <2>11. QED
    BY <2>1, <2>2, <2>4, <2>5, <2>6, <2>7, <2>8, <2>9, <2>10 DEF SweepOwnsItsRows, OwnsRow
<1>8. ASSUME NEW p \in Process, Choose(p) PROVE SweepOwnsItsRows'
  <2>1. /\ sweep[p] = "next" /\ sweep'[p] = "marking" /\ Current(p).status # "retrying" /\ todo[p] # {}
        /\ \A q \in Process : q # p => sweep'[q] = sweep[q]
        /\ UNCHANGED <<status, startedAt, mode, bornAt, stage, todo>>
    BY <1>0, <1>8 DEF Choose, AtRow, TypeOK
  <2>2. \A q \in Process : \A e \in Delivery :
          /\ Attempting(q, e)' <=> Attempting(q, e)
          /\ Retrying(q, e)' <=> Retrying(q, e)
    BY <2>1 DEF Attempting, Retrying, Up
  <2>3. \A q \in Process : \A r \in todo[q] : Oldest(q, r)' <=> Oldest(q, r)
    BY <2>1 DEF Oldest
  <2>4. \A r \in todo[p] : Oldest(p, r) => r.status # "retrying"
    BY <2>1, OldestIsCurrent
  <2>5. ASSUME NEW q \in Process, NEW r \in todo[q] PROVE OwnsRow(q, r)'
    <3>1. Attempting(q, r.of)' <=> Attempting(q, r.of)
      BY <1>0, <2>2, <2>5, ListedTyped
    <3>2. OwnsRow(q, r) /\ (Oldest(q, r)' <=> Oldest(q, r))
      BY <2>3, <2>5 DEF SweepOwnsItsRows
    <3>3. CASE q = p
      BY <2>1, <2>4, <3>1, <3>2, <3>3 DEF OwnsRow
    <3>4. CASE q # p
      BY <2>1, <3>1, <3>2, <3>4 DEF OwnsRow
    <3>5. QED
      BY <3>3, <3>4
  <2>6. ASSUME NEW q \in Process, sweep'[q] = "waiting"
        PROVE  todo'[q] = {} /\ \A d \in Delivery : ~Retrying(q, d)'
    BY <1>0, <2>1, <2>2, <2>6 DEF SweepOwnsItsRows, TypeOK
  <2>7. QED
    BY <2>1, <2>5, <2>6 DEF SweepOwnsItsRows
<1>9. ASSUME NEW p \in Process, MarkRetrying(p) PROVE SweepOwnsItsRows'
  <2>1. /\ todo[p] # {} /\ sweep[p] = "marking"
        /\ UNCHANGED <<startedAt, procVars>>
    BY <1>9 DEF MarkRetrying, AtRow
  <2>2. CASE NextRow(p) /\ UNCHANGED <<status, stage>>
    BY <2>1, <2>2, NextRowKeeps
  <2>3. CASE /\ status' = [status EXCEPT ![Current(p).of] = "retrying"]
             /\ SetStage(p, Current(p).of, "accepted")
             /\ sweep' = [sweep EXCEPT ![p] = "rerunning"] /\ UNCHANGED todo
    <3> DEFINE c == Current(p)
    <3>1. c \in todo[p] /\ Oldest(p, c) /\ c.of \in Delivery
      BY <1>0, <2>1, CurrentIsListed, CurrentTyped
    <3>2. \A r \in todo[p] : Oldest(p, r) => r = c
      BY OldestIsCurrent
    <3>3. \A r \in todo[p] : r.of \in Delivery /\ (r # c => r.of # c.of)
      BY <1>0, <3>1, ListedTyped DEF SweepOwnsItsRows, OwnsRow
    <3>4. /\ \A e \in Delivery : e # c.of => status'[e] = status[e]
          /\ \A q \in Process : \A e \in Delivery : q # p \/ e # c.of => stage'[q][e] = stage[q][e]
          /\ sweep'[p] = "rerunning" /\ \A q \in Process : q # p => sweep'[q] = sweep[q]
      BY <1>0, <2>3, <3>1 DEF SetStage, TypeOK
    <3> HIDE DEF c
    <3>5. \A q \in Process : q # p => todo[q] = {}
      BY <2>1, LoneSweep
    <3>6. \A q \in Process : \A e \in Delivery : q # p \/ e # c.of =>
            /\ Attempting(q, e)' <=> Attempting(q, e)
            /\ Retrying(q, e)' <=> Retrying(q, e)
      BY <2>1, <3>4 DEF Attempting, Retrying, Up
    <3>7. \A r \in todo[p] : Oldest(p, r)' <=> Oldest(p, r)
      BY <2>1, <2>3 DEF Oldest
    <3>8. ASSUME NEW r \in todo[p]
          PROVE  /\ ~Attempting(p, r.of)
                 /\ r.status = "retrying" => status[r.of] = "retrying" /\ r # c
                 /\ \A q \in todo[p] : q.of = r.of => q = r
      BY <2>1, <3>1 DEF SweepOwnsItsRows, OwnsRow
    <3>9. QED
      BY <2>3, <3>1, <3>2, <3>3, <3>4, <3>5, <3>6, <3>7, <3>8 DEF SweepOwnsItsRows, OwnsRow
  <2>4. QED
    BY <1>9, <2>2, <2>3 DEF MarkRetrying
<1>10. CASE UNCHANGED vars
  <2>1. Undisturbed
    BY <1>10 DEF Undisturbed, Attempting, Up, vars
  <2>2. QED
    BY <2>1, UndisturbedKeeps
<1>11. QED
  BY <1>1, <1>2, <1>3, <1>4, <1>5, <1>6, <1>7, <1>8, <1>9, <1>10 DEF Next

\* What a step posts is a report or a refusal, but for the sweep's notice.
LEMMA PostedByTheSweep ==
  ASSUME IInv, Next, NEW r \in PullRequest, comment'[r] # comment[r]
  PROVE  /\ comment'[r].kind = "interrupted" =>
              \E p \in Process : Notify(p) /\ comment'[r].of = Current(p).of
         /\ comment'[r].of \in Delivery
<1> USE RunsAssumption DEF rowVars, runVars, sweepVars, procVars
<1>0. TypeOK
  BY DEF IInv
<1>1. PICK p \in Process :
        \/ StartProcess(p) \/ Die(p)
        \/ \E d \in Delivery :
             \/ Accept(p, d) \/ AcceptUnrecorded(p, d) \/ RefuseUnrecorded(p, d)
             \/ Enqueue(p, d) \/ Refuse(p, d) \/ Scan(p, d) \/ Report(p, d)
             \/ Fail(p, d) \/ Close(p, d) \/ TimeOut(p, d) \/ Leak(p, d)
        \/ List(p) \/ Supersede(p) \/ GiveUp(p) \/ Notify(p)
        \/ Choose(p) \/ MarkRetrying(p) \/ Rerun(p) \/ GoOn(p)
  BY DEF Next
<1>2. ~(StartProcess(p) \/ Die(p) \/ List(p) \/ Supersede(p) \/ GiveUp(p)
        \/ Choose(p) \/ MarkRetrying(p) \/ Rerun(p) \/ GoOn(p))
  BY DEF StartProcess, Die, List, Supersede, GiveUp, Choose, MarkRetrying, Rerun, GoOn
<1>3. comment \in [PullRequest -> [of : Delivery \cup {NoDelivery},
                    kind : {"none", "report", "refusal", "interrupted"}]]
  BY <1>0 DEF TypeOK
<1>4. CASE Notify(p)
  <2>1. Current(p).of \in Delivery /\ PostComment(Current(p).of, "interrupted")
    BY <1>0, <1>4, CurrentTyped DEF Notify, AtRow
  <2>2. comment'[r] = [of |-> Current(p).of, kind |-> "interrupted"]
    BY <1>3, <2>1 DEF PostComment
  <2>3. QED
    BY <1>4, <2>1, <2>2
<1>5. ASSUME NEW d \in Delivery,
             \/ Accept(p, d) \/ AcceptUnrecorded(p, d) \/ RefuseUnrecorded(p, d)
             \/ Enqueue(p, d) \/ Refuse(p, d) \/ Scan(p, d) \/ Report(p, d)
             \/ Fail(p, d) \/ Close(p, d) \/ TimeOut(p, d) \/ Leak(p, d)
      PROVE  comment'[r].kind # "interrupted" /\ comment'[r].of \in Delivery
  <2>1. PostComment(d, "report") \/ PostComment(d, "refusal")
    BY <1>5 DEF Accept, AcceptUnrecorded, RefuseUnrecorded, Enqueue, Refuse, Scan, Report,
       Fail, Close, TimeOut, Leak
  <2>2. comment'[r] = [of |-> d, kind |-> "report"] \/ comment'[r] = [of |-> d, kind |-> "refusal"]
    BY <1>3, <2>1 DEF PostComment
  <2>3. QED
    BY <2>2
<1>6. QED
  BY <1>1, <1>2, <1>4, <1>5

\* The notice says what the row says (sweepUnfinishedScanRuns closes the row
\* before it posts): the row it gives up was still its own.
THEOREM TruthfulNotice == Spec => []NoticeMatchesTheRow
<1> DEFINE NoticeInv == SweepOwnsItsRows /\ NoticesAreAddressed /\ NoticeMatchesTheRow
<1>1. Init => NoticeInv
  BY RunsAssumption DEF Init, SweepOwnsItsRows, OwnsRow, NoticesAreAddressed, NoticeMatchesTheRow,
     Retrying, Attempting, Up
<1>2. ASSUME IInv, NoticeInv, [Next]_vars, NEW r \in PullRequest
      PROVE  /\ comment'[r].kind # "none" => comment'[r].of \in Delivery
             /\ comment'[r].kind = "interrupted" => status'[comment'[r].of] = "interrupted"
  <2>1. CASE comment'[r] = comment[r]
    <3>1. comment[r].kind # "none" => comment[r].of \in Delivery
      BY <1>2 DEF NoticesAreAddressed
    <3>2. comment[r].kind = "interrupted" => status[comment[r].of] = "interrupted"
      BY <1>2 DEF NoticeMatchesTheRow
    <3>3. \A d \in Delivery : status[d] = "interrupted" => status'[d] = "interrupted"
      BY <1>2, FinalStep DEF Finished, Finals
    <3>4. QED
      BY <2>1, <3>1, <3>2, <3>3
  <2>2. CASE comment'[r] # comment[r]
    <3>1. Next
      BY <1>2, <2>2 DEF vars
    <3>2. SUFFICES ASSUME comment'[r].kind = "interrupted"
                   PROVE  status'[comment'[r].of] = "interrupted"
      BY <1>2, <2>2, <3>1, PostedByTheSweep
    <3>3. PICK p \in Process : Notify(p) /\ comment'[r].of = Current(p).of
      BY <1>2, <2>2, <3>1, <3>2, PostedByTheSweep
    <3>4. /\ Current(p) \in todo[p] /\ Oldest(p, Current(p)) /\ sweep[p] = "notifying"
          /\ UNCHANGED status
      BY <1>2, <3>3, CurrentIsListed DEF IInv, Notify, AtRow, rowVars
    <3>5. status[Current(p).of] = "interrupted"
      BY <1>2, <3>4 DEF SweepOwnsItsRows, OwnsRow
    <3>6. QED
      BY <3>3, <3>4, <3>5
  <2>3. QED
    BY <2>1, <2>2
<1>3. IInv /\ NoticeInv /\ [Next]_vars => NoticeInv'
  BY <1>2, NextOwns DEF NoticesAreAddressed, NoticeMatchesTheRow
<1>4. QED
  BY Inductive, <1>1, <1>3, PTL DEF Spec, NoticeMatchesTheRow

-----------------------------------------------------------------------------
(* Refinement: the rows live as DeliveryLife promises. *)

\* The abstract attempts, as the refinement mapping gives them.
AAttempt == [d \in Delivery |-> AttemptAt(d)]

\* The refinement mapping, attempt by attempt: there is one at most.
LEMMA AttemptCases ==
  ASSUME OneAttemptAtATime, NEW d \in Delivery
  PROVE  /\ (\A p \in Process : ~Attempting(p, d)) => AAttempt[d] = "none"
         /\ \A p \in Process : Attempting(p, d) =>
              /\ stage[p][d] \in {"accepted", "queued"} => AAttempt[d] = "ready"
              /\ stage[p][d] \notin {"accepted", "queued"} => AAttempt[d] = "working"
  BY Zenon DEF AAttempt, AttemptAt, OneAttemptAtATime

\* The same facts of the next state.
LEMMA AttemptCasesNext ==
  ASSUME OneAttemptAtATime', NEW d \in Delivery
  PROVE  /\ (\A p \in Process : ~Attempting(p, d)') => AAttempt'[d] = "none"
         /\ \A p \in Process : Attempting(p, d)' =>
              /\ stage'[p][d] \in {"accepted", "queued"} => AAttempt'[d] = "ready"
              /\ stage'[p][d] \notin {"accepted", "queued"} => AAttempt'[d] = "working"
  BY Zenon DEF AAttempt, AttemptAt, OneAttemptAtATime

\* An attempt that goes no further, or that is not one, stays what it is.
LEMMA AttemptStays ==
  ASSUME OneAttemptAtATime, OneAttemptAtATime', NEW d \in Delivery,
         \A p \in Process :
           /\ Attempting(p, d)' <=> Attempting(p, d)
           /\ Attempting(p, d) =>
                (stage'[p][d] \in {"accepted", "queued"} <=> stage[p][d] \in {"accepted", "queued"})
  PROVE  AAttempt'[d] = AAttempt[d]
<1>1. CASE \A p \in Process : ~Attempting(p, d)
  BY <1>1, AttemptCases, AttemptCasesNext
<1>2. CASE \E p \in Process : Attempting(p, d)
  <2>1. PICK p \in Process : Attempting(p, d)
    BY <1>2
  <2>2. QED
    BY <2>1, AttemptCases, AttemptCasesNext
<1>3. QED
  BY <1>1, <1>2

\* When none moves, the mapped attempts stutter; when one does, they change
\* at one place.
LEMMA NoneMoves ==
  ASSUME \A d \in Delivery : AAttempt'[d] = AAttempt[d]
  PROVE  AAttempt' = AAttempt
  BY DEF AAttempt

LEMMA OneMoves ==
  ASSUME NEW d \in Delivery, NEW to, AAttempt'[d] = to,
         \A e \in Delivery : e # d => AAttempt'[e] = AAttempt[e]
  PROVE  AAttempt' = [AAttempt EXCEPT ![d] = to]
  BY DEF AAttempt

\* A step of one process about one delivery leaves the other attempts alone.
LEMMA OthersStay ==
  ASSUME IInv, IInv', UNCHANGED mode, NEW p \in Process, NEW d \in Delivery, NEW to, SetStage(p, d, to)
  PROVE  /\ stage'[p][d] = to
         /\ \A e \in Delivery : e # d => AAttempt'[e] = AAttempt[e]
<1>1. /\ stage'[p][d] = to
      /\ \A q \in Process : \A e \in Delivery : e # d => stage'[q][e] = stage[q][e]
  BY DEF SetStage, IInv, TypeOK
<1>2. ASSUME NEW e \in Delivery, e # d PROVE AAttempt'[e] = AAttempt[e]
  <2>1. \A q \in Process : Attempting(q, e)' <=> Attempting(q, e)
    BY <1>1, <1>2 DEF Attempting, Up
  <2>2. QED
    BY <1>1, <1>2, <2>1, AttemptStays DEF IInv
<1>3. QED
  BY <1>1, <1>2

\* So it moves at most its own attempt.
LEMMA Moves ==
  ASSUME IInv, IInv', UNCHANGED mode, NEW p \in Process, NEW d \in Delivery, NEW to, SetStage(p, d, to),
         Attempting(p, d)
  PROVE  /\ to \in {"accepted", "queued"} => AAttempt' = [AAttempt EXCEPT ![d] = "ready"]
         /\ to \notin {"none", "unrecorded", "accepted", "queued"} =>
              AAttempt' = [AAttempt EXCEPT ![d] = "working"]
         /\ to = "none" => AAttempt' = [AAttempt EXCEPT ![d] = "none"]
<1>1. /\ stage'[p][d] = to
      /\ \A e \in Delivery : e # d => AAttempt'[e] = AAttempt[e]
  BY OthersStay
<1>2. ASSUME NEW q \in Process, q # p PROVE ~Attempting(q, d)'
  <2>1. ~Attempting(q, d)
    BY <1>2 DEF IInv, OneAttemptAtATime
  <2>2. stage'[q][d] = stage[q][d]
    BY <1>2 DEF SetStage, IInv, TypeOK
  <2>3. QED
    BY <2>1, <2>2 DEF Attempting, Up
<1>3. Attempting(p, d)' <=> to \notin {"none", "unrecorded"}
  BY <1>1 DEF Attempting, Up
<1>4. /\ to \in {"accepted", "queued"} => AAttempt'[d] = "ready"
      /\ to \notin {"none", "unrecorded", "accepted", "queued"} => AAttempt'[d] = "working"
      /\ to = "none" => AAttempt'[d] = "none"
  BY <1>1, <1>2, <1>3, AttemptCasesNext DEF IInv
<1>5. QED
  BY <1>1, <1>4, OneMoves

\* What the deadline, a finished task and the sweep write is what DeliveryLife
\* lets become of a row.
LEMMA RowBecomes ==
  ASSUME TypeOK, NEW d \in Delivery, NEW final, FinishRow(d, final) \/ TryFinishRow(d, final)
  PROVE  Life!MayBecome(d, final)
<1>1. CASE FinishRow(d, final)
  <2>1. CASE status[d] \in Unfinished
    BY <1>1, <2>1 DEF FinishRow, Life!MayBecome, Life!Unfinished, Unfinished, TypeOK
  <2>2. CASE status[d] \notin Unfinished
    BY <1>1, <2>2 DEF FinishRow, Life!MayBecome, TypeOK
  <2>3. QED
    BY <2>1, <2>2
<1>2. CASE UNCHANGED status
  BY <1>2 DEF Life!MayBecome
<1>3. QED
  BY <1>1, <1>2 DEF TryFinishRow

\* A row that its sweep is about to decide is attempted by nobody.
LEMMA NobodyAtTheRow ==
  ASSUME IInv, SweepOwnsItsRows, NEW p \in Process, todo[p] # {}, sweep[p] # "rerunning"
  PROVE  /\ Current(p).of \in Delivery /\ Current(p) \in todo[p] /\ Oldest(p, Current(p))
         /\ \A q \in Process : ~Attempting(q, Current(p).of)
         /\ AAttempt[Current(p).of] = "none"
<1>1. Current(p).of \in Delivery /\ Current(p) \in todo[p] /\ Oldest(p, Current(p))
  BY CurrentTyped, CurrentIsListed DEF IInv
<1>2. \A q \in Process : ~Attempting(q, Current(p).of)
  BY <1>1, AttemptOfTheSweep
<1>3. AAttempt[Current(p).of] = "none"
  BY <1>1, <1>2, AttemptCases DEF IInv
<1>4. QED
  BY <1>1, <1>2, <1>3

\* Nothing is listed or attempted yet.
LEMMA InitOwns == Init => SweepOwnsItsRows
  BY RunsAssumption DEF Init, SweepOwnsItsRows, OwnsRow, Retrying, Attempting, Up

\* The initial state maps to the initial state.
LEMMA RefineInit == Init => Life!Init
<1> SUFFICES ASSUME Init PROVE Life!Init
  OBVIOUS
<1>1. \A d \in Delivery : AttemptAt(d) = "none"
  BY DEF Init, AttemptAt, Attempting, Up
<1>2. QED
  BY <1>1 DEF Init, Life!Init

\* Every step maps to a step or to a stutter.
LEMMA RefineNext ==
  IInv /\ IInv' /\ SweepOwnsItsRows /\ [Next]_vars => [Life!Next]_(Life!vars)
<1> SUFFICES ASSUME IInv, IInv', SweepOwnsItsRows, [Next]_vars PROVE [Life!Next]_(Life!vars)
  OBVIOUS
<1> USE DEF rowVars, runVars, sweepVars, procVars
<1>0. TypeOK /\ OneAttemptAtATime /\ OneAttemptAtATime'
  BY DEF IInv
<1>1. ASSUME AAttempt' = AAttempt, UNCHANGED <<status, scans>> PROVE UNCHANGED Life!vars
  BY <1>1 DEF Life!vars, AAttempt
<1>2. ASSUME NEW p \in Process,
             \/ StartProcess(p) \/ List(p) \/ Notify(p) \/ Choose(p) \/ Rerun(p) \/ GoOn(p)
             \/ UNCHANGED vars
      PROVE  UNCHANGED Life!vars
  <2>1. UNCHANGED <<status, scans, stage>>
    BY <1>2 DEF StartProcess, List, Notify, Choose, Rerun, GoOn, vars
  <2>2. \A q \in Process : \A d \in Delivery : Attempting(q, d)' <=> Attempting(q, d)
    <3>1. CASE StartProcess(p)
      <4>1. \A d \in Delivery : stage[p][d] = "none"
        BY <3>1 DEF StartProcess, IInv, ProcessesInOrder, Up
      <4>2. \A q \in Process : q # p => mode'[q] = mode[q]
        BY <1>0, <3>1 DEF StartProcess, TypeOK
      <4>3. QED
        BY <2>1, <4>1, <4>2 DEF Attempting, Up
    <3>2. CASE UNCHANGED mode
      BY <2>1, <3>2 DEF Attempting, Up
    <3>3. QED
      BY <1>2, <3>1, <3>2 DEF List, Notify, Choose, Rerun, GoOn, vars
  <2>3. AAttempt' = AAttempt
    BY <1>0, <2>1, <2>2, AttemptStays, NoneMoves
  <2>4. QED
    BY <1>1, <2>1, <2>3
<1>3. ASSUME NEW p \in Process, Die(p) PROVE Life!Next
  <2> DEFINE lost == {d \in Delivery : Attempting(p, d)}
  <2>1. /\ UNCHANGED <<status, scans>>
        /\ \A d \in Delivery : ~Attempting(p, d)'
        /\ \A q \in Process : \A d \in Delivery : q # p =>
             /\ Attempting(q, d)' <=> Attempting(q, d)
             /\ stage'[q][d] = stage[q][d]
    BY <1>0, <1>3 DEF Die, Attempting, Up, TypeOK
  <2>2. ASSUME NEW d \in Delivery PROVE AAttempt'[d] = IF d \in lost THEN "none" ELSE AAttempt[d]
    <3>1. CASE d \in lost
      <4>1. \A q \in Process : ~Attempting(q, d)'
        BY <1>0, <2>1, <3>1 DEF OneAttemptAtATime
      <4>2. QED
        BY <1>0, <3>1, <4>1, AttemptCasesNext
    <3>2. CASE d \notin lost
      BY <1>0, <2>1, <3>2, AttemptStays
    <3>3. QED
      BY <3>1, <3>2
  <2>3. lost \in SUBSET {d \in Delivery : AAttempt[d] # "none"}
    BY <1>0, AttemptCases
  <2> HIDE DEF lost
  <2>4. AAttempt' = [d \in Delivery |-> IF d \in lost THEN "none" ELSE AAttempt[d]]
    BY <2>2 DEF AAttempt
  <2>5. Life!Abandon(lost)
    BY <2>1, <2>4 DEF Life!Abandon, AAttempt
  <2>6. QED
    BY <2>3, <2>5 DEF Life!Next, AAttempt
<1>4. ASSUME NEW p \in Process, NEW d \in Delivery, Accept(p, d) PROVE Life!Record(d)
  <2>1. /\ status[d] = "none" /\ status' = [status EXCEPT ![d] = "pending"]
        /\ UNCHANGED <<mode, scans>> /\ SetStage(p, d, "accepted") /\ Up(p)
    BY <1>4 DEF Accept
  <2>2. \A q \in Process : ~Attempting(q, d)
    BY <2>1 DEF IInv, AttemptsDated
  <2>3. /\ stage'[p][d] = "accepted"
        /\ \A e \in Delivery : e # d => AAttempt'[e] = AAttempt[e]
    BY <2>1, OthersStay
  <2>4. Attempting(p, d)'
    BY <2>1, <2>3 DEF Attempting, Up
  <2>5. AAttempt[d] = "none" /\ AAttempt'[d] = "ready"
    BY <1>0, <2>2, <2>3, <2>4, AttemptCases, AttemptCasesNext
  <2>6. AAttempt' = [AAttempt EXCEPT ![d] = "ready"]
    BY <2>3, <2>5, OneMoves
  <2>7. QED
    BY <2>1, <2>5, <2>6 DEF Life!Record, Life!Attempt, AAttempt
<1>5. ASSUME NEW p \in Process, NEW d \in Delivery, AcceptUnrecorded(p, d) \/ RefuseUnrecorded(p, d)
      PROVE  UNCHANGED Life!vars
  <2>1. /\ UNCHANGED <<mode, status, scans>> /\ stage[p][d] \in {"none", "unrecorded"}
        /\ SetStage(p, d, "none") \/ SetStage(p, d, "unrecorded")
    BY <1>5 DEF AcceptUnrecorded, RefuseUnrecorded
  <2>2. \A q \in Process : \A e \in Delivery :
          \/ stage'[q][e] = stage[q][e]
          \/ stage[q][e] \in {"none", "unrecorded"} /\ stage'[q][e] \in {"none", "unrecorded"}
    <3>1. PICK to \in {"none", "unrecorded"} : SetStage(p, d, to)
      BY <2>1
    <3>2. stage'[p][d] = to /\ \A q \in Process : \A e \in Delivery : q # p \/ e # d => stage'[q][e] = stage[q][e]
      BY <1>0, <3>1 DEF SetStage, TypeOK
    <3>3. QED
      BY <2>1, <3>2
  <2>3. \A q \in Process : \A e \in Delivery :
          /\ Attempting(q, e)' <=> Attempting(q, e)
          /\ Attempting(q, e) => stage'[q][e] = stage[q][e]
    BY <2>1, <2>2 DEF Attempting, Up
  <2>4. AAttempt' = AAttempt
    BY <1>0, <2>3, AttemptStays, NoneMoves
  <2>5. QED
    BY <1>1, <2>1, <2>4
<1>6. ASSUME NEW p \in Process, NEW d \in Delivery,
             Enqueue(p, d) \/ Report(p, d) \/ (Fail(p, d) /\ stage[p][d] = "scanning") \/ Leak(p, d)
      PROVE  UNCHANGED Life!vars
  <2>1. UNCHANGED <<mode, status, scans>> /\ Attempting(p, d)
    BY <1>6 DEF Enqueue, Report, Fail, Leak, Executing, Attempting
  <2>2. CASE Leak(p, d)
    <3>1. \A q \in Process : \A e \in Delivery :
            (Attempting(q, e)' <=> Attempting(q, e)) /\ stage'[q][e] = stage[q][e]
      BY <2>1, <2>2 DEF Leak, Attempting, Up
    <3>2. QED
      BY <1>0, <1>1, <2>1, <3>1, AttemptStays, NoneMoves
  <2>3. CASE Enqueue(p, d)
    <3>1. SetStage(p, d, "queued") /\ AAttempt[d] = "ready"
      BY <1>0, <2>1, <2>3, AttemptCases DEF Enqueue
    <3>2. AAttempt' = [AAttempt EXCEPT ![d] = "ready"]
      BY <2>1, <3>1, Moves
    <3>3. AAttempt' = AAttempt
      BY <3>1, <3>2 DEF AAttempt
    <3>4. QED
      BY <1>1, <2>1, <3>3
  <2>4. CASE Report(p, d) \/ (Fail(p, d) /\ stage[p][d] = "scanning")
    <3>1. PICK to \in {"scanned", "failed"} : SetStage(p, d, to)
      BY <2>4 DEF Report, Fail
    <3>2. AAttempt[d] = "working"
      BY <1>0, <2>1, <2>4, AttemptCases DEF Report
    <3>3. AAttempt' = [AAttempt EXCEPT ![d] = "working"]
      BY <2>1, <3>1, Moves
    <3>4. AAttempt' = AAttempt
      BY <3>2, <3>3 DEF AAttempt
    <3>5. QED
      BY <1>1, <2>1, <3>4
  <2>5. QED
    BY <1>6, <2>2, <2>3, <2>4
<1>7. ASSUME NEW p \in Process, NEW d \in Delivery, Refuse(p, d) \/ (Fail(p, d) /\ stage[p][d] # "scanning")
      PROVE  Life!Decline(d)
  <2>1. /\ UNCHANGED <<mode, status, scans>> /\ Attempting(p, d) /\ stage[p][d] = "queued"
        /\ SetStage(p, d, "skipped") \/ SetStage(p, d, "failed")
    BY <1>7 DEF Refuse, Fail, Executing, Attempting
  <2>2. AAttempt[d] = "ready" /\ AAttempt' = [AAttempt EXCEPT ![d] = "working"]
    BY <1>0, <2>1, AttemptCases, Moves
  <2>3. QED
    BY <2>1, <2>2 DEF Life!Decline, Life!Attempt, AAttempt
<1>8. ASSUME NEW p \in Process, NEW d \in Delivery, Scan(p, d) PROVE Life!Scan(d)
  <2>1. /\ UNCHANGED mode /\ Attempting(p, d) /\ stage[p][d] = "queued" /\ SetStage(p, d, "scanning")
        /\ status' = Running(d) /\ scans' = [scans EXCEPT ![d] = @ + 1]
    BY <1>8 DEF Scan, Executing, Attempting
  <2>2. AAttempt[d] = "ready" /\ AAttempt' = [AAttempt EXCEPT ![d] = "working"]
    BY <1>0, <2>1, AttemptCases, Moves
  <2>3. QED
    BY <2>1, <2>2 DEF Life!Scan, Life!Attempt, AAttempt, Running
<1>9. ASSUME NEW p \in Process, NEW d \in Delivery, Close(p, d) PROVE Life!Conclude(d)
  <2>1. /\ UNCHANGED <<mode, scans>> /\ Attempting(p, d) /\ stage[p][d] \in Outcomes
        /\ SetStage(p, d, "none")
        /\ UNCHANGED status \/ TryFinishRow(d, stage[p][d])
    BY <1>9 DEF Close, Executing, Attempting
  <2>2. stage[p][d] \in Life!Outcomes /\ stage[p][d] \notin {"accepted", "queued"}
    BY <2>1 DEF Outcomes, Life!Outcomes
  <2>3. AAttempt[d] = "working" /\ AAttempt' = [AAttempt EXCEPT ![d] = "none"]
    BY <1>0, <2>1, <2>2, AttemptCases, Moves
  <2>4. Life!MayBecome(d, stage[p][d])
    BY <1>0, <2>1, RowBecomes DEF Life!MayBecome
  <2>5. \E outcome \in Life!Outcomes : Life!MayBecome(d, outcome)
    BY <2>2, <2>4
  <2>6. QED
    BY <2>1, <2>3, <2>5 DEF Life!Conclude, Life!Attempt, AAttempt
<1>10. ASSUME NEW p \in Process, NEW d \in Delivery, TimeOut(p, d) PROVE Life!Expire(d)
  <2>1. UNCHANGED <<mode, scans, stage>> /\ Attempting(p, d) /\ TryFinishRow(d, "timed_out")
    BY <1>10 DEF TimeOut, Executing, Attempting
  <2>2. \A q \in Process : \A e \in Delivery : Attempting(q, e)' <=> Attempting(q, e)
    BY <2>1 DEF Attempting, Up
  <2>3. AAttempt' = AAttempt /\ AAttempt[d] # "none"
    BY <1>0, <2>1, <2>2, AttemptStays, NoneMoves, AttemptCases
  <2>4. Life!MayBecome(d, "timed_out")
    BY <1>0, <2>1, RowBecomes
  <2>5. QED
    BY <2>1, <2>3, <2>4 DEF Life!Expire, AAttempt
<1>11. ASSUME NEW p \in Process, Supersede(p) \/ GiveUp(p) PROVE Life!Next
  <2>1. UNCHANGED <<mode, scans, stage>> /\ todo[p] # {} /\ sweep[p] = "next"
    BY <1>11 DEF Supersede, GiveUp, AtRow
  <2>2. \A q \in Process : \A e \in Delivery : Attempting(q, e)' <=> Attempting(q, e)
    BY <2>1 DEF Attempting, Up
  <2>3. AAttempt' = AAttempt
    BY <1>0, <2>1, <2>2, AttemptStays, NoneMoves
  <2>4. PICK d \in Delivery : d = Current(p).of /\ AAttempt[d] = "none"
    BY <2>1, NobodyAtTheRow
  <2>5. CASE Supersede(p)
    <3>1. Life!MayBecome(d, "superseded")
      BY <1>0, <2>4, <2>5, RowBecomes DEF Supersede
    <3>2. Life!Supersede(d)
      BY <2>1, <2>3, <2>4, <3>1 DEF Life!Supersede, AAttempt
    <3>3. QED
      BY <3>2 DEF Life!Next
  <2>6. CASE GiveUp(p)
    <3>1. status[d] = "retrying"
      BY <2>1, <2>4, <2>6, NobodyAtTheRow DEF GiveUp, SweepOwnsItsRows, OwnsRow
    <3>2. status' = [status EXCEPT ![d] = "interrupted"]
      BY <1>0, <2>4, <2>6, <3>1 DEF GiveUp, FinishRow, Unfinished
    <3>3. Life!GiveUp(d)
      BY <2>1, <2>3, <2>4, <3>1, <3>2 DEF Life!GiveUp, AAttempt
    <3>4. QED
      BY <3>3 DEF Life!Next
  <2>7. QED
    BY <1>11, <2>5, <2>6
<1>12. ASSUME NEW p \in Process, MarkRetrying(p) PROVE Life!Next \/ UNCHANGED Life!vars
  <2>1. UNCHANGED <<mode, scans>> /\ todo[p] # {} /\ sweep[p] = "marking"
    BY <1>12 DEF MarkRetrying, AtRow
  <2>2. PICK d \in Delivery : /\ d = Current(p).of /\ AAttempt[d] = "none"
                              /\ \A q \in Process : ~Attempting(q, d)
    BY <2>1, NobodyAtTheRow
  <2>3. CASE MayRetry(d) /\ status' = [status EXCEPT ![d] = "retrying"] /\ SetStage(p, d, "accepted")
    <3>1. /\ stage'[p][d] = "accepted"
          /\ \A e \in Delivery : e # d => AAttempt'[e] = AAttempt[e]
      BY <2>1, <2>3, OthersStay
    <3>2. Up(p)
      BY <1>12 DEF MarkRetrying, AtRow
    <3>3. Attempting(p, d)'
      BY <2>1, <3>1, <3>2 DEF Attempting, Up
    <3>4. AAttempt'[d] = "ready"
      BY <1>0, <3>1, <3>3, AttemptCasesNext
    <3>5. AAttempt' = [AAttempt EXCEPT ![d] = "ready"]
      BY <3>1, <3>4, OneMoves
    <3>6. Life!Retry(d)
      BY <2>1, <2>2, <2>3, <3>5 DEF Life!Retry, Life!Attempt, MayRetry, AAttempt
    <3>7. QED
      BY <3>6 DEF Life!Next
  <2>4. CASE UNCHANGED <<status, stage>>
    <3>1. \A q \in Process : \A e \in Delivery : Attempting(q, e)' <=> Attempting(q, e)
      BY <2>1, <2>4 DEF Attempting, Up
    <3>2. AAttempt' = AAttempt
      BY <1>0, <2>4, <3>1, AttemptStays, NoneMoves
    <3>3. QED
      BY <1>1, <2>1, <2>4, <3>2
  <2>5. QED
    BY <1>12, <2>2, <2>3, <2>4 DEF MarkRetrying
<1>13. ASSUME NEW d \in Delivery,
              \/ Life!Record(d) \/ Life!Scan(d) \/ Life!Decline(d) \/ Life!Conclude(d) \/ Life!Expire(d)
       PROVE  Life!Next
  BY <1>13 DEF Life!Next
<1>14. CASE UNCHANGED vars
  <2>1. PICK p \in Process : TRUE
    BY RunsAssumption DEF Process
  <2>2. QED
    BY <1>2, <1>14, <2>1
<1>15. CASE Next
  <2>1. PICK p \in Process :
          \/ StartProcess(p) \/ Die(p)
          \/ \E d \in Delivery :
               \/ Accept(p, d) \/ AcceptUnrecorded(p, d) \/ RefuseUnrecorded(p, d)
               \/ Enqueue(p, d) \/ Refuse(p, d) \/ Scan(p, d) \/ Report(p, d)
               \/ Fail(p, d) \/ Close(p, d) \/ TimeOut(p, d) \/ Leak(p, d)
          \/ List(p) \/ Supersede(p) \/ GiveUp(p) \/ Notify(p)
          \/ Choose(p) \/ MarkRetrying(p) \/ Rerun(p) \/ GoOn(p)
    BY <1>15 DEF Next
  <2>2. CASE \E d \in Delivery :
               \/ Accept(p, d) \/ AcceptUnrecorded(p, d) \/ RefuseUnrecorded(p, d)
               \/ Enqueue(p, d) \/ Refuse(p, d) \/ Scan(p, d) \/ Report(p, d)
               \/ Fail(p, d) \/ Close(p, d) \/ TimeOut(p, d) \/ Leak(p, d)
    BY <1>4, <1>5, <1>6, <1>7, <1>8, <1>9, <1>10, <1>13, <2>2, Zenon
  <2>3. QED
    BY <1>2, <1>3, <1>11, <1>12, <2>1, <2>2, Zenon
<1>16. QED
  BY <1>14, <1>15

\* The handler, the store and the sweep together keep what the headers of
\* src/services/scan-run-store.ts and src/services/scan-run-sweeper.ts
\* promise of each delivery: one attempt at a time, one more by a sweep, a scan for
\* each at most, and one final state.
THEOREM Refinement == Spec => ImplementsDeliveryLife
<1>1. Init => IInv /\ SweepOwnsItsRows
  BY InitIInv, InitOwns
<1>2. IInv /\ SweepOwnsItsRows /\ [Next]_vars => IInv' /\ SweepOwnsItsRows'
  BY NextTypeOK, NextConsistent, NextOwns DEF IInv, Consistent
<1>3. IInv /\ IInv' /\ SweepOwnsItsRows /\ [Next]_vars => [Life!Next]_(Life!vars)
  BY RefineNext
<1>4. QED
  BY RefineInit, <1>1, <1>2, <1>3, PTL DEF Spec, ImplementsDeliveryLife, Life!Spec

=============================================================================
