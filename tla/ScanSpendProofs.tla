-------------------------- MODULE ScanSpendProofs --------------------------
(* What the spend guard, the deadline and the row's cost_usd guarantee, for  *)
(* any number of scans, calls and calls in flight, and for any cap.          *)
EXTENDS ScanSpend, TLAPS, FiniteSetTheorems

\* The ledger rows of some scans are finitely many.
LEMMA LedgerCounts ==
  ASSUME TypeOK, NEW S \in SUBSET Scan
  PROVE  IsFiniteSet(LedgerRows(S)) /\ LedgerOf(S) \in Nat
<1>1. IsFiniteSet(S) /\ IsFiniteSet(1..MaxCalls)
  BY SpendAssumption, FS_Subset, FS_Interval
<1>2. IsFiniteSet(S \X (1..MaxCalls))
  BY <1>1, FS_Product
<1>3. IsFiniteSet(LedgerRows(S))
  BY <1>2, FS_Subset DEF LedgerRows
<1>4. QED
  BY <1>3, FS_CardinalityType DEF LedgerOf

\* A write that lands moves one call from the pending to the recorded ones.
LEMMA RecordArithmetic ==
  ASSUME NEW l \in Nat, NEW w \in Nat, w > 0, NEW n \in Nat, NEW f \in Nat, NEW m \in Nat,
         n = l + w, f + w <= m
  PROVE  (l + 1) + (w - 1) = n /\ f + (w - 1) <= m
  OBVIOUS

\* Nothing is spent before the first scan.
LEMMA InitIInv == Init => IInv
  BY SpendAssumption DEF Init, IInv, TypeOK, Accounts, AccountsOf, SpendOnlyInTheWorkflow, RowCounts,
     Closed, Decided, Quiet, Stages, Codes

\* Every step of one scan keeps the invariant.
LEMMA NextIInv == IInv /\ [Next]_vars => IInv'
<1> SUFFICES ASSUME IInv, [Next]_vars PROVE IInv'
  OBVIOUS
<1> USE SpendAssumption DEF IInv, TypeOK, Stages, Codes, vars, callVars
<1>1. ASSUME NEW s \in Scan, Start(s) PROVE IInv'
  <2>1. TypeOK'
    BY <1>1 DEF Start, Accounts, AccountsOf
  <2>2. Accounts'
    BY <1>1 DEF Start, Accounts, AccountsOf
  <2>3. SpendOnlyInTheWorkflow'
    BY <1>1 DEF Start, SpendOnlyInTheWorkflow, Quiet
  <2>4. RowCounts'
    BY <1>1 DEF Start, Accounts, AccountsOf, SpendOnlyInTheWorkflow, RowCounts, Closed, Decided, Quiet
  <2>5. QED
    BY <2>1, <2>2, <2>3, <2>4
<1>2. ASSUME NEW s \in Scan, PassGate(s) PROVE IInv'
  <2>1. TypeOK'
    <3>1. Neighbours(s) \in SUBSET Scan
      BY DEF Neighbours
    <3>2. LedgerOf(Neighbours(s)) \in Nat
      BY <3>1, LedgerCounts
    <3>3. QED
      BY <1>2, <3>2 DEF PassGate
  <2>2. Accounts'
    BY <1>2 DEF PassGate, Accounts, AccountsOf
  <2>3. SpendOnlyInTheWorkflow'
    BY <1>2 DEF PassGate, SpendOnlyInTheWorkflow, Quiet
  <2>4. RowCounts'
    BY <1>2 DEF PassGate, Accounts, AccountsOf, SpendOnlyInTheWorkflow, RowCounts, Closed, Decided, Quiet
  <2>5. QED
    BY <2>1, <2>2, <2>3, <2>4
<1>3. ASSUME NEW s \in Scan, RefuseScan(s) PROVE IInv'
  <2>1. TypeOK'
    BY <1>3 DEF RefuseScan, Accounts, AccountsOf
  <2>2. Accounts'
    BY <1>3 DEF RefuseScan, Accounts, AccountsOf
  <2>3. SpendOnlyInTheWorkflow'
    BY <1>3 DEF RefuseScan, SpendOnlyInTheWorkflow, Quiet
  <2>4. RowCounts'
    BY <1>3 DEF RefuseScan, Accounts, AccountsOf, SpendOnlyInTheWorkflow, RowCounts, Closed, Decided, Quiet
  <2>5. QED
    BY <2>1, <2>2, <2>3, <2>4
<1>4. ASSUME NEW s \in Scan, StartCall(s) PROVE IInv'
  <2>1. TypeOK'
    BY <1>4 DEF StartCall, MayCall, Accounts, AccountsOf
  <2>2. Accounts'
    BY <1>4 DEF StartCall, MayCall, Accounts, AccountsOf
  <2>3. SpendOnlyInTheWorkflow'
    BY <1>4 DEF StartCall, MayCall, SpendOnlyInTheWorkflow, Quiet
  <2>4. RowCounts'
    BY <1>4 DEF StartCall, MayCall, Accounts, AccountsOf, SpendOnlyInTheWorkflow, RowCounts, Closed, Decided, Quiet
  <2>5. QED
    BY <2>1, <2>2, <2>3, <2>4
<1>5. ASSUME NEW s \in Scan, CallFails(s) PROVE IInv'
  <2>1. TypeOK'
    BY <1>5 DEF CallFails, Accounts, AccountsOf
  <2>2. Accounts'
    BY <1>5 DEF CallFails, Accounts, AccountsOf
  <2>3. SpendOnlyInTheWorkflow'
    BY <1>5 DEF CallFails, SpendOnlyInTheWorkflow, Quiet
  <2>4. RowCounts'
    BY <1>5 DEF CallFails, Accounts, AccountsOf, SpendOnlyInTheWorkflow, RowCounts, Closed, Decided, Quiet
  <2>5. QED
    BY <2>1, <2>2, <2>3, <2>4
<1>6. ASSUME NEW s \in Scan, CallPaid(s) PROVE IInv'
  <2>1. TypeOK'
    BY <1>6 DEF CallPaid, Accounts, AccountsOf
  <2>2. Accounts'
    <3>1. ledger' = ledger /\ failed' = failed
      BY <1>6 DEF CallPaid
    <3>2. AccountsOf(s)'
      <4>1. AccountsOf(s) /\ flying[s] \in Nat /\ spent[s] \in Nat /\ ledger[s] \in Nat
            /\ writing[s] \in Nat /\ flying[s] > 0
        BY <1>6 DEF CallPaid, Accounts
      <4>2. flying'[s] = flying[s] - 1 /\ writing'[s] = writing[s] + 1 /\ spent'[s] = spent[s] + 1
        BY <1>6 DEF CallPaid
      <4>3. QED
        BY <3>1, <4>1, <4>2 DEF AccountsOf
    <3>3. ASSUME NEW r \in Scan, r # s PROVE AccountsOf(r)'
      <4>1. AccountsOf(r) /\ writing'[r] = writing[r] /\ flying'[r] = flying[r] /\ spent'[r] = spent[r]
        BY <1>6, <3>3 DEF CallPaid, Accounts
      <4>2. QED
        BY <3>1, <4>1 DEF AccountsOf
    <3>4. QED
      BY <3>2, <3>3 DEF Accounts
  <2>3. SpendOnlyInTheWorkflow'
    BY <1>6 DEF CallPaid, SpendOnlyInTheWorkflow, Quiet
  <2>4. RowCounts'
    BY <1>6 DEF CallPaid, Accounts, AccountsOf, SpendOnlyInTheWorkflow, RowCounts, Closed, Decided, Quiet
  <2>5. QED
    BY <2>1, <2>2, <2>3, <2>4
<1>7. ASSUME NEW s \in Scan, Record(s) PROVE IInv'
  <2>1. TypeOK'
    BY <1>7 DEF Record, Accounts, AccountsOf
  <2>2. Accounts'
    <3>1. flying' = flying /\ spent' = spent
      BY <1>7 DEF Record
    <3>2. writing'[s] = writing[s] - 1 /\ ledger'[s] = ledger[s] + 1
      BY <1>7 DEF Record
    <3> failed' = failed
      BY <1>7 DEF Record
    <3>3. AccountsOf(s)'
      <4>1. AccountsOf(s) /\ flying[s] \in Nat /\ spent[s] \in Nat /\ ledger[s] \in Nat
            /\ writing[s] \in Nat /\ writing[s] > 0
        BY <1>7 DEF Record, Accounts
      <4>2. CASE failed[s]
        BY <3>1, <3>2, <4>1, <4>2 DEF AccountsOf
      <4>3. CASE ~failed[s]
        <5>1. spent[s] = ledger[s] + writing[s] /\ flying[s] + writing[s] <= MaxInFlight
              /\ spent[s] + flying[s] <= MaxCalls
          BY <4>1, <4>3 DEF AccountsOf
        <5>2. ledger'[s] + writing'[s] = spent[s] /\ flying[s] + writing'[s] <= MaxInFlight
          <6> HIDE DEF IInv, TypeOK
          <6>1. (ledger[s] + 1) + (writing[s] - 1) = spent[s] /\ flying[s] + (writing[s] - 1) <= MaxInFlight
            BY <4>1, <5>1, RecordArithmetic
          <6>2. QED
            BY <3>2, <6>1, Zenon
        <5>3. ~failed'[s]
          BY <4>3
        <5>4. QED
          BY <3>1, <4>1, <5>1, <5>2, <5>3 DEF AccountsOf
      <4>4. QED
        BY <4>2, <4>3
    <3>4. ASSUME NEW r \in Scan, r # s PROVE AccountsOf(r)'
      <4>1. AccountsOf(r) /\ writing'[r] = writing[r] /\ ledger'[r] = ledger[r]
            /\ failed'[r] = failed[r]
        BY <1>7, <3>4 DEF Record, Accounts
      <4>2. QED
        BY <3>1, <4>1 DEF AccountsOf
    <3>5. QED
      BY <3>3, <3>4 DEF Accounts
  <2>3. SpendOnlyInTheWorkflow'
    BY <1>7 DEF Record, SpendOnlyInTheWorkflow, Quiet
  <2>4. RowCounts'
    BY <1>7 DEF Record, Accounts, AccountsOf, SpendOnlyInTheWorkflow, RowCounts, Closed, Decided, Quiet
  <2>5. QED
    BY <2>1, <2>2, <2>3, <2>4
<1>8. ASSUME NEW s \in Scan, Lose(s) PROVE IInv'
  <2>1. TypeOK'
    BY <1>8 DEF Lose, Accounts, AccountsOf
  <2>2. Accounts'
    <3>1. flying' = flying /\ spent' = spent
      BY <1>8 DEF Lose
    <3>2. writing'[s] = writing[s] - 1 /\ ledger'[s] = ledger[s] /\ failed'[s]
      BY <1>8 DEF Lose
    <3>3. AccountsOf(s)'
      <4>1. AccountsOf(s) /\ flying[s] \in Nat /\ spent[s] \in Nat /\ ledger[s] \in Nat
            /\ writing[s] \in Nat /\ writing[s] > 0
        BY <1>8 DEF Lose, Accounts, AccountsOf
      <4>2. QED
        BY <3>1, <3>2, <4>1 DEF AccountsOf
    <3>4. ASSUME NEW r \in Scan, r # s PROVE AccountsOf(r)'
      <4>1. AccountsOf(r) /\ writing'[r] = writing[r] /\ ledger'[r] = ledger[r]
            /\ failed'[r] = failed[r]
        BY <1>8, <3>4 DEF Lose, Accounts, AccountsOf
      <4>2. QED
        BY <3>1, <4>1 DEF AccountsOf
    <3>5. QED
      BY <3>3, <3>4 DEF Accounts
  <2>3. SpendOnlyInTheWorkflow'
    \* A write is pending: the workflow runs, or it was abandoned.
    <3>1. ~Quiet(s)
      BY <1>8 DEF Lose, Quiet
    <3>2. /\ stage[s] = "scanning" \/ abandoned[s]
          /\ stage[s] \notin {"queued", "started", "refused"}
      BY <3>1 DEF SpendOnlyInTheWorkflow
    <3>3. /\ UNCHANGED <<stage, abandoned, detecting, flying, unrecorded>>
          /\ \A r \in Scan : r # s => writing'[r] = writing[r] /\ failed'[r] = failed[r]
      BY <1>8 DEF Lose
    <3>4. QED
      BY <3>2, <3>3 DEF SpendOnlyInTheWorkflow, Quiet
  <2>4. RowCounts'
    <3>1. UNCHANGED <<stage, spent, flying, row, cancelled, abandoned>>
      BY <1>8 DEF Lose
    <3>2. QED
      BY <3>1 DEF RowCounts, Closed, Decided
  <2>5. QED
    BY <2>1, <2>2, <2>3, <2>4
<1>9. ASSUME NEW s \in Scan, EndWorkflow(s) PROVE IInv'
  <2>1. TypeOK'
    BY <1>9 DEF EndWorkflow, Accounts, AccountsOf
  <2>2. Accounts'
    BY <1>9 DEF EndWorkflow, Accounts, AccountsOf
  <2>3. SpendOnlyInTheWorkflow'
    BY <1>9 DEF EndWorkflow, SpendOnlyInTheWorkflow, Quiet
  <2>4. RowCounts'
    BY <1>9 DEF EndWorkflow, Accounts, AccountsOf, SpendOnlyInTheWorkflow, RowCounts, Closed, Decided, Quiet
  <2>5. QED
    BY <2>1, <2>2, <2>3, <2>4
<1>10. ASSUME NEW s \in Scan, WorkflowTimeout(s) PROVE IInv'
  <2>1. TypeOK'
    BY <1>10 DEF WorkflowTimeout, Accounts, AccountsOf
  <2>2. Accounts'
    BY <1>10 DEF WorkflowTimeout, Accounts, AccountsOf
  <2>3. SpendOnlyInTheWorkflow'
    BY <1>10 DEF WorkflowTimeout, SpendOnlyInTheWorkflow, Quiet
  <2>4. RowCounts'
    BY <1>10 DEF WorkflowTimeout, Accounts, AccountsOf, SpendOnlyInTheWorkflow, RowCounts, Closed, Decided, Quiet
  <2>5. QED
    BY <2>1, <2>2, <2>3, <2>4
<1>11. ASSUME NEW s \in Scan, Settle(s) PROVE IInv'
  <2>1. TypeOK'
    BY <1>11 DEF Settle, CloseRow, Leave, Outcome, Accounts, AccountsOf
  <2>2. Accounts'
    BY <1>11 DEF Settle, CloseRow, Leave, Outcome, Accounts, AccountsOf
  <2>3. SpendOnlyInTheWorkflow'
    BY <1>11 DEF Settle, CloseRow, Leave, Outcome, SpendOnlyInTheWorkflow, Quiet
  <2>4. RowCounts'
    BY <1>11 DEF Settle, CloseRow, Leave, Outcome, Accounts, AccountsOf, SpendOnlyInTheWorkflow, RowCounts, Closed, Decided, Quiet
  <2>5. QED
    BY <2>1, <2>2, <2>3, <2>4
<1>12. ASSUME NEW s \in Scan, Throw(s) PROVE IInv'
  <2>1. TypeOK'
    BY <1>12 DEF Throw, CloseRow, Leave, Accounts, AccountsOf
  <2>2. Accounts'
    BY <1>12 DEF Throw, CloseRow, Leave, Accounts, AccountsOf
  <2>3. SpendOnlyInTheWorkflow'
    BY <1>12 DEF Throw, CloseRow, Leave, SpendOnlyInTheWorkflow, Quiet
  <2>4. RowCounts'
    BY <1>12 DEF Throw, CloseRow, Leave, Accounts, AccountsOf, SpendOnlyInTheWorkflow, RowCounts, Closed, Decided, Quiet
  <2>5. QED
    BY <2>1, <2>2, <2>3, <2>4
<1>13. ASSUME NEW s \in Scan, Deadline(s) PROVE IInv'
  <2>1. TypeOK'
    BY <1>13 DEF Deadline, CloseRow, DeadlineCode, Accounts, AccountsOf
  <2>2. Accounts'
    BY <1>13 DEF Deadline, CloseRow, DeadlineCode, Accounts, AccountsOf
  <2>3. SpendOnlyInTheWorkflow'
    BY <1>13 DEF Deadline, CloseRow, DeadlineCode, SpendOnlyInTheWorkflow, Quiet
  <2>4. RowCounts'
    BY <1>13 DEF Deadline, CloseRow, DeadlineCode, Accounts, AccountsOf, SpendOnlyInTheWorkflow, RowCounts, Closed, Decided, Quiet
  <2>5. QED
    BY <2>1, <2>2, <2>3, <2>4
<1>14. ASSUME NEW s \in Scan, Leak(s) PROVE IInv'
  <2>1. TypeOK'
    BY <1>14 DEF Leak, Accounts, AccountsOf
  <2>2. Accounts'
    BY <1>14 DEF Leak, Accounts, AccountsOf
  <2>3. SpendOnlyInTheWorkflow'
    BY <1>14 DEF Leak, SpendOnlyInTheWorkflow, Quiet
  <2>4. RowCounts'
    BY <1>14 DEF Leak, Accounts, AccountsOf, SpendOnlyInTheWorkflow, RowCounts, Closed, Decided, Quiet
  <2>5. QED
    BY <2>1, <2>2, <2>3, <2>4
<1>15. ASSUME NEW s \in Scan, RefuseComment(s) PROVE IInv'
  <2>1. TypeOK'
    BY <1>15 DEF RefuseComment, CloseRow, Leave, RefusedOutcome, Accounts, AccountsOf
  <2>2. Accounts'
    BY <1>15 DEF RefuseComment, CloseRow, Leave, RefusedOutcome, Accounts, AccountsOf
  <2>3. SpendOnlyInTheWorkflow'
    BY <1>15 DEF RefuseComment, CloseRow, Leave, RefusedOutcome, SpendOnlyInTheWorkflow, Quiet
  <2>4. RowCounts'
    BY <1>15 DEF RefuseComment, CloseRow, Leave, RefusedOutcome, Accounts, AccountsOf,
       SpendOnlyInTheWorkflow, RowCounts, Closed, Decided, Quiet
  <2>5. QED
    BY <2>1, <2>2, <2>3, <2>4
<1>16. CASE UNCHANGED vars
  BY <1>16 DEF Accounts, AccountsOf, SpendOnlyInTheWorkflow, RowCounts, Closed, Decided, Quiet
<1>17. QED
  BY <1>1, <1>2, <1>3, <1>4, <1>5, <1>6, <1>7, <1>8, <1>9, <1>10, <1>11, <1>12, <1>13, <1>14, <1>15, <1>16
  DEF Next

\* The invariant holds in every reachable state.
THEOREM Inductive == Spec => []IInv
  BY InitIInv, NextIInv, PTL DEF Spec

\* Type correctness.
THEOREM TypeCorrect == Spec => []TypeOK
<1>1. IInv => TypeOK
  BY DEF IInv
<1>2. QED
  BY Inductive, <1>1, PTL

\* A failed ledger write loses at most the calls under way (callClaude,
\* markLedgerWriteFailed).
THEOREM BoundedLoss == Spec => []LossIsBounded
<1>1. IInv => LossIsBounded
  BY SpendAssumption DEF IInv, TypeOK, Accounts, AccountsOf, LossIsBounded
<1>2. QED
  BY Inductive, <1>1, PTL

\* cost_usd is the scan's spend, but for calls in flight at its deadline
\* (runAccepted, onDeadline).
THEOREM CostOnTheRow == Spec => []SpendAfterClosingIsBounded
<1>1. IInv => SpendAfterClosingIsBounded
  BY SpendAssumption DEF IInv, TypeOK, Accounts, AccountsOf, RowCounts, SpendAfterClosingIsBounded, Decided, Closed
<1>2. QED
  BY Inductive, <1>1, PTL

\* A lost ledger write shows on the row, in its cost and in its code, but for
\* a comment that GitHub refused (scannedOutcome, onDeadline).
THEOREM LossOnTheRow == Spec => LostSpendIsOnTheRow
<1> DEFINE Tells == \A s \in Scan :
      ~Closed(s) /\ Decided(s)' /\ failed[s] /\ ~abandoned[s] =>
         /\ row'[s].cost > ledger[s] + writing[s]
         /\ row'[s].code \in {"spend_unrecorded", "comment_refused"}
         /\ row'[s].code = "comment_refused" => ~cancelled'[s]
<1>1. ASSUME IInv, Next, NEW s \in Scan, ~Closed(s), Decided(s)', failed[s], ~abandoned[s]
      PROVE  /\ row'[s].cost > ledger[s] + writing[s]
             /\ row'[s].code \in {"spend_unrecorded", "comment_refused"}
             /\ row'[s].code = "comment_refused" => ~cancelled'[s]
  <2>1. /\ TypeOK /\ row[s].code = "open" /\ row'[s].code # "open" /\ ~cancelled[s]
        /\ spent[s] > ledger[s] + writing[s]
        /\ stage[s] \notin {"queued", "started", "refused"}
        /\ stage[s] = "returned" => unrecorded[s]
    BY <1>1 DEF IInv, Accounts, AccountsOf, SpendOnlyInTheWorkflow, RowCounts, Closed, Decided
  \* Only the deadline and the end of the work close an open row with a
  \* decided outcome.
  <2>2. PICK r \in Scan : Settle(r) \/ RefuseComment(r) \/ Throw(r) \/ Deadline(r)
    BY <1>1, <2>1 DEF Next, Start, PassGate, RefuseScan, StartCall, CallFails, CallPaid, Record, Lose,
       EndWorkflow, WorkflowTimeout, Leak
  <2>3. CASE Settle(r)
    BY <1>1, <2>1, <2>3 DEF TypeOK, Settle, CloseRow, Leave, Outcome
  <2>4. CASE RefuseComment(r)
    BY <1>1, <2>1, <2>4 DEF TypeOK, RefuseComment, CloseRow, Leave, RefusedOutcome
  <2>5. CASE Throw(r)
    BY <1>1, <2>1, <2>5 DEF TypeOK, Throw, CloseRow, Leave, Decided
  <2>6. CASE Deadline(r)
    BY <1>1, <2>1, <2>6 DEF TypeOK, Deadline, CloseRow, DeadlineCode
  <2>7. QED
    BY <2>2, <2>3, <2>4, <2>5, <2>6
<1>2. IInv /\ [Next]_vars => [Tells]_vars
  BY <1>1
<1>3. QED
  BY Inductive, <1>2, PTL DEF Spec, LostSpendIsOnTheRow

-----------------------------------------------------------------------------
(* The cap. *)

\* A process has one running scan at a time, so what the running scans may
\* have in the ledger in the end is at most MaxCalls rows for each of them.
LEMMA OneClaimPerProcess ==
  ASSUME TypeOK, NEW R \in SUBSET Scan,
         \A s, r \in R : home[s] = home[r] => s = r
  PROVE  /\ IsFiniteSet(Homes) /\ Cardinality(Homes) \in Nat
         /\ IsFiniteSet(R \X (1..MaxCalls))
         /\ Cardinality(R \X (1..MaxCalls)) <= Cardinality(Homes) * MaxCalls
<1> DEFINE Calls == 1..MaxCalls
           f == [c \in R \X Calls |-> <<home[c[1]], c[2]>>]
<1>1. Homes \in SUBSET Process /\ \A s \in R : home[s] \in Homes
  BY DEF Homes, TypeOK
<1>2. IsFiniteSet(Homes) /\ Cardinality(Homes) \in Nat
  BY <1>1, SpendAssumption, FS_Subset, FS_CardinalityType
<1>3. IsFiniteSet(Calls) /\ Cardinality(Calls) = MaxCalls
  BY SpendAssumption, FS_Interval
<1>4. IsFiniteSet(Homes \X Calls) /\ Cardinality(Homes \X Calls) = Cardinality(Homes) * MaxCalls
  BY <1>2, <1>3, FS_Product
<1>5. f \in [R \X Calls -> Homes \X Calls]
  BY <1>1
<1>6. \A c, d \in R \X Calls : f[c] = f[d] => c = d
  OBVIOUS
<1>7. f \in Injection(R \X Calls, Homes \X Calls)
  BY <1>5, <1>6 DEF Injection, IsInjective
<1> HIDE DEF f
<1>8. QED
  BY <1>2, <1>4, <1>7, FS_Injection

\* The claims are finite and cover the ledger's rows.
LEMMA ClaimedIsFinite ==
  ASSUME TypeOK
  PROVE  /\ IsFiniteSet(Claimed) /\ Cardinality(Claimed) \in Nat
         /\ LedgerOf(Scan) \in Nat /\ LedgerOf(Scan) <= Cardinality(Claimed)
<1>1. IsFiniteSet(Scan) /\ IsFiniteSet(1..MaxCalls)
  BY SpendAssumption, FS_Interval
<1>2. IsFiniteSet(Claimed)
  <2>1. IsFiniteSet(Scan \X (1..MaxCalls)) /\ Claimed \in SUBSET (Scan \X (1..MaxCalls))
    BY <1>1, FS_Product DEF Claimed
  <2>2. QED
    BY <2>1, FS_Subset
<1>3. LedgerRows(Scan) \in SUBSET Claimed
  BY DEF LedgerRows, Claimed
<1>4. QED
  BY <1>2, <1>3, FS_Subset, FS_CardinalityType DEF LedgerOf

LEMMA InitCap == Init => CapInv
<1> SUFFICES ASSUME Init PROVE CapInv
  OBVIOUS
<1>1. TypeOK
  BY InitIInv DEF IInv
<1>2. SpendOnlyWithTheSlot /\ \A s \in Scan : BudgetReadIsCurrent(s)
  BY DEF Init, SpendOnlyWithTheSlot, BudgetReadIsCurrent, Quiet
<1>3. Claimed = {}
  BY SpendAssumption DEF Init, Claimed, Running
<1>4. Cardinality(Claimed) = 0
  BY <1>3, FS_EmptySet
<1>5. IsFiniteSet(Homes) /\ Homes # {}
  BY <1>1, SpendAssumption, FS_Subset DEF Homes, TypeOK
<1>6. Cardinality(Homes) \in Nat /\ Cardinality(Homes) # 0
  BY <1>5, FS_CardinalityType, FS_EmptySet
<1>7. Cardinality(Homes) * MaxCalls > 0
  BY <1>6, SpendAssumption
<1>8. QED
  BY <1>2, <1>4, <1>6, <1>7, SpendAssumption DEF CapInv

\* Unless a workflow is abandoned, the scans that spend are the ones that read
\* their process's rows, and a scan is admitted only while the ledger is under
\* the cap.
LEMMA NextCap == IInv /\ CapInv /\ [Next]_vars => CapInv'
<1> DEFINE Bound == Cap + Cardinality(Homes) * MaxCalls
<1> SUFFICES ASSUME IInv, CapInv, [Next]_vars, NoneAbandoned'
             PROVE  /\ SpendOnlyWithTheSlot' /\ (\A s \in Scan : BudgetReadIsCurrent(s))'
                    /\ Cardinality(Claimed)' < Bound'
  BY DEF CapInv
<1> USE DEF vars, callVars
<1>0. TypeOK /\ TypeOK' /\ Accounts /\ SpendOnlyInTheWorkflow
  BY NextIInv DEF IInv
<1>1. (\A s \in Scan : abandoned[s] => abandoned'[s]) /\ home' = home
  BY <1>0 DEF TypeOK, Next, Start, PassGate, RefuseScan, StartCall, CallFails, CallPaid, Record, Lose,
     EndWorkflow, WorkflowTimeout, Settle, RefuseComment, Throw, Leave, Deadline, Leak
<1>2. SpendOnlyWithTheSlot /\ (\A s \in Scan : BudgetReadIsCurrent(s)) /\ Cardinality(Claimed) < Bound
      /\ \A s \in Scan : ~abandoned[s] /\ ~abandoned'[s]
  BY <1>1 DEF CapInv, NoneAbandoned
<1>3. Homes' = Homes /\ Bound' = Bound /\ \A s \in Scan : Neighbours(s)' = Neighbours(s)
  BY <1>1 DEF Homes, Neighbours
<1>4. ASSUME Claimed' \subseteq Claimed PROVE Cardinality(Claimed)' < Bound'
  <2>1. Cardinality(Claimed') <= Cardinality(Claimed) /\ Cardinality(Claimed') \in Nat
        /\ Cardinality(Claimed) \in Nat
    BY <1>0, <1>4, ClaimedIsFinite, FS_Subset, FS_CardinalityType
  <2>2. Cardinality(Homes) \in Nat
    <3>1. {} \in SUBSET Scan
      OBVIOUS
    <3>2. QED
      BY <1>0, <3>1, OneClaimPerProcess
  <2>3. Bound \in Nat
    BY <2>2, SpendAssumption
  <2>4. QED
    BY <1>2, <1>3, <2>1, <2>3
<1>5. ASSUME NEW s \in Scan, Record(s)
      PROVE  /\ SpendOnlyWithTheSlot' /\ (\A r \in Scan : BudgetReadIsCurrent(r))'
             /\ Cardinality(Claimed)' < Bound'
  <2>1. held[s] /\ stage[s] \in {"scanning", "returned"} /\ ledger[s] + 1 <= MaxCalls
    BY <1>0, <1>2, <1>5, SpendAssumption DEF Record, SpendOnlyWithTheSlot, SpendOnlyInTheWorkflow, Quiet,
       TypeOK, Accounts, AccountsOf
  <2>2. ledger' = [ledger EXCEPT ![s] = @ + 1] /\ UNCHANGED <<held, stage, seen, spent, cancelled>>
    BY <1>5 DEF Record
  <2>3. SpendOnlyWithTheSlot'
    BY <1>0, <1>1, <1>2, <1>5, <2>1, <2>2 DEF Record, SpendOnlyWithTheSlot, Quiet, TypeOK
  <2>4. ledger[s] < MaxCalls
    BY <1>0, <2>1, SpendAssumption DEF TypeOK
  <2>5. ASSUME NEW r \in Scan, held'[r], stage'[r] \in {"scanning", "returned"}
        PROVE  LedgerOf(Neighbours(r))' = seen'[r]
    \* Another running scan runs in another process.
    <3>1. s \notin Neighbours(r) /\ Neighbours(r) \in SUBSET Scan
      BY <1>2, <2>1, <2>2, <2>5 DEF SpendOnlyWithTheSlot, Neighbours
    <3> DEFINE N == Neighbours(r)
    <3>2. N' = N
      BY <1>3
    <3>3. LedgerOf(N)' = LedgerOf(N)
      <4>1. LedgerRows(N)' = LedgerRows(N)
        <5>1. \A a \in N : ledger'[a] = ledger[a]
          BY <1>0, <2>2, <3>1 DEF TypeOK
        <5> HIDE DEF N
        <5>2. QED
          BY <3>2, <5>1 DEF LedgerRows
      <4> HIDE DEF N
      <4>2. QED
        BY <4>1 DEF LedgerOf
    <3>4. LedgerOf(N) = seen[r]
      BY <1>2, <2>2, <2>5 DEF BudgetReadIsCurrent
    <3>5. QED
      BY <2>2, <3>3, <3>4
  <2>6. (\A r \in Scan : BudgetReadIsCurrent(r))'
    BY <2>5 DEF BudgetReadIsCurrent
  <2>7. Claimed' \subseteq Claimed
    BY <1>0, <2>1, <2>2 DEF Claimed, Running, TypeOK
  <2>8. QED
    BY <1>4, <2>3, <2>6, <2>7
<1>6. ASSUME NEW s \in Scan,
             \/ Start(s) \/ PassGate(s) \/ RefuseScan(s)
             \/ StartCall(s) \/ CallFails(s) \/ CallPaid(s) \/ Lose(s)
             \/ EndWorkflow(s) \/ WorkflowTimeout(s) \/ Settle(s) \/ RefuseComment(s) \/ Throw(s)
             \/ Deadline(s) \/ Leak(s)
      PROVE  SpendOnlyWithTheSlot'
  <2>1. CASE StartCall(s)
    BY <1>0, <1>1, <1>2, <2>1 DEF StartCall, MayCall, SpendOnlyWithTheSlot, SpendOnlyInTheWorkflow, Quiet, TypeOK
  <2>2. CASE CallFails(s)
    BY <1>0, <1>1, <1>2, <2>2 DEF CallFails, SpendOnlyWithTheSlot, SpendOnlyInTheWorkflow, Quiet, TypeOK
  <2>3. CASE CallPaid(s)
    BY <1>0, <1>1, <1>2, <2>3 DEF CallPaid, SpendOnlyWithTheSlot, SpendOnlyInTheWorkflow, Quiet, TypeOK
  <2>4. CASE Lose(s)
    BY <1>0, <1>1, <1>2, <2>4 DEF Lose, SpendOnlyWithTheSlot, SpendOnlyInTheWorkflow, Quiet, TypeOK
  <2>5. CASE EndWorkflow(s)
    BY <1>0, <1>1, <1>2, <2>5 DEF EndWorkflow, SpendOnlyWithTheSlot, SpendOnlyInTheWorkflow, Quiet, TypeOK
  <2>6. CASE WorkflowTimeout(s)
    BY <1>0, <1>1, <1>2, <2>6 DEF WorkflowTimeout, SpendOnlyWithTheSlot, SpendOnlyInTheWorkflow, Quiet, TypeOK
  <2>7. CASE RefuseScan(s)
    BY <1>0, <1>1, <1>2, <2>7 DEF RefuseScan, SpendOnlyWithTheSlot, SpendOnlyInTheWorkflow, Quiet, TypeOK
  <2>8. CASE Settle(s)
    BY <1>0, <1>1, <1>2, <2>8 DEF Settle, CloseRow, Leave, SpendOnlyWithTheSlot, SpendOnlyInTheWorkflow, Quiet, TypeOK
  <2>9. CASE Throw(s)
    BY <1>0, <1>1, <1>2, <2>9 DEF Throw, CloseRow, Leave, SpendOnlyWithTheSlot, SpendOnlyInTheWorkflow, Quiet, TypeOK
  <2>10. CASE RefuseComment(s)
    BY <1>0, <1>1, <1>2, <2>10 DEF RefuseComment, CloseRow, Leave, SpendOnlyWithTheSlot, SpendOnlyInTheWorkflow, Quiet, TypeOK
  <2>11. CASE Deadline(s)
    BY <1>0, <1>1, <1>2, <2>11 DEF Deadline, CloseRow, SpendOnlyWithTheSlot, SpendOnlyInTheWorkflow, Quiet, TypeOK
  <2>12. CASE Leak(s)
    BY <1>0, <1>1, <1>2, <2>12 DEF Leak, HoldExpired, SpendOnlyWithTheSlot, SpendOnlyInTheWorkflow, Quiet, TypeOK
  <2>13. CASE Start(s)
    BY <1>0, <1>1, <1>2, <2>13 DEF Start, KeyFree, SpendOnlyWithTheSlot, SpendOnlyInTheWorkflow, Quiet, TypeOK
  <2>14. CASE PassGate(s)
    BY <1>0, <1>1, <1>2, <2>14 DEF PassGate, SpendOnlyWithTheSlot, SpendOnlyInTheWorkflow, Quiet, TypeOK
  <2>15. QED
    BY <1>6, <2>1, <2>2, <2>3, <2>4, <2>5, <2>6, <2>7, <2>8, <2>9, <2>10, <2>11, <2>12, <2>13, <2>14
\* Steps that write no ledger row.
<1>7. ASSUME ledger' = ledger, NEW s \in Scan PROVE LedgerOf(Neighbours(s))' = LedgerOf(Neighbours(s))
  BY <1>3, <1>7 DEF LedgerOf, LedgerRows
<1>8. ASSUME NEW s \in Scan, PassGate(s)
      PROVE  (\A r \in Scan : BudgetReadIsCurrent(r))' /\ Cardinality(Claimed)' < Bound'
  <2>1. /\ LedgerOf(Scan) < Cap /\ seen' = [seen EXCEPT ![s] = LedgerOf(Neighbours(s))]
        /\ ledger' = ledger /\ held' = held /\ \A r \in Scan : r # s => stage'[r] = stage[r]
    BY <1>0, <1>8, SpendAssumption DEF PassGate, TypeOK
  <2>2. ASSUME NEW r \in Scan, held'[r], stage'[r] \in {"scanning", "returned"}
        PROVE  LedgerOf(Neighbours(r))' = seen'[r]
    <3>1. LedgerOf(Neighbours(r))' = LedgerOf(Neighbours(r))
      BY <1>7, <2>1
    <3>2. CASE r = s
      BY <1>0, <2>1, <3>1, <3>2 DEF TypeOK
    <3>3. CASE r # s
      BY <1>0, <1>2, <2>1, <2>2, <3>1, <3>3 DEF BudgetReadIsCurrent, TypeOK
    <3>4. QED
      BY <3>2, <3>3
  <2>3. (\A r \in Scan : BudgetReadIsCurrent(r))'
    BY <2>2 DEF BudgetReadIsCurrent
  <2> DEFINE R == {r \in Scan : held[r]}
             Rows == R \X (1..MaxCalls)
  <2>4. Claimed' \subseteq LedgerRows(Scan) \cup Rows
    BY <2>1 DEF Claimed, Running, LedgerRows
  <2>5. R \in SUBSET Scan /\ \A a, b \in R : home[a] = home[b] => a = b
    BY <1>2 DEF SpendOnlyWithTheSlot
  <2>6. /\ Cardinality(Homes) \in Nat /\ IsFiniteSet(Rows)
        /\ Cardinality(Rows) <= Cardinality(Homes) * MaxCalls
    <3> HIDE DEF R
    <3>1. QED
      BY <1>0, <2>5, OneClaimPerProcess
  <2>7. IsFiniteSet(LedgerRows(Scan)) /\ LedgerOf(Scan) \in Nat /\ LedgerOf(Scan) = Cardinality(LedgerRows(Scan))
    BY <1>0, LedgerCounts DEF LedgerOf
  <2> HIDE DEF Rows
  <2>8. /\ IsFiniteSet(LedgerRows(Scan) \cup Rows)
        /\ Cardinality(LedgerRows(Scan) \cup Rows)
             = Cardinality(LedgerRows(Scan)) + Cardinality(Rows) - Cardinality(LedgerRows(Scan) \cap Rows)
    BY <2>6, <2>7, FS_Union
  <2>9. Cardinality(Rows) \in Nat /\ Cardinality(LedgerRows(Scan) \cap Rows) \in Nat
    <3>1. IsFiniteSet(LedgerRows(Scan) \cap Rows)
      BY <2>6, FS_Subset
    <3>2. QED
      BY <2>6, <3>1, FS_CardinalityType
  <2>10. Cardinality(Claimed') <= Cardinality(LedgerRows(Scan) \cup Rows) /\ Cardinality(Claimed') \in Nat
    BY <1>0, <2>4, <2>8, FS_Subset, FS_CardinalityType, ClaimedIsFinite
  <2>11. Cardinality(Claimed') < Bound
    <3> DEFINE H == Cardinality(Homes) * MaxCalls
    <3>1. H \in Int /\ Cap \in Nat
      BY <2>6, SpendAssumption
    <3>2. Cardinality(Rows) <= H
      BY <2>6
    <3> HIDE DEF H
    <3>3. Cardinality(Claimed') < Cap + H
      BY <2>1, <2>7, <2>8, <2>9, <2>10, <3>1, <3>2
    <3>4. QED
      BY <3>3 DEF H
  <2>12. QED
    BY <1>3, <2>3, <2>11
<1>9. ASSUME NEW s \in Scan,
             \/ Start(s) \/ RefuseScan(s) \/ StartCall(s) \/ CallFails(s) \/ CallPaid(s) \/ Lose(s)
             \/ EndWorkflow(s) \/ WorkflowTimeout(s) \/ Settle(s) \/ RefuseComment(s) \/ Throw(s)
             \/ Deadline(s) \/ Leak(s)
      PROVE  (\A r \in Scan : BudgetReadIsCurrent(r))' /\ Cardinality(Claimed)' < Bound'
  <2>1. UNCHANGED <<ledger, seen>>
    BY <1>9 DEF Start, RefuseScan, StartCall, CallFails, CallPaid, Lose, EndWorkflow, WorkflowTimeout,
       Settle, RefuseComment, Throw, Leave, Deadline, Leak
  <2>2. \A r \in Scan : held'[r] /\ stage'[r] \in {"scanning", "returned"} =>
          held[r] /\ stage[r] \in {"scanning", "returned"}
    BY <1>0, <1>9 DEF TypeOK, Start, RefuseScan, StartCall, CallFails, CallPaid, Lose, EndWorkflow,
       WorkflowTimeout, Settle, RefuseComment, Throw, Leave, Deadline, Leak
  <2>3. Claimed' \subseteq Claimed
    BY <2>1, <2>2 DEF Claimed, Running
  <2>4. ASSUME NEW r \in Scan, held'[r], stage'[r] \in {"scanning", "returned"}
        PROVE  LedgerOf(Neighbours(r))' = seen'[r]
    BY <1>2, <1>7, <2>1, <2>2, <2>4 DEF BudgetReadIsCurrent
  <2>5. QED
    BY <1>4, <2>3, <2>4 DEF BudgetReadIsCurrent
<1>10. CASE UNCHANGED vars
  <2>1. SpendOnlyWithTheSlot'
    BY <1>2, <1>10 DEF SpendOnlyWithTheSlot, Quiet
  <2>2. Claimed' \subseteq Claimed
    BY <1>10 DEF Claimed, Running
  <2>3. ASSUME NEW r \in Scan, held'[r], stage'[r] \in {"scanning", "returned"}
        PROVE  LedgerOf(Neighbours(r))' = seen'[r]
    BY <1>2, <1>7, <1>10, <2>3 DEF BudgetReadIsCurrent
  <2>4. QED
    BY <1>4, <2>1, <2>2, <2>3 DEF BudgetReadIsCurrent
<1>11. QED
  BY <1>5, <1>6, <1>8, <1>9, <1>10 DEF Next

\* The cap is overshot by less than one scan for each process that scans
\* (checkBudget, and the queue of each process that runs one scan of an
\* installation after the other).
THEOREM CapHolds == Spec => []CapOvershotByAScanPerProcess
<1>1. ASSUME IInv, CapInv PROVE CapOvershotByAScanPerProcess
  <2> SUFFICES ASSUME NoneAbandoned
               PROVE  /\ \A s \in Scan : BudgetReadIsCurrent(s)
                      /\ LedgerOf(Scan) < Cap + Cardinality(Homes) * MaxCalls
    BY DEF CapOvershotByAScanPerProcess
  <2>1. TypeOK
    BY <1>1 DEF IInv
  <2>2. {} \in SUBSET Scan
    OBVIOUS
  <2>3. Cardinality(Homes) \in Nat
    BY <2>1, <2>2, OneClaimPerProcess
  <2> DEFINE Bound == Cap + Cardinality(Homes) * MaxCalls
  <2>4. Bound \in Nat
    BY <2>3, SpendAssumption
  <2>5. (\A s \in Scan : BudgetReadIsCurrent(s)) /\ Cardinality(Claimed) < Bound
    BY <1>1 DEF CapInv
  <2> HIDE DEF Bound
  <2>6. LedgerOf(Scan) < Bound
    BY <2>1, <2>4, <2>5, ClaimedIsFinite
  <2>7. QED
    BY <2>5, <2>6 DEF Bound
<1>2. QED
  BY Inductive, InitCap, NextCap, <1>1, PTL DEF Spec

=============================================================================
