---------------------------- MODULE DeliveryLife ----------------------------
(***************************************************************************)
(* What the handler, the store and the sweep promise of a recorded         *)
(* delivery (the headers of src/services/scan-run-store.ts and             *)
(* src/services/scan-run-sweeper.ts): one attempt at a time, one more      *)
(* after the process of the first is gone, a scan for each at most, one    *)
(* final state, and nothing said of a delivery by those that do not        *)
(* attempt it.                                                             *)
(*                                                                         *)
(* How the promise is kept (queues, deadlines, guarded updates, a list     *)
(* that grows stale) is the business of module ScanRuns.                   *)
(***************************************************************************)
EXTENDS Naturals

CONSTANT Delivery

VARIABLES
  status,    \* the state of the delivery's row
  attempt,   \* "ready" to scan, "working", or nobody is at it
  scans      \* how often it was scanned

vars == <<status, attempt, scans>>

Unfinished == {"pending", "running", "retrying"}
Outcomes == {"scanned", "skipped", "failed"}

Init ==
  /\ status = [d \in Delivery |-> "none"]
  /\ attempt = [d \in Delivery |-> "none"]
  /\ scans = [d \in Delivery |-> 0]

\* A row that is not final yet becomes so, or is left as it is.
MayBecome(d, final) ==
  \/ UNCHANGED status
  \/ status[d] \in Unfinished /\ status' = [status EXCEPT ![d] = final]

Attempt(d, from, to) ==
  attempt[d] \in from /\ attempt' = [attempt EXCEPT ![d] = to]

Record(d) ==
  /\ status[d] = "none"
  /\ status' = [status EXCEPT ![d] = "pending"]
  /\ UNCHANGED scans
  /\ Attempt(d, {"none"}, "ready")

Scan(d) ==
  /\ scans' = [scans EXCEPT ![d] = @ + 1]
  /\ status' = [status EXCEPT ![d] = IF @ = "pending" THEN "running" ELSE @]
  /\ Attempt(d, {"ready"}, "working")

\* The attempt will end without a scan.
Decline(d) ==
  /\ UNCHANGED <<status, scans>>
  /\ Attempt(d, {"ready"}, "working")

Conclude(d) ==
  /\ UNCHANGED scans
  /\ \E outcome \in Outcomes : MayBecome(d, outcome)
  /\ Attempt(d, {"working"}, "none")

\* Only an attempt times out, and it goes on.
Expire(d) ==
  /\ MayBecome(d, "timed_out")
  /\ attempt[d] # "none"
  /\ UNCHANGED <<attempt, scans>>

\* Processes die, and their attempts with them.
Abandon(lost) ==
  /\ UNCHANGED <<status, scans>>
  /\ attempt' = [d \in Delivery |-> IF d \in lost THEN "none" ELSE attempt[d]]

\* What nobody attempts is superseded, or attempted a second time, or, after
\* that, given up.
Supersede(d) ==
  /\ MayBecome(d, "superseded")
  /\ attempt[d] = "none"
  /\ UNCHANGED <<attempt, scans>>

Retry(d) ==
  /\ status[d] \in {"pending", "running"}
  /\ status' = [status EXCEPT ![d] = "retrying"]
  /\ UNCHANGED scans
  /\ Attempt(d, {"none"}, "ready")

GiveUp(d) ==
  /\ status[d] = "retrying"
  /\ status' = [status EXCEPT ![d] = "interrupted"]
  /\ attempt[d] = "none"
  /\ UNCHANGED <<attempt, scans>>

Next ==
  \/ \E lost \in SUBSET Delivery : Abandon(lost)
  \/ \E d \in Delivery :
       \/ Record(d) \/ Scan(d) \/ Decline(d) \/ Conclude(d) \/ Expire(d)
       \/ Supersede(d) \/ Retry(d) \/ GiveUp(d)

Spec == Init /\ [][Next]_vars

=============================================================================
