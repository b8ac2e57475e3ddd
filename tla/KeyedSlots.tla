----------------------------- MODULE KeyedSlots -----------------------------
(***************************************************************************)
(* What ScanQueue.run promises its callers (src/lib/scan-queue.ts, the     *)
(* doc of `run`): a task runs after every earlier task with the same key   *)
(* has finished, and never more than MaxConcurrent tasks run at once.      *)
(*                                                                         *)
(* How the promise is kept (promise chains, a counter, a list of waiters)  *)
(* is the business of module ScanQueue, which implements this one.         *)
(***************************************************************************)
EXTENDS Naturals, FiniteSets

CONSTANTS
  Task,           \* the calls of run(), each made at most once
  Key,            \* the keys: one per GitHub App installation
  KeyOf,          \* the key each call passes
  MaxConcurrent   \* the constructor's maxConcurrent, at least one

VARIABLES
  stage,    \* how far the call of run() has come
  ticket,   \* the order in which the calls were made
  clock     \* the number of calls made

vars == <<stage, ticket, clock>>

Stages == {"idle", "pending", "active", "finished"}

Active == {t \in Task : stage[t] = "active"}

\* The calls with t's key that were made before t's.
Earlier(t) ==
  {u \in Task : /\ KeyOf[u] = KeyOf[t]
                /\ stage[u] # "idle"
                /\ ticket[u] < ticket[t]}

Init ==
  /\ stage = [t \in Task |-> "idle"]
  /\ ticket = [t \in Task |-> 0]
  /\ clock = 0

Submit(t) ==
  /\ stage[t] = "idle"
  /\ stage' = [stage EXCEPT ![t] = "pending"]
  /\ ticket' = [ticket EXCEPT ![t] = clock + 1]
  /\ clock' = clock + 1

Start(t) ==
  /\ stage[t] = "pending"
  /\ \A u \in Earlier(t) : stage[u] = "finished"
  /\ Cardinality(Active) < MaxConcurrent
  /\ stage' = [stage EXCEPT ![t] = "active"]
  /\ UNCHANGED <<ticket, clock>>

Finish(t) ==
  /\ stage[t] = "active"
  /\ stage' = [stage EXCEPT ![t] = "finished"]
  /\ UNCHANGED <<ticket, clock>>

Next == \E t \in Task : Submit(t) \/ Start(t) \/ Finish(t)

Spec == Init /\ [][Next]_vars

=============================================================================
