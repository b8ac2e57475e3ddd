------------------------------ MODULE ScanQueue ------------------------------
(***************************************************************************)
(* The scan queue of src/lib/scan-queue.ts: tasks with one key run one at  *)
(* a time, in the order run() was called, and at most MaxConcurrent tasks  *)
(* run at once.                                                            *)
(*                                                                         *)
(* Each action is one uninterrupted piece of JavaScript, from one await to *)
(* the next: run() up to `await previous` (Run), acquire() (Acquire), the  *)
(* continuation that calls task() (Start), and the two finally blocks      *)
(* (Finish).  Between them any other task's piece may run.  A slot that    *)
(* release() hands to a waiter is counted at once, but the waiter's task   *)
(* starts in a later microtask: "granted" is that gap.                     *)
(*                                                                         *)
(* ticket and clock are history variables: they remember the order of the  *)
(* calls and no guard reads them.                                          *)
(***************************************************************************)
EXTENDS Naturals, Sequences, FiniteSets

CONSTANTS
  Task,            \* the calls of run(), each made at most once
  Key,             \* the keys: one per GitHub App installation
  KeyOf,           \* the key each call passes
  MaxConcurrent,   \* MAX_CONCURRENT_SCANS
  NoTask           \* stands for a promise that is already resolved

ASSUME QueueAssumption ==
  /\ IsFiniteSet(Task)
  /\ KeyOf \in [Task -> Key]
  /\ MaxConcurrent \in Nat \ {0}
  /\ NoTask \notin Task

VARIABLES
  pc,         \* where each call of run() stands
  previous,   \* the task whose tail each call awaits, or NoTask
  tails,      \* the map `tails`: the last task of each key's chain, or NoTask
  running,    \* the counter `running`
  waiting,    \* the array `waiting`, as the tasks whose resolvers it holds
  ticket, clock

vars == <<pc, previous, tails, running, waiting, ticket, clock>>

Stages == {"idle", "chained", "waiting", "granted", "running", "done"}

TypeOK ==
  /\ pc \in [Task -> Stages]
  /\ previous \in [Task -> Task \cup {NoTask}]
  /\ tails \in [Key -> Task \cup {NoTask}]
  /\ running \in Nat
  /\ waiting \in Seq(Task)
  /\ ticket \in [Task -> Nat]
  /\ clock \in Nat

-----------------------------------------------------------------------------
(* Helpers: what the code tests, and the sets the properties speak about.  *)

\* Tasks whose call was made and whose tail has not resolved yet.
Live(t) == pc[t] \notin {"idle", "done"}

\* Tasks that hold one of the MaxConcurrent slots.
Holding == {t \in Task : pc[t] \in {"granted", "running"}}

\* The promise t awaits has resolved: its chain was empty, or its
\* predecessor's finally block has run.
PreviousDoneMutant(t) == TRUE
PreviousDone(t) == previous[t] # NoTask => pc[previous[t]] = "done"

\* acquire() may count a slot at once.
SlotFreeMutant == running <= MaxConcurrent
SlotFree == running < MaxConcurrent

\* The map entry a finishing task leaves: deleted only if it is still its own.
TailAfterMutant(t) == NoTask
TailAfter(t) == IF tails[KeyOf[t]] = t THEN NoTask ELSE tails[KeyOf[t]]

\* release(): the slot goes to the waiter at the head of the list, if any.
ReleaseMutant(t) ==
  /\ running' = running - 1
  /\ pc' = [pc EXCEPT ![t] = "done"]
  /\ UNCHANGED waiting
Release(t) ==
  \/ /\ waiting = <<>>
     /\ running' = running - 1
     /\ pc' = [pc EXCEPT ![t] = "done"]
     /\ UNCHANGED waiting
  \/ /\ waiting # <<>>
     /\ waiting' = Tail(waiting)
     /\ pc' = [pc EXCEPT ![t] = "done", ![Head(waiting)] = "granted"]
     /\ UNCHANGED running

-----------------------------------------------------------------------------
Init ==
  /\ pc = [t \in Task |-> "idle"]
  /\ previous = [t \in Task |-> NoTask]
  /\ tails = [k \in Key |-> NoTask]
  /\ running = 0
  /\ waiting = <<>>
  /\ ticket = [t \in Task |-> 0]
  /\ clock = 0

\* run(), up to its first await: the call joins its key's chain.
Run(t) ==
  /\ pc[t] = "idle"
  /\ pc' = [pc EXCEPT ![t] = "chained"]
  /\ previous' = [previous EXCEPT ![t] = tails[KeyOf[t]]]
  /\ tails' = [tails EXCEPT ![KeyOf[t]] = t]
  /\ ticket' = [ticket EXCEPT ![t] = clock + 1]
  /\ clock' = clock + 1
  /\ UNCHANGED <<running, waiting>>

\* acquire(), once the previous task's tail has resolved.
AcquireMutant(t) ==
  /\ pc[t] = "chained"
  /\ PreviousDone(t)
  /\ SlotFree
  /\ pc' = [pc EXCEPT ![t] = "granted"]
  /\ UNCHANGED <<previous, tails, running, waiting, ticket, clock>>
Acquire(t) ==
  /\ pc[t] = "chained"
  /\ PreviousDone(t)
  /\ \/ /\ SlotFree
        /\ running' = running + 1
        /\ pc' = [pc EXCEPT ![t] = "granted"]
        /\ UNCHANGED waiting
     \/ /\ ~SlotFree
        /\ waiting' = Append(waiting, t)
        /\ pc' = [pc EXCEPT ![t] = "waiting"]
        /\ UNCHANGED running
  /\ UNCHANGED <<previous, tails, ticket, clock>>

\* The task is called.
Start(t) ==
  /\ pc[t] = "granted"
  /\ pc' = [pc EXCEPT ![t] = "running"]
  /\ UNCHANGED <<previous, tails, running, waiting, ticket, clock>>

\* The task's promise settled, by a result or a rejection: both finally
\* blocks run in one piece (release, done, the map entry).
Finish(t) ==
  /\ pc[t] = "running"
  /\ Release(t)
  /\ tails' = [tails EXCEPT ![KeyOf[t]] = TailAfter(t)]
  /\ UNCHANGED <<previous, ticket, clock>>

Next == \E t \in Task : Run(t) \/ Acquire(t) \/ Start(t) \/ Finish(t)

\* Microtasks run to completion, so a continuation that is due runs; a task
\* settles because holdSlotUntilSettled bounds it (module ScanDeadline).
Fairness ==
  \A t \in Task : WF_vars(Acquire(t)) /\ WF_vars(Start(t)) /\ WF_vars(Finish(t))

Spec == Init /\ [][Next]_vars

FairSpec == Spec /\ Fairness

-----------------------------------------------------------------------------
(* Properties *)

\* Two tasks of one key never hold a slot together: "one at a time per
\* installation", whatever order calls, grants and completions come in.
OneAtATimePerKey ==
  \A t, u \in Holding : KeyOf[t] = KeyOf[u] => t = u

\* The counter is the number of tasks that hold a slot, and stays within the
\* bound, although release() hands slots over and acquire() counts others.
SlotsCounted ==
  /\ running = Cardinality(Holding)
  /\ running <= MaxConcurrent

\* No lost wake-up: nobody sits in `waiting` while a slot is free.
NoIdleSlotWhileWaiting ==
  waiting # <<>> => running = MaxConcurrent

\* The map entry of a key is there exactly while the key has a task that has
\* not finished, and is the last one: a later call never chains behind a
\* stale tail, and never skips one that is still pending.
TailsFollowTheChain ==
  \A k \in Key :
    LET chain == {t \in Task : Live(t) /\ KeyOf[t] = k}
    IN  IF chain = {} THEN tails[k] = NoTask
        ELSE tails[k] \in chain /\ \A t \in chain : ticket[t] <= ticket[tails[k]]

\* Every call of run() runs its task to the end, however many are queued.
EveryTaskFinishes ==
  \A t \in Task : pc[t] = "chained" ~> pc[t] = "done"

-----------------------------------------------------------------------------
(* The inductive invariant: why the properties hold.  OneAtATimePerKey is  *)
(* not inductive: it needs the shape of each key's chain.                  *)

\* Calls are numbered in the order they were made, without ties.
TicketsDistinct ==
  /\ \A t \in Task : pc[t] # "idle" => ticket[t] \in 1..clock
  /\ \A t, u \in Task :
       pc[t] # "idle" /\ pc[u] # "idle" /\ ticket[t] = ticket[u] => t = u

\* Nobody gets past `await previous` before the predecessor is done.
PastTheAwait ==
  \A t \in Task : pc[t] \in {"waiting", "granted", "running"} => PreviousDone(t)

\* A task awaits the youngest unfinished call of its key that is older than
\* its own, when there is one.
ChainLinked ==
  \A t, u \in Task :
    (Live(t) /\ Live(u) /\ KeyOf[t] = KeyOf[u] /\ ticket[u] < ticket[t]) =>
      /\ previous[t] # NoTask
      /\ Live(previous[t])
      /\ ticket[u] <= ticket[previous[t]]

\* A link points to an older call of the same key that was really made.
LinksPointBack ==
  \A t \in Task : (Live(t) /\ previous[t] # NoTask) =>
    /\ KeyOf[previous[t]] = KeyOf[t]
    /\ pc[previous[t]] # "idle"
    /\ ticket[previous[t]] < ticket[t]

\* The array holds each waiting task once, and nothing else.
WaitersListed ==
  /\ \A i \in 1..Len(waiting) : pc[waiting[i]] = "waiting"
  /\ \A i, j \in 1..Len(waiting) : waiting[i] = waiting[j] => i = j
  /\ \A t \in Task : pc[t] = "waiting" => \E i \in 1..Len(waiting) : waiting[i] = t

\* The strengthening the proofs are about.
IInv ==
  /\ TypeOK
  /\ TicketsDistinct
  /\ PastTheAwait
  /\ ChainLinked
  /\ LinksPointBack
  /\ TailsFollowTheChain
  /\ WaitersListed
  /\ SlotsCounted
  /\ NoIdleSlotWhileWaiting

-----------------------------------------------------------------------------
\* The queue implements KeyedSlots.  A task is active there once it has been
\* called; a granted one is still pending (the handover in release() is no
\* step of the abstract queue).
AbstractStage(t) ==
  CASE pc[t] = "idle"    -> "idle"
    [] pc[t] = "running" -> "active"
    [] pc[t] = "done"    -> "finished"
    [] OTHER             -> "pending"

Slots == INSTANCE KeyedSlots WITH stage <- [t \in Task |-> AbstractStage(t)]

\* Tasks of one key start in the order of their calls, each after the one
\* before it has finished, and only into a free slot.
ImplementsKeyedSlots == Slots!Spec

=============================================================================
