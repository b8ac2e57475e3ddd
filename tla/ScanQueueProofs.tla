--------------------------- MODULE ScanQueueProofs ---------------------------
(***************************************************************************)
(* The safety of the scan queue for every number of calls, every number of *)
(* keys and every bound: IInv is inductive, the properties the runs check  *)
(* follow from it, and every step of the queue is a step of KeyedSlots or  *)
(* a stutter.                                                              *)
(***************************************************************************)
EXTENDS ScanQueue, FiniteSetTheorems, TLAPS

USE QueueAssumption

-----------------------------------------------------------------------------
(* Lemmas about sequences: what push() and shift() do to a list.            *)

\* push() adds one element at the end (waiting.push in acquire).
LEMMA PushFacts ==
  ASSUME NEW S, NEW q \in Seq(S), NEW x \in S
  PROVE  /\ Append(q, x) \in Seq(S)
         /\ Len(Append(q, x)) = Len(q) + 1
         /\ \A i \in 1..Len(q) : Append(q, x)[i] = q[i]
         /\ Append(q, x)[Len(q) + 1] = x
  OBVIOUS

\* shift() takes the first element and moves the others up (release).
LEMMA ShiftFacts ==
  ASSUME NEW S, NEW q \in Seq(S), q # <<>>
  PROVE  /\ Tail(q) \in Seq(S)
         /\ Len(q) \in Nat \ {0}
         /\ Len(Tail(q)) = Len(q) - 1
         /\ Head(q) = q[1]
         /\ q[1] \in S
         /\ \A i \in 1..Len(Tail(q)) : Tail(q)[i] = q[i + 1]
  OBVIOUS

-----------------------------------------------------------------------------
(* Lemmas about the state. *)

\* TailsFollowTheChain, without the set of live tasks.
TailsPointwise ==
  \A k \in Key :
    /\ tails[k] = NoTask => \A t \in Task : KeyOf[t] = k => ~Live(t)
    /\ tails[k] # NoTask =>
         /\ tails[k] \in Task
         /\ Live(tails[k])
         /\ KeyOf[tails[k]] = k
         /\ \A t \in Task : Live(t) /\ KeyOf[t] = k => ticket[t] <= ticket[tails[k]]

\* Both ways of saying what the map `tails` holds agree.
LEMMA TailsUnfold == TypeOK => (TailsFollowTheChain <=> TailsPointwise)
<1> SUFFICES ASSUME TypeOK PROVE TailsFollowTheChain <=> TailsPointwise
  OBVIOUS
<1>1. ASSUME TailsFollowTheChain PROVE TailsPointwise
  BY <1>1 DEF TailsFollowTheChain, TailsPointwise
<1>2. ASSUME TailsPointwise PROVE TailsFollowTheChain
  <2> SUFFICES ASSUME NEW k \in Key
               PROVE  LET chain == {t \in Task : Live(t) /\ KeyOf[t] = k}
                      IN  IF chain = {} THEN tails[k] = NoTask
                          ELSE /\ tails[k] \in chain
                               /\ \A t \in chain : ticket[t] <= ticket[tails[k]]
    BY DEF TailsFollowTheChain
  <2>1. CASE tails[k] = NoTask
    BY <1>2, <2>1 DEF TailsPointwise
  <2>2. CASE tails[k] # NoTask
    BY <1>2, <2>2 DEF TailsPointwise
  <2> QED BY <2>1, <2>2
<1> QED BY <1>1, <1>2

\* The set of slot holders is finite, so counting it makes sense.
LEMMA HoldingFinite == IsFiniteSet(Holding)
BY FS_Subset DEF Holding

\* One more holder, one more in the count.
LEMMA HoldingGrows ==
  ASSUME TypeOK, NEW t \in Task, pc[t] \notin {"granted", "running"},
         pc' = [pc EXCEPT ![t] = "granted"]
  PROVE  Cardinality(Holding') = Cardinality(Holding) + 1
<1>1. Holding' = Holding \cup {t} /\ t \notin Holding
  BY DEF Holding, TypeOK
<1> QED BY <1>1, HoldingFinite, FS_AddElement

\* A chained task whose predecessor is done has no older unfinished sibling.
LEMMA FreeIsOldest ==
  ASSUME TypeOK, ChainLinked,
         NEW t \in Task, NEW u \in Task,
         Live(t), Live(u), KeyOf[t] = KeyOf[u], PreviousDone(t)
  PROVE  ~(ticket[u] < ticket[t])
BY DEF ChainLinked, PreviousDone, Live, TypeOK

\* Initially nothing is live and nothing is counted.
LEMMA InitIInv == Init => IInv
<1> SUFFICES ASSUME Init PROVE IInv
  OBVIOUS
<1>1. TypeOK
  BY DEF Init, TypeOK, Stages
<1>2. TicketsDistinct /\ PastTheAwait /\ ChainLinked /\ LinksPointBack
  BY DEF Init, TicketsDistinct, PastTheAwait, ChainLinked, LinksPointBack, Live
<1>3. TailsFollowTheChain
  BY DEF Init, TailsFollowTheChain, Live
<1>4. WaitersListed /\ NoIdleSlotWhileWaiting
  BY DEF Init, WaitersListed, NoIdleSlotWhileWaiting
<1>5. SlotsCounted
  <2>1. Holding = {}
    BY DEF Init, Holding
  <2> QED BY <2>1, FS_EmptySet DEF Init, SlotsCounted
<1> QED BY <1>1, <1>2, <1>3, <1>4, <1>5 DEF IInv

-----------------------------------------------------------------------------
\* run(): the new call becomes the youngest of its chain.
LEMMA RunIInv ==
  ASSUME IInv, NEW t \in Task, Run(t)
  PROVE  IInv'
<1> USE DEF IInv
<1> DEFINE k == KeyOf[t]
<1>0. k \in Key /\ pc[t] = "idle" /\ ~Live(t)
  BY DEF Run, Live
<1>1. TypeOK'
  BY <1>0 DEF Run, TypeOK, Stages
<1>2. /\ pc' = [pc EXCEPT ![t] = "chained"]
      /\ previous' = [previous EXCEPT ![t] = tails[k]]
      /\ tails' = [tails EXCEPT ![k] = t]
      /\ ticket' = [ticket EXCEPT ![t] = clock + 1]
      /\ clock' = clock + 1
      /\ running' = running /\ waiting' = waiting
  BY DEF Run
<1>3. \A u \in Task : Live(u)' <=> Live(u) \/ u = t
  BY <1>2 DEF Live, TypeOK
<1>4. TailsPointwise
  BY TailsUnfold
<1>5. TicketsDistinct'
  BY <1>2 DEF TicketsDistinct, TypeOK
<1>6. PastTheAwait'
  <2> SUFFICES ASSUME NEW u \in Task, pc'[u] \in {"waiting", "granted", "running"}
               PROVE  PreviousDone(u)'
    BY DEF PastTheAwait
  <2>1. u # t /\ previous'[u] = previous[u] /\ pc[u] = pc'[u]
    BY <1>2 DEF TypeOK
  <2>2. PreviousDone(u)
    BY <2>1 DEF PastTheAwait
  <2> QED BY <1>0, <1>2, <2>1, <2>2 DEF PreviousDone, TypeOK
<1>7. LinksPointBack'
  <2> SUFFICES ASSUME NEW u \in Task, Live(u)', previous'[u] # NoTask
               PROVE  /\ KeyOf[previous'[u]] = KeyOf[u]
                      /\ pc'[previous'[u]] # "idle"
                      /\ ticket'[previous'[u]] < ticket'[u]
    BY DEF LinksPointBack
  <2>1. CASE u = t
    <3>1. previous'[u] = tails[k] /\ tails[k] \in Task /\ Live(tails[k]) /\ KeyOf[tails[k]] = k
      BY <1>0, <1>2, <1>4, <2>1 DEF TailsPointwise, TypeOK
    <3>2. tails[k] # t /\ pc[tails[k]] # "idle"
      BY <1>0, <3>1 DEF Live
    <3>3. ticket[tails[k]] <= clock
      BY <3>1, <3>2 DEF TicketsDistinct, TypeOK
    <3> QED BY <1>2, <2>1, <3>1, <3>2, <3>3 DEF TypeOK
  <2>2. CASE u # t
    <3>1. previous'[u] = previous[u] /\ Live(u) /\ previous[u] \in Task
      BY <1>2, <1>3, <2>2 DEF TypeOK
    <3>2. /\ KeyOf[previous[u]] = KeyOf[u]
          /\ pc[previous[u]] # "idle"
          /\ ticket[previous[u]] < ticket[u]
      BY <3>1 DEF LinksPointBack
    <3> QED BY <1>0, <1>2, <2>2, <3>1, <3>2 DEF TypeOK
  <2> QED BY <2>1, <2>2
<1>8. ChainLinked'
  <2> SUFFICES ASSUME NEW a \in Task, NEW b \in Task,
                      Live(a)', Live(b)', KeyOf[a] = KeyOf[b], ticket'[b] < ticket'[a]
               PROVE  (/\ previous[a] # NoTask
                       /\ Live(previous[a])
                       /\ ticket[b] <= ticket[previous[a]])'
    BY DEF ChainLinked
  <2>1. b # t
    BY <1>2, <1>3 DEF TicketsDistinct, TypeOK, Live
  <2>2. CASE a = t
    <3>1. Live(b) /\ KeyOf[b] = k /\ ticket'[b] = ticket[b]
      BY <1>2, <1>3, <2>1, <2>2 DEF TypeOK
    <3>2. tails[k] # NoTask /\ tails[k] \in Task /\ Live(tails[k])
          /\ ticket[b] <= ticket[tails[k]]
      BY <1>0, <1>4, <3>1 DEF TailsPointwise
    <3>3. previous'[a] = tails[k] /\ tails[k] # t
      BY <1>0, <1>2, <2>2, <3>2 DEF TypeOK
    <3> QED BY <1>2, <1>3, <3>1, <3>2, <3>3 DEF TypeOK, Live
  <2>3. CASE a # t
    <3>1. Live(a) /\ Live(b) /\ ticket[b] < ticket[a] /\ previous'[a] = previous[a]
      BY <1>2, <1>3, <2>1, <2>3 DEF TypeOK
    <3>2. /\ previous[a] # NoTask
          /\ Live(previous[a])
          /\ ticket[b] <= ticket[previous[a]]
      BY <3>1 DEF ChainLinked
    <3>3. previous[a] \in Task /\ previous[a] # t
      BY <1>0, <3>2 DEF TypeOK
    <3> QED BY <1>2, <1>3, <2>1, <3>1, <3>2, <3>3 DEF TypeOK, Live
  <2> QED BY <2>2, <2>3
<1>9. TailsPointwise'
  <2> SUFFICES ASSUME NEW j \in Key
               PROVE  (/\ tails[j] = NoTask => \A u \in Task : KeyOf[u] = j => ~Live(u)
                       /\ tails[j] # NoTask =>
                            /\ tails[j] \in Task
                            /\ Live(tails[j])
                            /\ KeyOf[tails[j]] = j
                            /\ \A u \in Task : Live(u) /\ KeyOf[u] = j =>
                                 ticket[u] <= ticket[tails[j]])'
    BY DEF TailsPointwise
  <2>1. CASE j = k
    <3>1. tails'[j] = t
      BY <1>0, <1>2, <2>1 DEF TypeOK
    <3>2. \A u \in Task : Live(u) => ticket[u] <= clock
      BY DEF Live, TicketsDistinct, TypeOK
    <3> QED BY <1>2, <1>3, <2>1, <3>1, <3>2 DEF TypeOK, Live
  <2>2. CASE j # k
    <3>1. tails'[j] = tails[j]
      BY <1>2, <2>2 DEF TypeOK
    <3>2. \A u \in Task : KeyOf[u] = j => u # t
      BY <2>2
    <3> QED BY <1>2, <1>3, <1>4, <3>1, <3>2 DEF TailsPointwise, TypeOK, Live
  <2> QED BY <2>1, <2>2
<1>10. WaitersListed' /\ NoIdleSlotWhileWaiting'
  <2>1. \A u \in Task : pc'[u] = "waiting" <=> pc[u] = "waiting"
    BY <1>0, <1>2 DEF TypeOK
  <2>2. \A i \in 1..Len(waiting) : waiting[i] \in Task
    BY DEF TypeOK
  <2> QED BY <1>2, <2>1, <2>2 DEF WaitersListed, NoIdleSlotWhileWaiting
<1>11. SlotsCounted'
  <2>1. Holding' = Holding
    BY <1>0, <1>2 DEF Holding, TypeOK
  <2> QED BY <1>2, <2>1 DEF SlotsCounted
<1>12. TailsFollowTheChain'
  BY <1>1, <1>9, TailsUnfold, PTL
<1> QED BY <1>1, <1>5, <1>6, <1>7, <1>8, <1>10, <1>11, <1>12

-----------------------------------------------------------------------------
\* acquire(): a slot is counted, or the task joins the waiters.
LEMMA AcquireIInv ==
  ASSUME IInv, NEW t \in Task, Acquire(t)
  PROVE  IInv'
<1> USE DEF IInv
<1>1. /\ pc[t] = "chained" /\ PreviousDone(t)
      /\ previous' = previous /\ tails' = tails /\ ticket' = ticket /\ clock' = clock
  BY DEF Acquire
<1>2. \/ /\ running < MaxConcurrent
         /\ running' = running + 1
         /\ pc' = [pc EXCEPT ![t] = "granted"]
         /\ waiting' = waiting
      \/ /\ ~(running < MaxConcurrent)
         /\ waiting' = Append(waiting, t)
         /\ pc' = [pc EXCEPT ![t] = "waiting"]
         /\ running' = running
  BY DEF Acquire, SlotFree
<1>3. TypeOK'
  <2>1. Append(waiting, t) \in Seq(Task) /\ waiting \in Seq(Task)
    BY PushFacts DEF TypeOK
  <2>3. waiting' \in Seq(Task)
    BY <1>2, <2>1
  <2>4. running' \in Nat
    BY <1>2 DEF TypeOK
  <2>2. pc' \in [Task -> Stages]
    BY <1>2 DEF TypeOK, Stages
  <2> QED BY <1>1, <2>2, <2>3, <2>4 DEF TypeOK
<1>4. PICK s \in {"granted", "waiting"} : pc' = [pc EXCEPT ![t] = s]
  BY <1>2
<1>5. \A u \in Task : /\ Live(u)' <=> Live(u)
                      /\ pc'[u] = "idle" <=> pc[u] = "idle"
                      /\ pc'[u] = "done" <=> pc[u] = "done"
                      /\ u # t => pc'[u] = pc[u]
  BY <1>1, <1>4 DEF Live, TypeOK
<1>6. TicketsDistinct' /\ ChainLinked' /\ LinksPointBack'
  <2>1. TicketsDistinct'
    BY <1>1, <1>5 DEF TicketsDistinct
  <2>2. ChainLinked'
    BY <1>1, <1>5 DEF ChainLinked, TypeOK, Live
  <2>3. LinksPointBack'
    BY <1>1, <1>5 DEF LinksPointBack, TypeOK, Live
  <2> QED BY <2>1, <2>2, <2>3
<1>7. PastTheAwait'
  BY <1>1, <1>5 DEF PastTheAwait, PreviousDone, TypeOK
<1>8. TailsFollowTheChain'
  <2>1. TailsPointwise
    BY TailsUnfold
  <2>2. TailsPointwise'
    BY <1>1, <1>5, <2>1 DEF TailsPointwise, TypeOK, Live
  <2> QED BY <1>3, <2>2, TailsUnfold, PTL
<1>9. WaitersListed' /\ NoIdleSlotWhileWaiting' /\ SlotsCounted'
  <2>1. CASE running < MaxConcurrent
    <3>1. /\ running' = running + 1
          /\ pc' = [pc EXCEPT ![t] = "granted"]
          /\ waiting' = waiting
      BY <1>2, <2>1
    <3>2. waiting = <<>>
      BY <2>1 DEF NoIdleSlotWhileWaiting, SlotsCounted, TypeOK
    <3>3. Cardinality(Holding') = Cardinality(Holding) + 1
      BY <1>1, <3>1, HoldingGrows
    <3>4. \A u \in Task : pc'[u] # "waiting"
      BY <3>1, <3>2 DEF WaitersListed, TypeOK
    <3> QED BY <2>1, <3>1, <3>2, <3>3, <3>4
         DEF WaitersListed, NoIdleSlotWhileWaiting, SlotsCounted, TypeOK
  <2>2. CASE ~(running < MaxConcurrent)
    <3>1. /\ running' = running
          /\ pc' = [pc EXCEPT ![t] = "waiting"]
          /\ waiting' = Append(waiting, t)
      BY <1>2, <2>2
    <3>2. Holding' = Holding
      BY <1>1, <3>1 DEF Holding, TypeOK
    <3>3. running = MaxConcurrent
      BY <2>2 DEF SlotsCounted, TypeOK
    <3>4. /\ Len(waiting') = Len(waiting) + 1
          /\ \A i \in 1..Len(waiting) : waiting'[i] = waiting[i]
          /\ waiting'[Len(waiting) + 1] = t
          /\ \A i \in 1..Len(waiting) : waiting[i] \in Task /\ waiting[i] # t
      <4>1. waiting \in Seq(Task)
        BY DEF TypeOK
      <4>2. \A i \in 1..Len(waiting) : waiting[i] \in Task
        BY <4>1
      <4>3. \A i \in 1..Len(waiting) : waiting[i] # t
        BY <1>1 DEF WaitersListed
      <4> QED BY <3>1, <4>1, <4>2, <4>3, PushFacts
    <3>5. WaitersListed'
      <4>1. \A i \in 1..Len(waiting') : pc'[waiting'[i]] = "waiting"
        <5> SUFFICES ASSUME NEW i \in 1..Len(waiting') PROVE pc'[waiting'[i]] = "waiting"
          OBVIOUS
        <5>1. CASE i \in 1..Len(waiting)
          <6>1. waiting'[i] = waiting[i] /\ waiting[i] \in Task /\ waiting[i] # t
            BY <3>4, <5>1
          <6>2. pc[waiting[i]] = "waiting"
            BY <5>1 DEF WaitersListed
          <6> QED BY <1>5, <6>1, <6>2
        <5>2. CASE i = Len(waiting) + 1
          BY <3>1, <3>4, <5>2 DEF TypeOK
        <5>3. Len(waiting) \in Nat
          BY DEF TypeOK
        <5> QED BY <3>4, <5>1, <5>2, <5>3
      <4>2. \A i, j \in 1..Len(waiting') : waiting'[i] = waiting'[j] => i = j
        <5> SUFFICES ASSUME NEW i \in 1..Len(waiting'), NEW j \in 1..Len(waiting'),
                            waiting'[i] = waiting'[j]
                     PROVE  i = j
          OBVIOUS
        <5>1. Len(waiting) \in Nat
          BY DEF TypeOK
        <5>2. CASE i = Len(waiting) + 1 \/ j = Len(waiting) + 1
          BY <3>4, <5>1, <5>2
        <5>3. CASE i \in 1..Len(waiting) /\ j \in 1..Len(waiting)
          BY <3>4, <5>3 DEF WaitersListed
        <5> QED BY <3>4, <5>1, <5>2, <5>3
      <4>3. ASSUME NEW u \in Task, pc'[u] = "waiting"
            PROVE  \E i \in 1..Len(waiting') : waiting'[i] = u
        <5>1. CASE u = t
          <6>1. Len(waiting) + 1 \in 1..Len(waiting')
            BY <3>4 DEF TypeOK
          <6> QED BY <3>4, <5>1, <6>1
        <5>2. CASE u # t
          <6>1. PICK i \in 1..Len(waiting) : waiting[i] = u
            BY <1>5, <4>3, <5>2 DEF WaitersListed
          <6>2. i \in 1..Len(waiting') /\ waiting'[i] = u
            BY <3>4, <6>1 DEF TypeOK
          <6> QED BY <6>2
        <5> QED BY <5>1, <5>2
      <4> QED BY <4>1, <4>2, <4>3 DEF WaitersListed
    <3> QED BY <3>1, <3>2, <3>3, <3>5 DEF NoIdleSlotWhileWaiting, SlotsCounted
  <2> QED BY <2>1, <2>2
<1> QED BY <1>3, <1>6, <1>7, <1>8, <1>9

-----------------------------------------------------------------------------
\* The task is called: only pc[t] moves, and t keeps its slot.
LEMMA StartIInv ==
  ASSUME IInv, NEW t \in Task, Start(t)
  PROVE  IInv'
<1> USE DEF IInv
<1>1. /\ pc[t] = "granted"
      /\ pc' = [pc EXCEPT ![t] = "running"]
      /\ previous' = previous /\ tails' = tails /\ ticket' = ticket /\ clock' = clock
      /\ running' = running /\ waiting' = waiting
  BY DEF Start
<1>2. TypeOK'
  BY <1>1 DEF TypeOK, Stages
<1>3. \A u \in Task : /\ Live(u)' <=> Live(u)
                      /\ pc'[u] = "idle" <=> pc[u] = "idle"
                      /\ pc'[u] = "done" <=> pc[u] = "done"
                      /\ pc'[u] = "waiting" <=> pc[u] = "waiting"
                      /\ u # t => pc'[u] = pc[u]
  BY <1>1 DEF Live, TypeOK
<1>4. TicketsDistinct'
  BY <1>1, <1>3 DEF TicketsDistinct
<1>5. ChainLinked'
  BY <1>1, <1>3 DEF ChainLinked, TypeOK, Live
<1>6. LinksPointBack'
  BY <1>1, <1>3 DEF LinksPointBack, TypeOK, Live
<1>7. PastTheAwait'
  BY <1>1, <1>3 DEF PastTheAwait, PreviousDone, TypeOK
<1>8. TailsFollowTheChain'
  <2>1. TailsPointwise
    BY TailsUnfold
  <2>2. TailsPointwise'
    BY <1>1, <1>3, <2>1 DEF TailsPointwise, TypeOK, Live
  <2> QED BY <1>2, <2>2, TailsUnfold, PTL
<1>9. WaitersListed' /\ NoIdleSlotWhileWaiting'
  BY <1>1, <1>3 DEF WaitersListed, NoIdleSlotWhileWaiting, TypeOK
<1>10. SlotsCounted'
  <2>1. Holding' = Holding
    BY <1>1 DEF Holding, TypeOK
  <2> QED BY <1>1, <2>1 DEF SlotsCounted
<1> QED BY <1>2, <1>4, <1>5, <1>6, <1>7, <1>8, <1>9, <1>10

-----------------------------------------------------------------------------
\* The finally blocks: the slot goes back or on, and the chain moves up.
LEMMA FinishIInv ==
  ASSUME IInv, NEW t \in Task, Finish(t)
  PROVE  IInv'
<1> USE DEF IInv
<1> DEFINE k == KeyOf[t]
           w == Head(waiting)
<1>1. /\ pc[t] = "running" /\ Live(t) /\ k \in Key
      /\ previous' = previous /\ ticket' = ticket /\ clock' = clock
      /\ tails' = [tails EXCEPT ![k] = IF tails[k] = t THEN NoTask ELSE tails[k]]
  BY DEF Finish, TailAfter, Live
<1>2. \/ /\ waiting = <<>>
         /\ running' = running - 1
         /\ pc' = [pc EXCEPT ![t] = "done"]
         /\ waiting' = waiting
      \/ /\ waiting # <<>>
         /\ waiting' = Tail(waiting)
         /\ pc' = [pc EXCEPT ![t] = "done", ![w] = "granted"]
         /\ running' = running
  BY DEF Finish, Release
<1>3. waiting # <<>> => /\ waiting \in Seq(Task) /\ w = waiting[1] /\ w \in Task
                        /\ pc[w] = "waiting" /\ w # t /\ Len(waiting) \in Nat \ {0}
  <2> SUFFICES ASSUME waiting # <<>>
               PROVE  /\ waiting \in Seq(Task) /\ w = waiting[1] /\ w \in Task
                      /\ pc[w] = "waiting" /\ w # t /\ Len(waiting) \in Nat \ {0}
    OBVIOUS
  <2>1. waiting \in Seq(Task) /\ w = waiting[1] /\ w \in Task /\ Len(waiting) \in Nat \ {0}
    BY ShiftFacts DEF TypeOK
  <2>2. pc[waiting[1]] = "waiting"
    BY <2>1 DEF WaitersListed
  <2> QED BY <1>1, <2>1, <2>2
<1>4. /\ pc' \in [Task -> Stages]
      /\ pc'[t] = "done"
      /\ \A u \in Task : /\ pc'[u] = "idle" <=> pc[u] = "idle"
                         /\ pc'[u] = "done" <=> pc[u] = "done" \/ u = t
                         /\ Live(u)' <=> Live(u) /\ u # t
                         /\ pc'[u] = "chained" <=> pc[u] = "chained"
  <2>1. CASE waiting = <<>>
    BY <1>1, <1>2, <2>1 DEF TypeOK, Stages, Live
  <2>2. CASE waiting # <<>>
    BY <1>1, <1>2, <1>3, <2>2 DEF TypeOK, Stages, Live
  <2> QED BY <2>1, <2>2
<1>5. t \in Holding /\ running \in Nat \ {0}
  <2>1. t \in Holding
    BY <1>1 DEF Holding
  <2>2. Cardinality(Holding) # 0
    BY <2>1, HoldingFinite, FS_EmptySet
  <2> QED BY <2>1, <2>2 DEF SlotsCounted, TypeOK
<1>6. TypeOK'
  <2>1. waiting' \in Seq(Task)
    <3>1. waiting \in Seq(Task)
      BY DEF TypeOK
    <3>2. waiting # <<>> => Tail(waiting) \in Seq(Task)
      BY <3>1, ShiftFacts
    <3> QED BY <1>2, <3>1, <3>2
  <2>2. running' \in Nat
    BY <1>2, <1>5
  <2>3. tails' \in [Key -> Task \cup {NoTask}]
    BY <1>1 DEF TypeOK
  <2> QED BY <1>1, <1>4, <2>1, <2>2, <2>3 DEF TypeOK
<1>7. TicketsDistinct'
  BY <1>1, <1>4 DEF TicketsDistinct
<1>8. PastTheAwait'
  <2> SUFFICES ASSUME NEW u \in Task, pc'[u] \in {"waiting", "granted", "running"}
               PROVE  PreviousDone(u)'
    BY DEF PastTheAwait
  <2>1. pc[u] \in {"waiting", "granted", "running"}
    BY <1>4 DEF TypeOK, Stages
  <2>2. PreviousDone(u)
    BY <2>1 DEF PastTheAwait
  <2> QED BY <1>1, <1>4, <2>2 DEF PreviousDone, TypeOK
<1>9. PreviousDone(t)
  BY <1>1 DEF PastTheAwait
<1>10. ASSUME NEW u \in Task, Live(u), KeyOf[u] = k, u # t
       PROVE  ticket[t] < ticket[u]
  <2>1. ~(ticket[u] < ticket[t])
    BY <1>1, <1>9, <1>10, FreeIsOldest
  <2>2. ticket[u] # ticket[t]
    BY <1>1, <1>10 DEF TicketsDistinct, Live
  <2> QED BY <2>1, <2>2 DEF TypeOK
<1>11. LinksPointBack'
  BY <1>1, <1>4 DEF LinksPointBack, TypeOK, Live
<1>12. ChainLinked'
  <2> SUFFICES ASSUME NEW a \in Task, NEW b \in Task,
                      Live(a)', Live(b)', KeyOf[a] = KeyOf[b], ticket'[b] < ticket'[a]
               PROVE  (/\ previous[a] # NoTask
                       /\ Live(previous[a])
                       /\ ticket[b] <= ticket[previous[a]])'
    BY DEF ChainLinked
  <2>1. Live(a) /\ Live(b) /\ a # t /\ b # t /\ ticket[b] < ticket[a]
    BY <1>1, <1>4
  <2>2. /\ previous[a] # NoTask /\ previous[a] \in Task
        /\ Live(previous[a])
        /\ ticket[b] <= ticket[previous[a]]
        /\ KeyOf[previous[a]] = KeyOf[a]
    BY <2>1 DEF ChainLinked, LinksPointBack, TypeOK
  <2>3. previous[a] # t
    <3> SUFFICES ASSUME previous[a] = t PROVE FALSE
      OBVIOUS
    <3>1. ticket[t] < ticket[b]
      BY <1>10, <2>1, <2>2
    <3> QED BY <2>2, <3>1 DEF TypeOK
  <2> QED BY <1>1, <1>4, <2>2, <2>3 DEF Live
<1>13. TailsFollowTheChain'
  <2>1. TailsPointwise
    BY TailsUnfold
  <2>2. TailsPointwise'
    <3> SUFFICES ASSUME NEW j \in Key
                 PROVE  (/\ tails[j] = NoTask => \A u \in Task : KeyOf[u] = j => ~Live(u)
                         /\ tails[j] # NoTask =>
                              /\ tails[j] \in Task
                              /\ Live(tails[j])
                              /\ KeyOf[tails[j]] = j
                              /\ \A u \in Task : Live(u) /\ KeyOf[u] = j =>
                                   ticket[u] <= ticket[tails[j]])'
      BY DEF TailsPointwise
    <3>1. CASE j = k /\ tails[k] = t
      <4>1. tails'[j] = NoTask
        BY <1>1, <3>1 DEF TypeOK
      <4>2. \A u \in Task : KeyOf[u] = k /\ Live(u) => u = t
        <5> SUFFICES ASSUME NEW u \in Task, KeyOf[u] = k, Live(u), u # t PROVE FALSE
          OBVIOUS
        <5>1. ticket[u] <= ticket[t]
          BY <1>1, <2>1, <3>1 DEF TailsPointwise
        <5>2. ticket[t] < ticket[u]
          BY <1>10
        <5> QED BY <5>1, <5>2 DEF TypeOK
      <4> QED BY <1>4, <3>1, <4>1, <4>2
    <3>2. CASE ~(j = k /\ tails[k] = t)
      <4>1. tails'[j] = tails[j] /\ tails[j] # t
        <5>1. tails[j] = t => j = k
          BY <2>1 DEF TailsPointwise
        <5> QED BY <1>1, <3>2, <5>1 DEF TypeOK
      <4>2. tails'[j] # NoTask =>
              /\ tails[j] \in Task
              /\ Live(tails[j])
              /\ KeyOf[tails[j]] = j
              /\ \A u \in Task : Live(u) /\ KeyOf[u] = j => ticket[u] <= ticket[tails[j]]
        BY <2>1, <4>1 DEF TailsPointwise
      <4>3. tails'[j] = NoTask => \A u \in Task : KeyOf[u] = j => ~Live(u)
        BY <2>1, <4>1 DEF TailsPointwise
      <4> QED BY <1>1, <1>4, <4>1, <4>2, <4>3 DEF Live
    <3> QED BY <3>1, <3>2
  <2> QED BY <1>6, <2>2, TailsUnfold, PTL
<1>14. WaitersListed' /\ NoIdleSlotWhileWaiting' /\ SlotsCounted'
  <2>1. CASE waiting = <<>>
    <3>1. Holding' = Holding \ {t}
      BY <1>2, <2>1 DEF Holding, TypeOK
    <3>2. Cardinality(Holding') = Cardinality(Holding) - 1
      BY <1>5, <3>1, HoldingFinite, FS_RemoveElement
    <3>3. running' = running - 1 /\ waiting' = <<>>
      BY <1>2, <2>1
    <3>4. \A u \in Task : pc'[u] # "waiting"
      <4>1. \A u \in Task : pc[u] # "waiting"
        BY <2>1 DEF WaitersListed
      <4> QED BY <1>2, <2>1, <4>1 DEF TypeOK
    <3> QED BY <1>5, <3>2, <3>3, <3>4
         DEF WaitersListed, NoIdleSlotWhileWaiting, SlotsCounted
  <2>2. CASE waiting # <<>>
    <3>1. /\ waiting' = Tail(waiting) /\ running' = running
          /\ pc' = [pc EXCEPT ![t] = "done", ![w] = "granted"]
      BY <1>2, <2>2
    <3>2. w \notin Holding /\ w \in Task /\ w # t
      BY <1>3, <2>2 DEF Holding
    <3>3. Holding' = (Holding \ {t}) \cup {w}
      BY <1>1, <3>1, <3>2 DEF Holding, TypeOK
    <3>4. Cardinality(Holding') = Cardinality(Holding)
      <4>1. /\ IsFiniteSet(Holding \ {t})
            /\ Cardinality(Holding \ {t}) = Cardinality(Holding) - 1
        BY <1>5, HoldingFinite, FS_RemoveElement
      <4>2. Cardinality((Holding \ {t}) \cup {w}) = Cardinality(Holding \ {t}) + 1
        BY <3>2, <4>1, FS_AddElement
      <4> QED BY <1>5, <3>3, <4>1, <4>2 DEF SlotsCounted, TypeOK
    <3>5. running = MaxConcurrent
      BY <2>2 DEF NoIdleSlotWhileWaiting
    <3>6. /\ Len(waiting) \in Nat \ {0}
          /\ Len(waiting') = Len(waiting) - 1
          /\ w = waiting[1]
          /\ \A i \in 1..Len(waiting') : waiting'[i] = waiting[i + 1]
      BY <1>3, <2>2, <3>1, ShiftFacts
    <3>7. WaitersListed'
      <4>1. ASSUME NEW i \in 1..Len(waiting') PROVE pc'[waiting'[i]] = "waiting"
        <5>1. i + 1 \in 1..Len(waiting) /\ 1 \in 1..Len(waiting) /\ i + 1 # 1
          BY <3>6
        <5>2. waiting'[i] = waiting[i + 1] /\ waiting[i + 1] # w /\ pc[waiting[i + 1]] = "waiting"
          BY <3>6, <5>1 DEF WaitersListed
        <5>3. waiting[i + 1] \in Task /\ waiting[i + 1] # t
          BY <1>1, <1>3, <2>2, <5>1, <5>2
        <5> QED BY <3>1, <5>2, <5>3 DEF TypeOK
      <4>2. ASSUME NEW i \in 1..Len(waiting'), NEW j \in 1..Len(waiting'),
                   waiting'[i] = waiting'[j]
            PROVE  i = j
        <5>1. i + 1 \in 1..Len(waiting) /\ j + 1 \in 1..Len(waiting)
          BY <3>6
        <5>2. waiting[i + 1] = waiting[j + 1]
          BY <3>6, <4>2
        <5>3. i + 1 = j + 1
          BY <5>1, <5>2 DEF WaitersListed
        <5> QED BY <3>6, <5>3
      <4>3. ASSUME NEW u \in Task, pc'[u] = "waiting"
            PROVE  \E i \in 1..Len(waiting') : waiting'[i] = u
        <5>1. pc[u] = "waiting" /\ u # w
          BY <3>1, <3>2, <4>3 DEF TypeOK
        <5>2. PICK i \in 1..Len(waiting) : waiting[i] = u
          BY <5>1 DEF WaitersListed
        <5>3. i - 1 \in 1..Len(waiting') /\ waiting'[i - 1] = u
          BY <3>6, <5>1, <5>2
        <5> QED BY <5>3
      <4> QED BY <4>1, <4>2, <4>3 DEF WaitersListed
    <3> QED BY <3>1, <3>4, <3>5, <3>7 DEF NoIdleSlotWhileWaiting, SlotsCounted
  <2> QED BY <2>1, <2>2
<1> QED BY <1>6, <1>7, <1>8, <1>11, <1>12, <1>13, <1>14

-----------------------------------------------------------------------------
(* The theorems. *)

\* IInv holds in every reachable state.
THEOREM Inductive == Spec => []IInv
<1>1. IInv /\ [Next]_vars => IInv'
  <2> SUFFICES ASSUME IInv, [Next]_vars PROVE IInv'
    OBVIOUS
  <2>1. CASE UNCHANGED vars
    BY <2>1 DEF vars, IInv, TypeOK, TicketsDistinct, PastTheAwait, ChainLinked,
         LinksPointBack, TailsFollowTheChain, WaitersListed, SlotsCounted,
         NoIdleSlotWhileWaiting, Live, PreviousDone, Holding
  <2>2. CASE Next
    <3> PICK t \in Task : Run(t) \/ Acquire(t) \/ Start(t) \/ Finish(t)
      BY <2>2 DEF Next
    <3> QED BY RunIInv, AcquireIInv, StartIInv, FinishIInv
  <2> QED BY <2>1, <2>2
<1> QED BY InitIInv, <1>1, PTL DEF Spec

\* Every variable keeps its type, in particular the counter never goes below
\* zero (release() without a matching acquire()).
THEOREM TypeCorrect == Spec => []TypeOK
<1>1. IInv => TypeOK
  BY DEF IInv
<1> QED BY <1>1, Inductive, PTL

\* One task per installation at a time, for any number of calls and keys.
THEOREM Serial == Spec => []OneAtATimePerKey
<1>1. IInv => OneAtATimePerKey
  <2> SUFFICES ASSUME IInv, NEW t \in Holding, NEW u \in Holding, KeyOf[t] = KeyOf[u]
               PROVE  t = u
    BY DEF OneAtATimePerKey
  <2> USE DEF IInv
  <2>1. /\ t \in Task /\ u \in Task /\ Live(t) /\ Live(u)
        /\ PreviousDone(t) /\ PreviousDone(u)
    BY DEF Holding, Live, PastTheAwait
  <2>2. ~(ticket[t] < ticket[u]) /\ ~(ticket[u] < ticket[t])
    BY <2>1, FreeIsOldest
  <2>3. ticket[t] = ticket[u]
    BY <2>1, <2>2 DEF TypeOK
  <2> QED BY <2>1, <2>3 DEF TicketsDistinct, Live
<1> QED BY <1>1, Inductive, PTL

\* Never more than MaxConcurrent slots are out, and the counter is exact.
THEOREM Bounded == Spec => []SlotsCounted
<1>1. IInv => SlotsCounted
  BY DEF IInv
<1> QED BY <1>1, Inductive, PTL

\* No waiter sleeps while a slot is free.
THEOREM NoLostWakeup == Spec => []NoIdleSlotWhileWaiting
<1>1. IInv => NoIdleSlotWhileWaiting
  BY DEF IInv
<1> QED BY <1>1, Inductive, PTL

\* The map entry of a key is its last unfinished call (run, finally block).
THEOREM NoStaleTail == Spec => []TailsFollowTheChain
<1>1. IInv => TailsFollowTheChain
  BY DEF IInv
<1> QED BY <1>1, Inductive, PTL

-----------------------------------------------------------------------------
(* Refinement: the queue implements KeyedSlots.                             *)

\* The abstract stage of every task, as the refinement mapping gives it.
AStage == [t \in Task |-> AbstractStage(t)]

\* The instance counts sets the way this module does.
LEMMA SameCardinality == \A S : Slots!Cardinality(S) = Cardinality(S)
BY DEF Slots!Cardinality, Cardinality

\* The refinement mapping, stage by stage.
LEMMA AbstractStageCases ==
  ASSUME NEW t \in Task
  PROVE  /\ pc[t] = "idle" => AStage[t] = "idle"
         /\ pc[t] \in {"chained", "waiting", "granted"} => AStage[t] = "pending"
         /\ pc[t] = "running" => AStage[t] = "active"
         /\ pc[t] = "done" => AStage[t] = "finished"
BY DEF AbstractStage, AStage

\* The same facts of the next state.
LEMMA AbstractStageCasesNext ==
  ASSUME NEW t \in Task
  PROVE  /\ pc'[t] = "idle" => AStage'[t] = "idle"
         /\ pc'[t] \in {"chained", "waiting", "granted"} => AStage'[t] = "pending"
         /\ pc'[t] = "running" => AStage'[t] = "active"
         /\ pc'[t] = "done" => AStage'[t] = "finished"
BY DEF AbstractStage, AStage

\* A step that moves t from one stage to another maps to an EXCEPT.
LEMMA AbstractStep ==
  ASSUME TypeOK, TypeOK', NEW t \in Task, NEW s, AStage'[t] = s,
         \A u \in Task : u # t => AStage'[u] = AStage[u]
  PROVE  AStage' = [AStage EXCEPT ![t] = s]
BY DEF AStage

\* The initial state maps to the initial state.
LEMMA RefineInit == Init => Slots!Init
<1> SUFFICES ASSUME Init PROVE Slots!Init
  OBVIOUS
<1>1. AStage = [t \in Task |-> "idle"]
  <2>1. \A t \in Task : AStage[t] = "idle"
    BY AbstractStageCases DEF Init
  <2> QED BY <2>1 DEF AStage
<1> QED BY <1>1 DEF Init, Slots!Init, AStage

\* Every step maps to a step or to a stutter.
LEMMA RefineNext == IInv /\ IInv' /\ [Next]_vars => [Slots!Next]_(Slots!vars)
<1> SUFFICES ASSUME IInv, IInv', [Next]_vars PROVE [Slots!Next]_(Slots!vars)
  OBVIOUS
<1>0. TypeOK /\ TypeOK'
  BY DEF IInv
<1> USE DEF Stages
<1>1. ASSUME NEW t \in Task, Run(t) PROVE Slots!Submit(t)
  <2>1. AStage[t] = "idle" /\ AStage'[t] = "pending"
    BY <1>0, <1>1, AbstractStageCases, AbstractStageCasesNext DEF Run, TypeOK
  <2>2. ASSUME NEW u \in Task, u # t PROVE AStage'[u] = AStage[u]
    <3>1. pc'[u] = pc[u] /\ pc[u] \in Stages
      BY <1>0, <1>1, <2>2 DEF Run, TypeOK
    <3> QED BY <3>1, AbstractStageCases, AbstractStageCasesNext
  <2>3. AStage' = [AStage EXCEPT ![t] = "pending"]
    BY <1>0, <2>1, <2>2, AbstractStep
  <2> QED BY <1>1, <2>1, <2>3 DEF Run, Slots!Submit, AStage
<1>2. ASSUME NEW t \in Task, Acquire(t) PROVE UNCHANGED Slots!vars
  <2>1. ASSUME NEW u \in Task PROVE AStage'[u] = AStage[u]
    <3>1. CASE u = t
      <4>1. pc[t] = "chained" /\ pc'[t] \in {"granted", "waiting"}
        BY <1>0, <1>2 DEF Acquire, TypeOK
      <4> QED BY <3>1, <4>1, AbstractStageCases, AbstractStageCasesNext
    <3>2. CASE u # t
      <4>1. pc'[u] = pc[u] /\ pc[u] \in Stages
        BY <1>0, <1>2, <3>2 DEF Acquire, TypeOK
      <4> QED BY <4>1, AbstractStageCases, AbstractStageCasesNext
    <3> QED BY <3>1, <3>2
  <2>2. AStage' = AStage
    BY <2>1 DEF AStage
  <2> QED BY <1>2, <2>2 DEF Acquire, Slots!vars, AStage
<1>3. ASSUME NEW t \in Task, Start(t) PROVE Slots!Start(t)
  <2>1. pc[t] = "granted" /\ pc'[t] = "running" /\ UNCHANGED <<ticket, clock>>
    BY <1>0, <1>3 DEF Start, TypeOK
  <2>2. AStage[t] = "pending" /\ AStage'[t] = "active"
    BY <2>1, AbstractStageCases, AbstractStageCasesNext
  <2>3. ASSUME NEW u \in Task, u # t PROVE AStage'[u] = AStage[u]
    <3>1. pc'[u] = pc[u] /\ pc[u] \in Stages
      BY <1>0, <1>3, <2>3 DEF Start, TypeOK
    <3> QED BY <3>1, AbstractStageCases, AbstractStageCasesNext
  <2>4. AStage' = [AStage EXCEPT ![t] = "active"]
    BY <1>0, <2>2, <2>3, AbstractStep
  <2>5. ASSUME NEW u \in Slots!Earlier(t) PROVE AStage[u] = "finished"
    <3>1. u \in Task /\ KeyOf[u] = KeyOf[t] /\ AStage[u] # "idle" /\ ticket[u] < ticket[t]
      BY <2>5 DEF Slots!Earlier, AStage
    <3>2. pc[u] # "idle"
      BY <3>1, AbstractStageCases
    <3>3. PreviousDone(t) /\ Live(t)
      BY <2>1 DEF IInv, PastTheAwait, Live
    <3>4. ~Live(u)
      BY <1>0, <3>1, <3>3, FreeIsOldest DEF IInv
    <3> QED BY <3>1, <3>2, <3>4, AbstractStageCases DEF Live
  <2>6. Cardinality(Slots!Active) < MaxConcurrent
    <3>1. Slots!Active \subseteq Holding \ {t}
      <4> SUFFICES ASSUME NEW u \in Task, AStage[u] = "active" PROVE u \in Holding \ {t}
        BY DEF Slots!Active, AStage
      <4>1. pc[u] \in Stages /\ pc[u] = "running"
        BY <1>0, AbstractStageCases DEF TypeOK
      <4> QED BY <2>1, <4>1 DEF Holding
    <3>2. t \in Holding
      BY <2>1 DEF Holding
    <3>3. /\ IsFiniteSet(Holding \ {t})
          /\ Cardinality(Holding \ {t}) = Cardinality(Holding) - 1
      BY <3>2, HoldingFinite, FS_RemoveElement
    <3>4. IsFiniteSet(Slots!Active) /\ Cardinality(Slots!Active) <= Cardinality(Holding \ {t})
      BY <3>1, <3>3, FS_Subset
    <3>5. Cardinality(Slots!Active) \in Nat
      BY <3>4, FS_CardinalityType
    <3>6. Cardinality(Holding) \in Nat /\ Cardinality(Holding) <= MaxConcurrent
      BY HoldingFinite, FS_CardinalityType DEF IInv, SlotsCounted
    <3> QED BY <3>3, <3>4, <3>5, <3>6
  <2>7. Slots!Cardinality(Slots!Active) < MaxConcurrent
    BY <2>6, SameCardinality
  <2> QED BY <2>1, <2>2, <2>4, <2>5, <2>7 DEF Slots!Start, AStage
<1>4. ASSUME NEW t \in Task, Finish(t) PROVE Slots!Finish(t)
  <2>1. pc[t] = "running" /\ UNCHANGED <<ticket, clock>>
    BY <1>4 DEF Finish
  <2>2. waiting # <<>> => Head(waiting) \in Task /\ pc[Head(waiting)] = "waiting"
    <3> SUFFICES ASSUME waiting # <<>>
                 PROVE  Head(waiting) \in Task /\ pc[Head(waiting)] = "waiting"
      OBVIOUS
    <3>1. Head(waiting) = waiting[1] /\ waiting[1] \in Task /\ 1 \in 1..Len(waiting)
      BY <1>0, ShiftFacts DEF TypeOK
    <3> QED BY <3>1 DEF IInv, WaitersListed
  <2>3. \/ /\ waiting = <<>>
           /\ pc' = [pc EXCEPT ![t] = "done"]
        \/ /\ waiting # <<>>
           /\ pc' = [pc EXCEPT ![t] = "done", ![Head(waiting)] = "granted"]
    BY <1>4 DEF Finish, Release
  <2>4. pc'[t] = "done"
    BY <1>0, <2>1, <2>2, <2>3 DEF TypeOK
  <2>5. AStage[t] = "active" /\ AStage'[t] = "finished"
    BY <2>1, <2>4, AbstractStageCases, AbstractStageCasesNext
  <2>6. ASSUME NEW u \in Task, u # t PROVE AStage'[u] = AStage[u]
    <3>1. CASE waiting # <<>> /\ u = Head(waiting)
      <4>1. pc[u] = "waiting" /\ pc'[u] = "granted"
        BY <1>0, <2>2, <2>3, <2>6, <3>1 DEF TypeOK
      <4> QED BY <4>1, AbstractStageCases, AbstractStageCasesNext
    <3>2. CASE ~(waiting # <<>> /\ u = Head(waiting))
      <4>1. pc'[u] = pc[u] /\ pc[u] \in Stages
        <5>1. CASE waiting = <<>>
          BY <1>0, <2>3, <2>6, <5>1 DEF TypeOK
        <5>2. CASE waiting # <<>>
          <6>1. u # Head(waiting) /\ pc' = [pc EXCEPT ![t] = "done", ![Head(waiting)] = "granted"]
            BY <2>3, <3>2, <5>2
          <6> QED BY <1>0, <2>6, <6>1 DEF TypeOK
        <5> QED BY <5>1, <5>2
      <4> QED BY <4>1, AbstractStageCases, AbstractStageCasesNext
    <3> QED BY <3>1, <3>2
  <2>7. AStage' = [AStage EXCEPT ![t] = "finished"]
    BY <1>0, <2>5, <2>6, AbstractStep
  <2> QED BY <2>1, <2>5, <2>7 DEF Slots!Finish, AStage
<1>5. CASE UNCHANGED vars
  <2>1. ASSUME NEW u \in Task PROVE AStage'[u] = AStage[u]
    <3>1. pc'[u] = pc[u] /\ pc[u] \in Stages
      BY <1>0, <1>5 DEF vars, TypeOK
    <3> QED BY <3>1, AbstractStageCases, AbstractStageCasesNext
  <2>2. AStage' = AStage
    BY <2>1 DEF AStage
  <2> QED BY <1>5, <2>2 DEF vars, Slots!vars, AStage
<1> QED BY <1>1, <1>2, <1>3, <1>4, <1>5 DEF Next, Slots!Next

\* Tasks of one key start in call order, each after the last has finished,
\* and only into a free slot: the promise of run(), for every instance.
THEOREM Refinement == Spec => ImplementsKeyedSlots
<1>1. Spec => Slots!Init /\ [][Slots!Next]_(Slots!vars)
  BY RefineInit, RefineNext, Inductive, PTL DEF Spec
<1> QED BY <1>1 DEF ImplementsKeyedSlots, Slots!Spec

=============================================================================
