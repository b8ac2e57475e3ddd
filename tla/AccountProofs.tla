---------------------------- MODULE AccountProofs ----------------------------
(* What the organization row promises, for any number of scans, settings     *)
(* forms, subscriptions, events and months, and for any caps and costs: it   *)
(* follows Paddle's newest event, its log names every setting that was       *)
(* changed, and each of its two stamps stands for one e-mail.                *)
EXTENDS Account, TLAPS, FiniteSetTheorems

-----------------------------------------------------------------------------
(* Plans *)

LEMMA PlansFacts ==
  /\ \A t \in Tier : CapOf(t) \in Nat
  /\ \A p : TierOfPrice(p) # None => TierOfPrice(p) = p /\ p \in Paid
  /\ "free" \in Tier /\ Paid \subseteq Tier /\ None \notin Tier
  BY PlansAssumption DEF CapOf, TierOfPrice, Tier, Paid, None

\* Only an organization that is there has an administrator.
LEMMA AdminSeesTheRow ==
  ASSUME NEW u, NEW o, Access(u, o) = "admin"
  PROVE  o
  BY DEF Access, Role

\* The row that is there is not the one that is not.
LEMMA RowIsThere ==
  ASSUME TypeOK
  PROVE  /\ OrgExists <=> org \in Org
         /\ FreshOrg \in Org
         /\ Provisioned(org) \in Org
         /\ OrgExists => Provisioned(org) = org
<1>1. NoOrg \notin Org
  BY DEF NoOrg, Org, None, Tier, Paid
<1>2. FreshOrg \in Org
  BY PlansFacts, AccountAssumption DEF FreshOrg, Org
<1>3. QED
  BY <1>1, <1>2 DEF TypeOK, OrgExists, Provisioned

\* What an event writes on the row.
LEMMA Applied ==
  ASSUME TypeOK, NEW e \in Event, Actionable(e), OrgExists, Apply(e)
  PROVE  /\ org' \in Org
         /\ org'.cap = CapOf(org'.tier)
         /\ RowShows(e)'
         /\ org'.firstSent = org.firstSent /\ org'.limitSent = org.limitSent
<1>1. org \in Org
  BY RowIsThere
<1>2. CASE SalesEvent(e)
  <2>1. TierOfPrice(e.price) \in Tier /\ TierOfPrice(e.price) # None
    BY <1>2, PlansFacts DEF Actionable, Complete
  <2>2. CapOf(TierOfPrice(e.price)) \in Nat /\ e.sub \in Sub
    BY <2>1, PlansFacts DEF Event
  <2>3. CompleteTransaction(e) \/ UpdateSubscription(e)
    BY <1>2 DEF Apply, SalesEvent
  <2>4. QED
    BY <1>1, <1>2, <2>1, <2>2, <2>3 DEF CompleteTransaction, UpdateSubscription, RowShows, Org
<1>3. CASE ~SalesEvent(e)
  <2>1. Downgrade(e)
    BY <1>3 DEF Apply, SalesEvent
  <2>2. CapOf("free") \in Nat /\ "free" \in Tier
    BY PlansFacts
  <2>3. QED
    BY <1>1, <1>3, <2>1, <2>2 DEF Downgrade, RowShows, Org
<1>4. QED
  BY <1>2, <1>3

LEMMA EventTyped ==
  ASSUME TypeOK, NEW i \in 1..Len(events)
  PROVE  events[i] \in Event
  BY DEF TypeOK

\* An event that is applied finds its row.
LEMMA AppliedToARow ==
  ASSUME TypeOK, OursIsThere, NEW i \in 1..MaxEvents, PostApplied(i)
  PROVE  /\ i \in 1..Len(events) /\ events[i] \in Event /\ OrgExists
         /\ org' \in Org /\ OrgExists'
         /\ org'.cap = CapOf(org'.tier)
         /\ RowShows(events[i])'
         /\ org'.firstSent = org.firstSent /\ org'.limitSent = org.limitSent
<1>1. i \in 1..Len(events) /\ events[i] \in Event /\ Actionable(events[i]) /\ Apply(events[i])
  BY EventTyped DEF PostApplied, Deliverable
<1>2. OrgExists /\ events' = events
  BY <1>1 DEF OursIsThere, Actionable, PostApplied
<1>3. org' \in Org /\ org'.cap = CapOf(org'.tier)
      /\ org'.firstSent = org.firstSent /\ org'.limitSent = org.limitSent
  BY <1>1, <1>2, Applied
<1>4. OrgExists'
  BY <1>3 DEF OrgExists, NoOrg, Org, None, Tier, Paid
<1>5. RowShows(events[i])'
  <2> DEFINE e == events[i]
  <2>1. e \in Event /\ Actionable(e) /\ Apply(e) /\ e' = e
    BY <1>1, <1>2
  <2> HIDE DEF e
  <2>2. IF SalesEvent(e) THEN TierOfPrice(e.price) # None /\ org'.tier = TierOfPrice(e.price) /\ org'.sub = e.sub
                         ELSE org'.tier = "free" /\ org'.sub = None
    BY <1>2, <2>1, Applied DEF RowShows
  <2>3. QED
    BY <1>2, <2>1, <2>2 DEF RowShows, e, SalesEvent
<1>6. QED
  BY <1>1, <1>2, <1>3, <1>4, <1>5

-----------------------------------------------------------------------------
(* Types *)

LEMMA InitTypeOK == Init => TypeOK
<1> SUFFICES ASSUME Init PROVE TypeOK
  OBVIOUS
<1>1. subs \in [Sub -> [state : {"none", "active", "past_due", "ended"}, price : Price, org : Addressee]]
  BY DEF Init, Price, Addressee
<1>2. events \in Seq(Event) /\ DefaultSettings \in Settings
  BY DEF Init, DefaultSettings, Settings, Severity
<1>3. month \in 1..MaxMonth /\ \A s \in Scan : now[s] \in 0..MaxMonth
  BY AccountAssumption DEF Init
<1>4. QED
  BY <1>1, <1>2, <1>3, AccountAssumption DEF Init, TypeOK, FirstStages

\* What Paddle does to a subscription, and the event that tells of it.
Subscription == [state : {"none", "active", "past_due", "ended"}, price : Price, org : Addressee]

Tells(e, new) ==
  IF SalesEvent(e) THEN new.state = "active" /\ new.price = e.price
                   ELSE new.state \in {"past_due", "ended"}

\* Only the checkout of an organization that is there names it.
About(e, x, new) ==
  /\ e.sub = x /\ Tells(e, new)
  /\ e.org = new.org /\ (new.org = "ours" => subs[x].org = "ours" \/ OrgExists)

LEMMA PaddleStep ==
  ASSUME TypeOK, PaddleNext
  PROVE  /\ \E x \in Sub, e \in Event, new \in Subscription :
              /\ subs' = [subs EXCEPT ![x] = new]
              /\ events' = Append(events, e)
              /\ About(e, x, new)
         /\ told' = "none"
         /\ UNCHANGED <<org, settings, answered, month, spent, scan, mailVars, formVars>>
<1>1. PICK x \in Sub :
        \/ \E t \in Paid, to \in Addressee, ids \in BOOLEAN : Buy(x, t, to, ids)
        \/ \E p \in Price, ids \in BOOLEAN : ChangePrice(x, p, ids)
        \/ \E ids \in BOOLEAN : Renew(x, ids)
        \/ FailPayment(x) \/ End(x)
  BY DEF PaddleNext, EndByPaddle, EndByPortal
<1>2. subs[x] \in Subscription /\ subs \in [Sub -> Subscription]
  BY DEF TypeOK, Subscription
<1> DEFINE Done == \E e \in Event, new \in Subscription :
                     subs' = [subs EXCEPT ![x] = new] /\ events' = Append(events, e) /\ About(e, x, new)
<1>3. told' = "none" /\ UNCHANGED <<org, settings, answered, month, spent, scan, mailVars, formVars>>
  BY <1>1 DEF Buy, ChangePrice, FailPayment, Renew, End, PaddleMay, Emit
<1>4. ASSUME NEW t \in Paid, NEW to \in Addressee, NEW ids \in BOOLEAN, Buy(x, t, to, ids) PROVE Done
  <2> DEFINE e == [type |-> "completed", sub |-> x, price |-> t, org |-> to, ids |-> ids]
             new == [state |-> "active", price |-> t, org |-> to]
  <2>1. e \in Event /\ new \in Subscription /\ e.sub = x /\ Tells(e, new) /\ e.org = to /\ new.org = to
    BY DEF Event, Subscription, Price, Tells, SalesEvent
  <2>2. to = "ours" => OrgExists
    BY <1>4, AdminSeesTheRow DEF Buy, MayCheckOut
  <2>3. subs' = [subs EXCEPT ![x] = new] /\ events' = Append(events, e)
    BY <1>4 DEF Buy, Emit
  <2>4. QED
    BY <2>1, <2>2, <2>3 DEF About
<1>5. ASSUME NEW p \in Price, NEW ids \in BOOLEAN, ChangePrice(x, p, ids) PROVE Done
  <2> DEFINE e == [type |-> "updated", sub |-> x, price |-> p, org |-> subs[x].org, ids |-> ids]
             new == [subs[x] EXCEPT !.price = p]
  <2>1. e \in Event /\ new \in Subscription /\ About(e, x, new)
    BY <1>2, <1>5 DEF Event, Subscription, Tells, SalesEvent, ChangePrice, About
  <2>2. QED
    BY <1>2, <1>5, <2>1 DEF ChangePrice, Emit
<1>6. ASSUME FailPayment(x) \/ (\E ids \in BOOLEAN : Renew(x, ids)) \/ End(x) PROVE Done
  <2>1. ASSUME NEW type \in {"payment_failed", "completed", "canceled"},
               NEW state \in {"past_due", "active", "ended"}, NEW ids \in BOOLEAN,
               (type = "completed") <=> (state = "active"),
               subs' = [subs EXCEPT ![x].state = state],
               Emit(type, x, subs[x].price, subs[x].org, ids)
        PROVE  Done
    <3> DEFINE e == [type |-> type, sub |-> x, price |-> subs[x].price, org |-> subs[x].org, ids |-> ids]
               new == [subs[x] EXCEPT !.state = state]
    <3>1. e \in Event /\ new \in Subscription /\ About(e, x, new)
      BY <1>2, <2>1 DEF Event, Subscription, Tells, SalesEvent, About
    <3>2. subs' = [subs EXCEPT ![x] = new] /\ events' = Append(events, e)
      BY <1>2, <2>1 DEF Emit
    <3>3. QED
      BY <3>1, <3>2
  <2>2. CASE FailPayment(x)
    BY <2>1, <2>2 DEF FailPayment
  <2>3. ASSUME NEW ids \in BOOLEAN, Renew(x, ids) PROVE Done
    BY <2>1, <2>3 DEF Renew
  <2>4. CASE End(x)
    BY <2>1, <2>4 DEF End
  <2>5. QED
    BY <1>6, <2>2, <2>3, <2>4
<1>7. Done
  BY <1>1, <1>4, <1>5, <1>6
<1>8. QED
  BY <1>3, <1>7

LEMMA NextTypeOK ==
  ASSUME TypeOK, ClaimsHaveARow, OursIsThere, [Next]_vars
  PROVE  TypeOK'
<1> USE AccountAssumption DEF vars, planVars, mailVars, formVars
<1>1. CASE Install
  BY <1>1, RowIsThere DEF Install, TypeOK
<1>2. ASSUME NEW u \in User, PopulateEmail(u) PROVE TypeOK'
  <2>1. org \in Org
    BY <1>2, AdminSeesTheRow, RowIsThere DEF PopulateEmail
  <2>2. org' \in Org
    BY <1>2, <2>1 DEF PopulateEmail, Org
  <2>3. QED
    BY <1>2, <2>2 DEF PopulateEmail, TypeOK
<1>3. CASE PaddleNext
  <2>1. PICK x \in Sub, e \in Event, new \in Subscription :
          subs' = [subs EXCEPT ![x] = new] /\ events' = Append(events, e)
    BY <1>3, PaddleStep
  <2>2. events' \in Seq(Event)
    BY <2>1 DEF TypeOK
  <2>3. subs' \in [Sub -> Subscription]
    BY <2>1 DEF TypeOK, Subscription
  <2>4. told' = "none" /\ UNCHANGED <<org, settings, answered, month, spent, scan, mailVars, formVars>>
    BY <1>3, PaddleStep
  <2>5. QED
    BY <2>2, <2>3, <2>4 DEF TypeOK, Subscription
<1>4. ASSUME NEW i \in 1..MaxEvents, PostApplied(i) PROVE TypeOK'
  <2>1. org' \in Org
    BY <1>4, AppliedToARow
  <2>2. told' \in {"none", "newest", "older"} /\ answered' \subseteq 1..MaxEvents
    BY <1>4 DEF PostApplied, TypeOK
  <2>3. QED
    BY <1>4, <2>1, <2>2 DEF PostApplied, TypeOK
<1>5. ASSUME NEW i \in 1..MaxEvents, PostIgnored(i) PROVE TypeOK'
  BY <1>5 DEF PostIgnored, TypeOK
<1>6. ASSUME NEW i \in 1..MaxEvents, NEW h, PostFails(i, h) PROVE TypeOK'
  BY <1>6 DEF PostFails, TypeOK
<1>7. ASSUME NEW f \in Session, NEW u \in User, NEW patch, ReadForm(f, u, patch) PROVE TypeOK'
  <2>1. PICK valid \in Settings :
          form' = [form EXCEPT ![f] = [at |-> "read", patch |-> valid, diff |-> Diff(settings, valid)]]
    BY <1>7 DEF ReadForm, Validated
  <2>2. Diff(settings, valid) \in SUBSET {"severity", "detectors"}
    BY DEF Diff
  <2>3. form' \in [Session -> [at : {"open", "read", "saved"}, patch : Settings,
                               diff : SUBSET {"severity", "detectors"}]]
    BY <2>1, <2>2 DEF TypeOK
  <2>4. QED
    BY <1>7, <2>3 DEF ReadForm, TypeOK
<1>8. ASSUME NEW f \in Session, SaveForm(f) PROVE TypeOK'
  <2>1. DefaultSettings \in Settings
    BY DEF DefaultSettings, Settings, Severity
  <2>2. settings' \in Settings
    BY <1>8 DEF SaveForm, TypeOK
  <2>3. named' \subseteq {"severity", "detectors"}
    BY <1>8 DEF SaveForm, TypeOK
  <2>4. QED
    BY <1>8, <2>1, <2>2, <2>3 DEF SaveForm, TypeOK
<1>9. ASSUME NEW s \in Scan, NEW read, NEW again, NEW made \in BOOLEAN, Gate(s, read, again, made)
      PROVE  TypeOK'
  <2>1. org' \in Org \cup {NoOrg}
    BY <1>9, RowIsThere DEF Gate, TypeOK
  <2>2. scan' \in [Scan -> {"idle", "within", "refused", "unverifiable", "over"}]
    BY <1>9 DEF Gate, TypeOK
  <2>3. QED
    BY <1>9, <2>1, <2>2 DEF Gate, TypeOK
<1>10. ASSUME NEW s \in Scan, NEW cost \in Costs, NEW reread \in BOOLEAN, Report(s, cost, reread)
       PROVE  TypeOK'
  <2>1. cost \in Nat
    OBVIOUS
  <2>2. spent' \in [month : Nat, day : Nat]
    BY <1>10, <2>1 DEF Report, TypeOK
  <2>3. QED
    BY <1>10, <2>2 DEF Report, TypeOK, FirstStages
<1>11. ASSUME NEW s \in Scan, ReportUnverified(s) PROVE TypeOK'
  BY <1>11 DEF ReportUnverified, TypeOK
<1>12. ASSUME NEW s \in Scan, ClaimFirst(s) PROVE TypeOK'
  <2>1. org' \in Org \cup {NoOrg}
    BY <1>12, RowIsThere DEF ClaimFirst, Org, TypeOK
  <2>2. first' \in [Scan -> FirstStages]
    BY <1>12 DEF ClaimFirst, FirstStages, TypeOK
  <2>3. QED
    BY <1>12, <2>1, <2>2 DEF ClaimFirst, TypeOK
<1>13. ASSUME NEW s \in Scan, LookUp(s) PROVE TypeOK'
  BY <1>13 DEF LookUp, TypeOK, FirstStages
<1>14. ASSUME NEW s \in Scan, ClaimLimit(s) PROVE TypeOK'
  <2>1. org \in Org /\ now[s] \in 0..MaxMonth
    BY <1>14, RowIsThere DEF ClaimLimit, ClaimsHaveARow, TypeOK
  <2>2. org' \in Org
    BY <1>14, <2>1 DEF ClaimLimit, Org
  <2>3. limit' \in [Scan -> FirstStages \cup {"looked"}] /\ now' \in [Scan -> 0..MaxMonth]
    BY <1>14 DEF ClaimLimit, FirstStages, TypeOK
  <2>4. QED
    BY <1>14, <2>2, <2>3 DEF ClaimLimit, TypeOK
<1>15. ASSUME NEW s \in Scan, NEW ok \in BOOLEAN, RollBackFirst(s, ok) PROVE TypeOK'
  <2>1. org' \in Org
    BY <1>15, RowIsThere DEF RollBackFirst, ClaimsHaveARow, Org
  <2>2. QED
    BY <1>15, <2>1 DEF RollBackFirst, FirstStages, TypeOK
<1>16. ASSUME NEW s \in Scan, NEW ok \in BOOLEAN, SendFirst(s, ok) PROVE TypeOK'
  BY <1>16 DEF SendFirst, FirstStages, TypeOK
<1>17. ASSUME NEW s \in Scan, NEW ok \in BOOLEAN, RollBackLimit(s, ok) PROVE TypeOK'
  <2>1. org' \in Org
    BY <1>17, RowIsThere DEF RollBackLimit, ClaimsHaveARow, Org
  <2>2. limit' \in [Scan -> FirstStages \cup {"looked"}] /\ now' \in [Scan -> 0..MaxMonth]
        /\ straddled' \in BOOLEAN
    BY <1>17 DEF RollBackLimit, FirstStages, TypeOK
  <2>3. QED
    BY <1>17, <2>1, <2>2 DEF RollBackLimit, TypeOK
<1>18. ASSUME NEW s \in Scan, NEW ok \in BOOLEAN, SendLimit(s, ok) PROVE TypeOK'
  <2>1. warned' \in [1..MaxMonth -> SUBSET Scan]
    BY <1>18 DEF SendLimit, TypeOK
  <2>2. limit' \in [Scan -> FirstStages \cup {"looked"}] /\ now' \in [Scan -> 0..MaxMonth]
    BY <1>18 DEF SendLimit, FirstStages, TypeOK
  <2>3. QED
    BY <1>18, <2>1, <2>2 DEF SendLimit, TypeOK
<1>19. CASE Dies
  <2>1. Cardinality({s \in Scan : first[s] \in {"claimed", "empty"}}) \in Nat
    BY FS_Subset, FS_CardinalityType
  <2>2. QED
    BY <1>19, <2>1 DEF Dies, FirstStages, TypeOK
<1>20. CASE NextDay
  BY <1>20 DEF NextDay, TypeOK
<1>21. CASE NextMonth
  BY <1>21 DEF NextMonth, TypeOK
<1>22. CASE UNCHANGED vars
  BY <1>22 DEF TypeOK
<1>23. CASE WebhookNext
  BY <1>4, <1>5, <1>6, <1>23 DEF WebhookNext
<1>24. CASE FormNext
  BY <1>7, <1>8, <1>24 DEF FormNext
<1>25. CASE ScanNext
  <2>1. PICK s \in Scan :
          \/ \E read, again \in {"ok", "connection", "query"}, made \in BOOLEAN :
               Gate(s, read, again, made)
          \/ \E cost \in Costs, reread \in BOOLEAN : Report(s, cost, reread)
          \/ ReportUnverified(s) \/ ClaimFirst(s) \/ LookUp(s) \/ ClaimLimit(s)
          \/ \E ok \in BOOLEAN :
               RollBackFirst(s, ok) \/ SendFirst(s, ok) \/ RollBackLimit(s, ok) \/ SendLimit(s, ok)
    BY <1>25 DEF ScanNext
  <2>2. QED
    BY <1>9, <1>10, <1>11, <1>12, <1>13, <1>14, <1>15, <1>16, <1>17, <1>18, <2>1
<1>26. QED
  BY <1>1, <1>2, <1>3, <1>19, <1>20, <1>21, <1>22, <1>23, <1>24, <1>25 DEF Next

-----------------------------------------------------------------------------
(* The plan *)

\* What a step does to the row, as the plan and the stamps see it.
RowAppears == org = NoOrg /\ org' = FreshOrg
KeepsPlan ==
  /\ OrgExists /\ OrgExists'
  /\ org'.tier = org.tier /\ org'.sub = org.sub /\ org'.cap = org.cap
KeepsStamps ==
  /\ OrgExists /\ OrgExists'
  /\ org'.firstSent = org.firstSent /\ org'.limitSent = org.limitSent

LEMMA ProvisionedRow ==
  ASSUME org' = Provisioned(org) \/ org' = org
  PROVE  UNCHANGED org \/ RowAppears
  BY DEF Provisioned, RowAppears

LEMMA ScanSteps ==
  ASSUME ScanNext
  PROVE  \E s \in Scan :
           \/ \E read, again \in {"ok", "connection", "query"}, made \in BOOLEAN :
                Gate(s, read, again, made)
           \/ \E cost \in Costs, reread \in BOOLEAN : Report(s, cost, reread)
           \/ ReportUnverified(s) \/ ClaimFirst(s) \/ LookUp(s) \/ ClaimLimit(s)
           \/ \E ok \in BOOLEAN :
                RollBackFirst(s, ok) \/ SendFirst(s, ok) \/ RollBackLimit(s, ok) \/ SendLimit(s, ok)
  BY DEF ScanNext

\* The other writers of the row set one field.
LEMMA RowEdits ==
  ASSUME TypeOK, OrgExists
  PROVE  /\ org' = [org EXCEPT !.email = TRUE] => KeepsPlan /\ KeepsStamps
         /\ \A b \in BOOLEAN : org' = [org EXCEPT !.firstSent = b] =>
              KeepsPlan /\ org'.firstSent = b /\ org'.limitSent = org.limitSent
         /\ \A m \in 0..MaxMonth : org' = [org EXCEPT !.limitSent = m] =>
              KeepsPlan /\ org'.firstSent = org.firstSent /\ org'.limitSent = m
<1>1. org \in Org /\ NoOrg \notin Org
  BY RowIsThere DEF NoOrg, Org, None, Tier, Paid
<1>2. org' = [org EXCEPT !.email = TRUE] => KeepsPlan /\ KeepsStamps
  BY <1>1 DEF KeepsPlan, KeepsStamps, OrgExists, Org
<1>3. ASSUME NEW b \in BOOLEAN, org' = [org EXCEPT !.firstSent = b]
      PROVE  KeepsPlan /\ org'.firstSent = b /\ org'.limitSent = org.limitSent
  BY <1>1, <1>3 DEF KeepsPlan, OrgExists, Org
<1>4. ASSUME NEW m \in 0..MaxMonth, org' = [org EXCEPT !.limitSent = m]
      PROVE  KeepsPlan /\ org'.firstSent = org.firstSent /\ org'.limitSent = m
  BY <1>1, <1>4 DEF KeepsPlan, OrgExists, Org
<1>5. QED
  BY <1>2, <1>3, <1>4

\* Only an event that is applied changes the plan of a row that is there.
LEMMA PlanSteps ==
  ASSUME TypeOK, ClaimsHaveARow, [Next]_vars
  PROVE  \/ \E i \in 1..MaxEvents : PostApplied(i)
         \/ PaddleNext
         \/ /\ UNCHANGED <<subs, events, told>>
            /\ UNCHANGED answered \/ WebhookNext
            /\ UNCHANGED org \/ RowAppears \/ KeepsPlan
<1> USE AccountAssumption DEF vars, planVars, mailVars, formVars
<1> DEFINE Goal == /\ UNCHANGED <<subs, events, told>>
                   /\ UNCHANGED answered \/ WebhookNext
                   /\ UNCHANGED org \/ RowAppears \/ KeepsPlan
<1>1. CASE Install
  BY <1>1, ProvisionedRow DEF Install
<1>2. ASSUME NEW u \in User, PopulateEmail(u) PROVE Goal
  BY <1>2, AdminSeesTheRow, RowEdits DEF PopulateEmail
<1>3. CASE WebhookNext
  <2>1. PICK i \in 1..MaxEvents : PostApplied(i) \/ PostIgnored(i) \/ \E h \in Headers : PostFails(i, h)
    BY <1>3 DEF WebhookNext
  <2>2. CASE PostIgnored(i) \/ \E h \in Headers : PostFails(i, h)
    BY <1>3, <2>2 DEF PostIgnored, PostFails
  <2>3. QED
    BY <2>1, <2>2
<1>4. CASE FormNext
  <2>1. PICK f \in Session : SaveForm(f) \/ \E u \in User, patch \in Patches : ReadForm(f, u, patch)
    BY <1>4 DEF FormNext
  <2>2. UNCHANGED <<subs, events, told, answered, org>>
    BY <2>1 DEF SaveForm, ReadForm
  <2>3. QED
    BY <2>2
<1>5. CASE ScanNext
  <2>1. PICK s \in Scan :
          \/ \E read, again \in {"ok", "connection", "query"}, made \in BOOLEAN :
               Gate(s, read, again, made)
          \/ \E cost \in Costs, reread \in BOOLEAN : Report(s, cost, reread)
          \/ ReportUnverified(s) \/ ClaimFirst(s) \/ LookUp(s) \/ ClaimLimit(s)
          \/ \E ok \in BOOLEAN :
               RollBackFirst(s, ok) \/ SendFirst(s, ok) \/ RollBackLimit(s, ok) \/ SendLimit(s, ok)
    BY <1>5, ScanSteps
  <2>2. UNCHANGED <<subs, events, told, answered>>
    BY <2>1 DEF Gate, Report, ReportUnverified, ClaimFirst, LookUp, ClaimLimit, RollBackFirst, SendFirst,
       RollBackLimit, SendLimit
  <2>3. ASSUME NEW read, NEW again, NEW made \in BOOLEAN, Gate(s, read, again, made)
        PROVE  UNCHANGED org \/ RowAppears
    BY <2>3, ProvisionedRow DEF Gate
  <2>4. ASSUME \/ \E cost \in Costs, reread \in BOOLEAN : Report(s, cost, reread)
               \/ ReportUnverified(s) \/ LookUp(s)
               \/ \E ok \in BOOLEAN : SendFirst(s, ok) \/ SendLimit(s, ok)
        PROVE  UNCHANGED org
    BY <2>4 DEF Report, ReportUnverified, LookUp, SendFirst, SendLimit
  <2>5. ASSUME ClaimFirst(s) PROVE UNCHANGED org \/ KeepsPlan
    BY <2>5, RowEdits DEF ClaimFirst
  <2>6. ASSUME ClaimLimit(s) PROVE UNCHANGED org \/ KeepsPlan
    <3>1. OrgExists /\ now[s] \in 0..MaxMonth
      BY <2>6 DEF ClaimLimit, ClaimsHaveARow, TypeOK
    <3>2. UNCHANGED org \/ org' = [org EXCEPT !.limitSent = now[s]]
      BY <2>6 DEF ClaimLimit
    <3>3. QED
      BY <3>1, <3>2, RowEdits
  <2>7. ASSUME NEW ok \in BOOLEAN, RollBackFirst(s, ok) PROVE UNCHANGED org \/ KeepsPlan
    BY <2>7, RowEdits DEF RollBackFirst, ClaimsHaveARow
  <2>8. ASSUME NEW ok \in BOOLEAN, RollBackLimit(s, ok) PROVE UNCHANGED org \/ KeepsPlan
    BY <2>8, RowEdits DEF RollBackLimit, ClaimsHaveARow
  <2>9. UNCHANGED org \/ RowAppears \/ KeepsPlan
    BY <2>1, <2>3, <2>4, <2>5, <2>6, <2>7, <2>8
  <2>10. QED
    BY <2>2, <2>9
<1>6. CASE Dies \/ NextDay \/ NextMonth \/ UNCHANGED vars
  BY <1>6 DEF Dies, NextDay, NextMonth
<1>7. QED
  BY <1>1, <1>2, <1>3, <1>4, <1>5, <1>6 DEF Next

LEMMA InitPlan == Init => EventsTellTheSubscription /\ OursIsThere /\ RowIsTheNewestEvent
<1> SUFFICES ASSUME Init PROVE EventsTellTheSubscription /\ OursIsThere /\ RowIsTheNewestEvent
  OBVIOUS
<1>1. Len(events) = 0 /\ answered = {} /\ told = "none" /\ ~OrgExists /\ \A x \in Sub : subs[x].org = "none"
  BY DEF Init, OrgExists
<1>2. QED
  BY <1>1 DEF EventsTellTheSubscription, OursIsThere, RowIsTheNewestEvent

\* An event tells of the change it comes with; the ones before it stay.
LEMMA NextEvents ==
  ASSUME TypeOK, ClaimsHaveARow, EventsTellTheSubscription, [Next]_vars
  PROVE  EventsTellTheSubscription'
<1>1. CASE PaddleNext
  <2>1. PICK x \in Sub, e \in Event, new \in Subscription :
          /\ subs' = [subs EXCEPT ![x] = new]
          /\ events' = Append(events, e)
          /\ e.sub = x /\ Tells(e, new)
    BY <1>1, PaddleStep DEF About
  <2>2. /\ Len(events') = Len(events) + 1 /\ Len(events) \in Nat
        /\ \A i \in 1..Len(events) : events'[i] = events[i]
        /\ events'[Len(events')] = e
    BY <2>1 DEF TypeOK
  <2>3. subs'[x] = new /\ new.state # "none"
    BY <2>1 DEF TypeOK, Tells, Subscription
  <2>4. \A y \in Sub : subs[y].state # "none" => subs'[y].state # "none"
    BY <2>1, <2>3 DEF TypeOK
  <2>5. ASSUME NEW i \in 1..Len(events') PROVE subs'[events'[i].sub].state # "none"
    <3>1. CASE i = Len(events')
      BY <2>1, <2>2, <2>3, <3>1
    <3>2. CASE i # Len(events')
      <4>1. i \in 1..Len(events) /\ events'[i] = events[i]
        BY <2>2, <3>2
      <4>2. events[i].sub \in Sub
        BY <4>1, EventTyped DEF Event
      <4>3. QED
        BY <2>4, <4>1, <4>2 DEF EventsTellTheSubscription
    <3>3. QED
      BY <3>1, <3>2
  <2>6. QED
    BY <2>1, <2>2, <2>3, <2>5 DEF EventsTellTheSubscription, Tells, SalesEvent
<1>2. CASE UNCHANGED <<subs, events>>
  BY <1>2 DEF EventsTellTheSubscription, SalesEvent
<1>3. ASSUME NEW i \in 1..MaxEvents, PostApplied(i) PROVE UNCHANGED <<subs, events>>
  BY <1>3 DEF PostApplied
<1>4. QED
  BY <1>1, <1>2, <1>3, PlanSteps

LEMMA RowStays ==
  ASSUME TypeOK, ClaimsHaveARow, OursIsThere, [Next]_vars, OrgExists
  PROVE  OrgExists'
<1>1. ASSUME NEW i \in 1..MaxEvents, PostApplied(i) PROVE OrgExists'
  BY <1>1, AppliedToARow
<1>2. ASSUME PaddleNext PROVE OrgExists'
  BY <1>2, PaddleStep DEF OrgExists
<1>3. ASSUME UNCHANGED org \/ RowAppears \/ KeepsPlan PROVE OrgExists'
  BY <1>3 DEF OrgExists, RowAppears, KeepsPlan
<1>4. QED
  BY <1>1, <1>2, <1>3, PlanSteps

\* A subscription that names this organization was bought on its row.
LEMMA NextOurs ==
  ASSUME TypeOK, ClaimsHaveARow, OursIsThere, [Next]_vars
  PROVE  OursIsThere'
<1>1. OrgExists => OrgExists'
  BY RowStays
<1>2. CASE PaddleNext
  <2>1. PICK x \in Sub, e \in Event, new \in Subscription :
          subs' = [subs EXCEPT ![x] = new] /\ events' = Append(events, e) /\ About(e, x, new)
    BY <1>2, PaddleStep
  <2>2. new.org = "ours" => OrgExists'
    BY <1>1, <2>1 DEF About, OursIsThere
  <2>3. ASSUME NEW y \in Sub, subs'[y].org = "ours" PROVE OrgExists'
    BY <1>1, <2>1, <2>2, <2>3 DEF TypeOK, OursIsThere
  <2>4. ASSUME NEW i \in 1..Len(events'), events'[i].org = "ours" PROVE OrgExists'
    <3>1. CASE i = Len(events) + 1
      BY <2>1, <2>2, <2>4, <3>1 DEF TypeOK, About
    <3>2. CASE i # Len(events) + 1
      <4>1. i \in 1..Len(events) /\ events'[i] = events[i]
        BY <2>1, <3>2 DEF TypeOK
      <4>2. QED
        BY <1>1, <2>4, <4>1 DEF OursIsThere
    <3>3. QED
      BY <3>1, <3>2
  <2>5. QED
    BY <2>3, <2>4 DEF OursIsThere
<1>3. CASE UNCHANGED <<subs, events>>
  BY <1>1, <1>3 DEF OursIsThere
<1>4. ASSUME NEW i \in 1..MaxEvents, PostApplied(i) PROVE UNCHANGED <<subs, events>>
  BY <1>4 DEF PostApplied
<1>5. QED
  BY <1>2, <1>3, <1>4, PlanSteps

\* The row shows the newest event once it is applied, until an older one is.
LEMMA NextRow ==
  ASSUME TypeOK, ClaimsHaveARow, OursIsThere, RowIsTheNewestEvent, [Next]_vars
  PROVE  RowIsTheNewestEvent'
<1> DEFINE n == Len(events)
<1>0. n \in Nat
  BY DEF TypeOK
<1>1. ASSUME NEW i \in 1..MaxEvents, PostApplied(i) PROVE RowIsTheNewestEvent'
  <2>1. i \in 1..n /\ org'.cap = CapOf(org'.tier) /\ RowShows(events[i])'
    BY <1>1, AppliedToARow
  <2>2. /\ events' = events
        /\ told' = IF i = n THEN "newest" ELSE IF told = "none" /\ n \notin answered THEN "none" ELSE "older"
        /\ answered' \subseteq answered \cup {i}
    BY <1>1 DEF PostApplied
  <2>3. told' = "newest" => i = n
    BY <2>2
  <2>4. told' = "none" => n \notin answered'
    BY <2>2
  <2>5. answered' \subseteq 1..n
    BY <2>1, <2>2 DEF RowIsTheNewestEvent
  <2>6. RowShows(events[i])' /\ told' = "newest" => RowShows(events[Len(events)])'
    BY <2>2, <2>3
  <2>7. QED
    BY <1>0, <2>1, <2>2, <2>4, <2>5, <2>6 DEF RowIsTheNewestEvent
<1>2. CASE /\ UNCHANGED <<events, told>>
           /\ answered' \subseteq 1..n
           /\ n \in answered' => n \in answered \/ ~Actionable(events[n])
           /\ UNCHANGED org \/ RowAppears \/ KeepsPlan
  <2>1. CASE RowAppears
    <3>1. ~OrgExists /\ OrgExists' /\ org'.cap = CapOf(org'.tier)
      BY <2>1, PlansFacts DEF RowAppears, OrgExists, FreshOrg, NoOrg, None
    <3>2. told # "newest"
      <4>1. ASSUME told = "newest" PROVE FALSE
        <5>1. RowShows(events[n]) /\ org.tier = None
          BY <2>1, <4>1 DEF RowIsTheNewestEvent, RowAppears, NoOrg
        <5>2. QED
          BY <5>1 DEF RowShows, None
      <4>2. QED
        BY <4>1
    <3>3. QED
      BY <1>2, <3>1, <3>2 DEF RowIsTheNewestEvent, Actionable, Complete, SalesEvent
  <2>2. CASE UNCHANGED org \/ KeepsPlan
    BY <1>2, <2>2 DEF RowIsTheNewestEvent, RowShows, SalesEvent, KeepsPlan, OrgExists, Actionable, Complete
  <2>3. QED
    BY <1>2, <2>1, <2>2
<1>3. CASE PaddleNext
  <2>1. told' = "none" /\ UNCHANGED <<org, answered>>
    BY <1>3, PaddleStep
  <2>2. PICK e \in Event : events' = Append(events, e)
    BY <1>3, PaddleStep
  <2>3. Len(events') = n + 1
    BY <2>2 DEF TypeOK
  <2>4. answered' \subseteq 1..n /\ Len(events') \notin answered'
    BY <1>0, <2>1, <2>3 DEF RowIsTheNewestEvent
  <2>5. QED
    BY <1>0, <2>1, <2>3, <2>4 DEF RowIsTheNewestEvent, OrgExists
<1>4. ASSUME NEW i \in 1..MaxEvents, PostIgnored(i) \/ \E h \in Headers : PostFails(i, h)
      PROVE  /\ answered' \subseteq 1..n
             /\ n \in answered' => n \in answered \/ ~Actionable(events[n])
  <2>1. CASE PostIgnored(i)
    <3>1. i \in 1..n /\ Ignored(events[i]) /\ answered' = answered \cup {i}
      BY <2>1 DEF PostIgnored, Deliverable
    <3>2. ~Actionable(events[i])
      BY <3>1 DEF Ignored, Reaches, Actionable
    <3>3. QED
      BY <3>1, <3>2 DEF RowIsTheNewestEvent
  <2>2. CASE \E h \in Headers : PostFails(i, h)
    <3>1. PICK h \in Headers : PostFails(i, h)
      BY <2>2
    <3>2. ErrorCode(h) # 200
      BY DEF ErrorCode
    <3>3. answered' = answered
      BY <3>1, <3>2 DEF PostFails
    <3>4. QED
      BY <3>3 DEF RowIsTheNewestEvent
  <2>3. QED
    BY <1>4, <2>1, <2>2
<1>5. ASSUME WebhookNext PROVE (\E i \in 1..MaxEvents : PostApplied(i))
                               \/ (/\ answered' \subseteq 1..n
                                   /\ n \in answered' => n \in answered \/ ~Actionable(events[n]))
  BY <1>4, <1>5 DEF WebhookNext
<1>6. CASE UNCHANGED answered
  BY <1>1, <1>2, <1>3, <1>6, PlanSteps DEF RowIsTheNewestEvent
<1>7. CASE ~UNCHANGED answered
  BY <1>1, <1>2, <1>3, <1>5, <1>7, PlanSteps
<1>8. QED
  BY <1>6, <1>7

-----------------------------------------------------------------------------
(* The settings forms *)

\* What a form leaves unnamed was named when it read the row, and the log only
\* grows.
LEMMA NextForms ==
  ASSUME TypeOK, FormsAreNamed, AuditNamesEverySetting, [Next]_vars
  PROVE  FormsAreNamed' /\ AuditNamesEverySetting'
<1> USE DEF vars, planVars, mailVars, formVars
<1>1. ASSUME NEW f \in Session, NEW u \in User, NEW patch, ReadForm(f, u, patch)
      PROVE  FormsAreNamed' /\ AuditNamesEverySetting'
  <2>1. PICK valid \in Settings :
          form' = [form EXCEPT ![f] = [at |-> "read", patch |-> valid, diff |-> Diff(settings, valid)]]
    BY <1>1 DEF ReadForm, Validated
  <2>2. UNCHANGED <<settings, named>>
    BY <1>1 DEF ReadForm
  <2>3. /\ form'[f].patch = valid /\ form'[f].diff = Diff(settings, valid)
        /\ \A g \in Session : g # f => form'[g] = form[g]
    BY <2>1 DEF TypeOK
  <2>4. {x \in {"severity", "detectors"} \ Diff(settings, valid) : valid[x] # DefaultSettings[x]} \subseteq named
    BY DEF Diff, AuditNamesEverySetting
  <2>5. FormsAreNamed'
    BY <2>2, <2>3, <2>4 DEF FormsAreNamed
  <2>6. QED
    BY <2>2, <2>5 DEF AuditNamesEverySetting
<1>2. ASSUME NEW f \in Session, SaveForm(f) PROVE FormsAreNamed' /\ AuditNamesEverySetting'
  <2>1. form[f].at = "read" /\ settings' = form[f].patch /\ named' = named \cup form[f].diff
    BY <1>2 DEF SaveForm
  <2>2. form'[f].at = "saved" /\ \A g \in Session : g # f => form'[g] = form[g]
    BY <1>2 DEF SaveForm, TypeOK
  <2>3. AuditNamesEverySetting'
    BY <2>1 DEF AuditNamesEverySetting, FormsAreNamed
  <2>4. FormsAreNamed'
    BY <2>1, <2>2 DEF FormsAreNamed
  <2>5. QED
    BY <2>3, <2>4
<1>3. ASSUME UNCHANGED <<settings, form, named>> PROVE FormsAreNamed' /\ AuditNamesEverySetting'
  BY <1>3 DEF FormsAreNamed, AuditNamesEverySetting
<1>4. CASE FormNext
  BY <1>1, <1>2, <1>4 DEF FormNext
<1>5. CASE WebhookNext
  BY <1>3, <1>5 DEF WebhookNext, PostApplied, PostIgnored, PostFails
<1>6. CASE PaddleNext
  BY <1>3, <1>6, PaddleStep
<1>7. CASE ScanNext
  <2>1. PICK s \in Scan :
          \/ \E read, again \in {"ok", "connection", "query"}, made \in BOOLEAN :
               Gate(s, read, again, made)
          \/ \E cost \in Costs, reread \in BOOLEAN : Report(s, cost, reread)
          \/ ReportUnverified(s) \/ ClaimFirst(s) \/ LookUp(s) \/ ClaimLimit(s)
          \/ \E ok \in BOOLEAN :
               RollBackFirst(s, ok) \/ SendFirst(s, ok) \/ RollBackLimit(s, ok) \/ SendLimit(s, ok)
    BY <1>7, ScanSteps
  <2>2. UNCHANGED <<settings, form, named>>
    BY <2>1 DEF Gate, Report, ReportUnverified, ClaimFirst, LookUp, ClaimLimit, RollBackFirst, SendFirst,
       RollBackLimit, SendLimit
  <2>3. QED
    BY <1>3, <2>2
<1>8. CASE Install \/ (\E u \in User : PopulateEmail(u)) \/ Dies \/ NextDay \/ NextMonth \/ UNCHANGED vars
  <2>1. UNCHANGED <<settings, form, named>>
    BY <1>8 DEF Install, PopulateEmail, Dies, NextDay, NextMonth
  <2>2. QED
    BY <1>3, <2>1
<1>9. QED
  BY <1>4, <1>5, <1>6, <1>7, <1>8 DEF Next

-----------------------------------------------------------------------------
(* The e-mails *)

\* The steps that are no e-mail's leave the claims and both stamps alone.
MailStep ==
  \/ \E s \in Scan :
       \/ \E cost \in Costs, reread \in BOOLEAN : Report(s, cost, reread)
       \/ ClaimFirst(s) \/ LookUp(s) \/ ClaimLimit(s)
       \/ \E ok \in BOOLEAN :
            RollBackFirst(s, ok) \/ SendFirst(s, ok) \/ RollBackLimit(s, ok) \/ SendLimit(s, ok)
  \/ Dies

LEMMA MailSteps ==
  ASSUME TypeOK, OursIsThere, [Next]_vars
  PROVE  \/ MailStep
         \/ UNCHANGED mailVars /\ (UNCHANGED org \/ RowAppears \/ KeepsStamps)
<1> USE DEF vars, planVars, mailVars, formVars
<1>1. CASE Install
  BY <1>1, ProvisionedRow DEF Install
<1>2. ASSUME NEW u \in User, PopulateEmail(u) PROVE UNCHANGED mailVars /\ KeepsStamps
  BY <1>2, AdminSeesTheRow, RowEdits DEF PopulateEmail
<1>3. CASE PaddleNext
  BY <1>3, PaddleStep
<1>4. CASE WebhookNext
  <2>1. PICK i \in 1..MaxEvents : PostApplied(i) \/ PostIgnored(i) \/ \E h \in Headers : PostFails(i, h)
    BY <1>4 DEF WebhookNext
  <2>2. ASSUME PostApplied(i) PROVE KeepsStamps
    BY <2>2, AppliedToARow DEF KeepsStamps
  <2>3. UNCHANGED mailVars /\ (PostApplied(i) \/ UNCHANGED org)
    BY <2>1 DEF PostApplied, PostIgnored, PostFails
  <2>4. QED
    BY <2>2, <2>3
<1>5. CASE FormNext
  BY <1>5 DEF FormNext, ReadForm, SaveForm
<1>6. CASE ScanNext
  <2>1. PICK s \in Scan :
          \/ \E read, again \in {"ok", "connection", "query"}, made \in BOOLEAN :
               Gate(s, read, again, made)
          \/ \E cost \in Costs, reread \in BOOLEAN : Report(s, cost, reread)
          \/ ReportUnverified(s) \/ ClaimFirst(s) \/ LookUp(s) \/ ClaimLimit(s)
          \/ \E ok \in BOOLEAN :
               RollBackFirst(s, ok) \/ SendFirst(s, ok) \/ RollBackLimit(s, ok) \/ SendLimit(s, ok)
    BY <1>6, ScanSteps
  <2>2. ASSUME NEW read, NEW again, NEW made \in BOOLEAN, Gate(s, read, again, made)
        PROVE  UNCHANGED mailVars /\ (UNCHANGED org \/ RowAppears)
    BY <2>2, ProvisionedRow DEF Gate
  <2>3. ASSUME ReportUnverified(s) PROVE UNCHANGED mailVars /\ UNCHANGED org
    BY <2>3 DEF ReportUnverified
  <2>4. QED
    BY <2>1, <2>2, <2>3 DEF MailStep
<1>7. CASE NextDay \/ NextMonth \/ UNCHANGED vars
  BY <1>7 DEF NextDay, NextMonth
<1>8. QED
  BY <1>1, <1>2, <1>3, <1>4, <1>5, <1>6, <1>7 DEF Next, MailStep

LEMMA NextClaims ==
  ASSUME TypeOK, ClaimsHaveARow, OursIsThere, [Next]_vars
  PROVE  ClaimsHaveARow'
<1> USE AccountAssumption DEF mailVars
<1>1. OrgExists => OrgExists'
  BY RowStays
<1>2. CASE UNCHANGED mailVars
  BY <1>1, <1>2 DEF ClaimsHaveARow
<1>3. ASSUME NEW s \in Scan, NEW cost, NEW reread, Report(s, cost, reread) PROVE ClaimsHaveARow'
  BY <1>1, <1>3 DEF Report, ClaimsHaveARow, TypeOK
<1>4. ASSUME NEW s \in Scan, ClaimFirst(s) PROVE ClaimsHaveARow'
  BY <1>1, <1>4 DEF ClaimFirst, ClaimsHaveARow, TypeOK
<1>5. ASSUME NEW s \in Scan, LookUp(s) PROVE ClaimsHaveARow'
  BY <1>1, <1>5 DEF LookUp, ClaimsHaveARow, TypeOK
<1>6. ASSUME NEW s \in Scan, ClaimLimit(s) PROVE ClaimsHaveARow'
  BY <1>1, <1>6 DEF ClaimLimit, ClaimsHaveARow, TypeOK
<1>7. ASSUME NEW s \in Scan, NEW ok \in BOOLEAN,
             RollBackFirst(s, ok) \/ SendFirst(s, ok) \/ RollBackLimit(s, ok) \/ SendLimit(s, ok)
      PROVE ClaimsHaveARow'
  BY <1>1, <1>7 DEF RollBackFirst, SendFirst, RollBackLimit, SendLimit, ClaimsHaveARow, TypeOK
<1>8. CASE Dies
  BY <1>8 DEF Dies, ClaimsHaveARow
<1>9. CASE MailStep
  BY <1>3, <1>4, <1>5, <1>6, <1>7, <1>8, <1>9 DEF MailStep
<1>10. QED
  BY <1>2, <1>9, MailSteps

LEMMA NextFollows ==
  ASSUME TypeOK, MailsFollowTheReport, [Next]_vars
  PROVE  MailsFollowTheReport'
<1> USE DEF vars, planVars, mailVars, formVars
<1>1. CASE UNCHANGED <<first, limit>> /\ \A s \in Scan : scan[s] = "over" => scan'[s] = "over"
  BY <1>1 DEF MailsFollowTheReport
<1>2. CASE Install \/ (\E u \in User : PopulateEmail(u)) \/ WebhookNext \/ FormNext \/ NextDay \/ NextMonth
           \/ UNCHANGED vars
  <2>1. UNCHANGED <<first, limit, scan>>
    BY <1>2 DEF Install, PopulateEmail, WebhookNext, PostApplied, PostIgnored, PostFails, FormNext, ReadForm,
       SaveForm, NextDay, NextMonth
  <2>2. QED
    BY <1>1, <2>1
<1>3. CASE PaddleNext
  BY <1>1, <1>3, PaddleStep
<1>4. CASE ScanNext
  <2>1. PICK s \in Scan :
          \/ \E read, again \in {"ok", "connection", "query"}, made \in BOOLEAN :
               Gate(s, read, again, made)
          \/ \E cost \in Costs, reread \in BOOLEAN : Report(s, cost, reread)
          \/ ReportUnverified(s) \/ ClaimFirst(s) \/ LookUp(s) \/ ClaimLimit(s)
          \/ \E ok \in BOOLEAN :
               RollBackFirst(s, ok) \/ SendFirst(s, ok) \/ RollBackLimit(s, ok) \/ SendLimit(s, ok)
    BY <1>4, ScanSteps
  <2>2. CASE \/ \E read, again \in {"ok", "connection", "query"}, made \in BOOLEAN :
                  Gate(s, read, again, made)
             \/ ReportUnverified(s)
    <3>1. UNCHANGED <<first, limit>> /\ scan[s] # "over"
          /\ \A r \in Scan : r # s => scan'[r] = scan[r]
      BY <2>2 DEF Gate, ReportUnverified, TypeOK
    <3>2. QED
      BY <1>1, <3>1
  <2>3. CASE \E cost \in Costs, reread \in BOOLEAN : Report(s, cost, reread)
    BY <2>3 DEF Report, MailsFollowTheReport, TypeOK
  <2>4. CASE \/ ClaimFirst(s) \/ LookUp(s) \/ ClaimLimit(s)
             \/ \E ok \in BOOLEAN :
                  RollBackFirst(s, ok) \/ SendFirst(s, ok) \/ RollBackLimit(s, ok) \/ SendLimit(s, ok)
    <3>1. scan' = scan /\ (first[s] # "off" \/ limit[s] # "off")
      BY <2>4 DEF ClaimFirst, LookUp, ClaimLimit, RollBackFirst, SendFirst, RollBackLimit, SendLimit
    <3>2. \A r \in Scan : r # s => first'[r] = first[r] /\ limit'[r] = limit[r]
      BY <2>4 DEF ClaimFirst, LookUp, ClaimLimit, RollBackFirst, SendFirst, RollBackLimit, SendLimit, TypeOK
    <3>3. QED
      BY <3>1, <3>2 DEF MailsFollowTheReport
  <2>5. QED
    BY <2>1, <2>2, <2>3, <2>4
<1>5. CASE Dies
  BY <1>5 DEF Dies, MailsFollowTheReport, TypeOK
<1>6. QED
  BY <1>2, <1>3, <1>4, <1>5 DEF Next

\* The tasks that hold the first-scan stamp, and the stamp as a number.
Holders == {s \in Scan : first[s] \in {"claimed", "empty"}}
Stamp == IF OrgExists /\ org.firstSent THEN 1 ELSE 0

LEMMA HoldersCount ==
  ASSUME TypeOK
  PROVE  /\ IsFiniteSet(announced) /\ IsFiniteSet(Holders)
         /\ Cardinality(announced) \in Nat /\ Cardinality(Holders) \in Nat
         /\ lost \in Nat /\ Stamp \in {0, 1}
         /\ FirstMailIsAccountedFor <=> Cardinality(announced) + lost + Cardinality(Holders) = Stamp
<1>1. IsFiniteSet(announced) /\ IsFiniteSet(Holders)
  BY AccountAssumption, FS_Subset DEF TypeOK, Holders
<1>2. QED
  BY <1>1, FS_CardinalityType DEF TypeOK, Stamp, Holders, FirstMailIsAccountedFor

\* A task that stops holding the stamp.
LEMMA HolderLeaves ==
  ASSUME TypeOK, NEW s \in Holders, first' = [first EXCEPT ![s] = "over"]
  PROVE  Cardinality(Holders)' = Cardinality(Holders) - 1
<1>1. s \in Scan
  BY DEF Holders
<1>2. Holders' = Holders \ {s}
  BY <1>1 DEF Holders, TypeOK
<1>3. QED
  BY <1>2, HoldersCount, FS_RemoveElement

LEMMA NextFirst ==
  ASSUME TypeOK, TypeOK', ClaimsHaveARow, OursIsThere, MailsFollowTheReport, FirstMailIsAccountedFor, [Next]_vars
  PROVE  FirstMailIsAccountedFor'
<1> USE DEF mailVars
<1>0. /\ IsFiniteSet(announced) /\ IsFiniteSet(Holders)
      /\ Cardinality(announced) \in Nat /\ Cardinality(Holders) \in Nat /\ lost \in Nat /\ Stamp \in {0, 1}
      /\ Cardinality(announced) + lost + Cardinality(Holders) = Stamp
  BY HoldersCount
<1>1. SUFFICES Cardinality(announced') + lost' + Cardinality(Holders') = Stamp'
  BY HoldersCount DEF FirstMailIsAccountedFor, Holders, Stamp
<1>2. CASE UNCHANGED <<announced, lost, Holders, Stamp>>
  BY <1>0, <1>2
<1>3. ASSUME UNCHANGED org \/ RowAppears \/ KeepsStamps PROVE Stamp' = Stamp
  BY <1>3 DEF Stamp, RowAppears, KeepsStamps, OrgExists, FreshOrg
<1>4. CASE UNCHANGED mailVars /\ (UNCHANGED org \/ RowAppears \/ KeepsStamps)
  <2>1. UNCHANGED <<announced, lost, Holders>>
    BY <1>4 DEF Holders
  <2>2. QED
    BY <1>2, <1>3, <1>4, <2>1
<1>5. ASSUME NEW s \in Scan, NEW cost, NEW reread, Report(s, cost, reread) PROVE UNCHANGED <<announced, lost, Holders, Stamp>>
  BY <1>5 DEF Report, MailsFollowTheReport, Holders, Stamp, OrgExists, TypeOK
<1>6. ASSUME NEW s \in Scan, LookUp(s) PROVE UNCHANGED <<announced, lost, Holders, Stamp>>
  BY <1>6 DEF LookUp, Holders, Stamp, OrgExists
<1>7. ASSUME NEW s \in Scan, ClaimLimit(s) PROVE UNCHANGED <<announced, lost, Holders, Stamp>>
  <2>1. OrgExists /\ now[s] \in 0..MaxMonth
    BY <1>7 DEF ClaimLimit, ClaimsHaveARow, TypeOK
  <2>2. UNCHANGED org \/ org' = [org EXCEPT !.limitSent = now[s]]
    BY <1>7 DEF ClaimLimit
  <2>3. Stamp' = Stamp
    BY <2>1, <2>2, RowEdits DEF Stamp, OrgExists, KeepsPlan
  <2>4. QED
    BY <1>7, <2>3 DEF ClaimLimit, Holders
<1>8. ASSUME NEW s \in Scan, NEW ok \in BOOLEAN, RollBackLimit(s, ok) \/ SendLimit(s, ok)
      PROVE  UNCHANGED <<announced, lost, Holders, Stamp>>
  <2>1. OrgExists /\ 0 \in 0..MaxMonth
    BY <1>8, AccountAssumption DEF RollBackLimit, SendLimit, ClaimsHaveARow
  <2>2. UNCHANGED org \/ org' = [org EXCEPT !.limitSent = 0]
    BY <1>8 DEF RollBackLimit, SendLimit
  <2>3. Stamp' = Stamp
    BY <2>1, <2>2, RowEdits DEF Stamp, OrgExists, KeepsPlan
  <2>4. QED
    BY <1>8, <2>3 DEF RollBackLimit, SendLimit, Holders
<1>9. ASSUME NEW s \in Scan, ClaimFirst(s) PROVE Cardinality(announced') + lost' + Cardinality(Holders') = Stamp'
  <2>1. s \notin Holders /\ UNCHANGED <<announced, lost>>
    BY <1>9 DEF ClaimFirst, Holders
  <2>2. CASE OrgExists /\ ~org.firstSent
    <3>1. Holders' = Holders \cup {s}
      BY <1>9, <2>2 DEF ClaimFirst, Holders, TypeOK
    <3>2. Stamp = 0 /\ Stamp' = 1
      BY <1>9, <2>2, RowEdits DEF ClaimFirst, Stamp, KeepsPlan
    <3>3. Cardinality(Holders') = Cardinality(Holders) + 1
      BY <1>0, <2>1, <3>1, FS_AddElement
    <3>4. QED
      BY <1>0, <2>1, <3>2, <3>3
  <2>3. CASE ~(OrgExists /\ ~org.firstSent)
    BY <1>2, <1>9, <2>1, <2>3 DEF ClaimFirst, Holders, Stamp, OrgExists, TypeOK
  <2>4. QED
    BY <2>2, <2>3
<1>10. ASSUME NEW s \in Scan, NEW ok \in BOOLEAN, RollBackFirst(s, ok)
       PROVE  Cardinality(announced') + lost' + Cardinality(Holders') = Stamp'
  <2>1. s \in Holders /\ announced' = announced /\ OrgExists
    BY <1>10 DEF RollBackFirst, Holders, ClaimsHaveARow
  <2>2. Cardinality(Holders') = Cardinality(Holders) - 1
    BY <1>10, <2>1, HolderLeaves DEF RollBackFirst, Holders
  <2>3. Cardinality(Holders) # 0
    BY <1>0, <2>1, FS_EmptySet
  <2>4. Stamp = 1
    BY <1>0, <2>3
  <2>5. CASE ok
    <3>1. Stamp' = 0 /\ lost' = lost
      BY <1>10, <2>1, <2>5, RowEdits DEF RollBackFirst, Stamp
    <3>2. QED
      BY <1>0, <2>1, <2>2, <2>4, <3>1
  <2>6. CASE ~ok
    <3>1. Stamp' = Stamp /\ lost' = lost + 1
      BY <1>10, <2>6 DEF RollBackFirst, Stamp, OrgExists
    <3>2. QED
      BY <1>0, <2>1, <2>2, <3>1
  <2>7. QED
    BY <2>5, <2>6
<1>11. ASSUME NEW s \in Scan, NEW ok \in BOOLEAN, SendFirst(s, ok)
       PROVE  Cardinality(announced') + lost' + Cardinality(Holders') = Stamp'
  <2>1. s \in Holders /\ Stamp' = Stamp
    BY <1>11 DEF SendFirst, Holders, Stamp, OrgExists
  <2>2. Cardinality(Holders') = Cardinality(Holders) - 1
    BY <1>11, <2>1, HolderLeaves DEF SendFirst, Holders
  <2>3. Cardinality(Holders) # 0
    BY <1>0, <2>1, FS_EmptySet
  <2>4. announced = {}
    BY <1>0, <2>3, FS_EmptySet
  <2>5. CASE ok
    <3>1. lost' = lost /\ announced' = {s}
      BY <1>11, <2>4, <2>5 DEF SendFirst
    <3>2. Cardinality(announced') = 1 /\ Cardinality(announced) = 0
      BY <2>4, <3>1, FS_Singleton, FS_EmptySet
    <3>3. QED
      BY <1>0, <2>1, <2>2, <3>1, <3>2
  <2>6. CASE ~ok
    <3>1. lost' = lost + 1 /\ announced' = announced
      BY <1>11, <2>6 DEF SendFirst
    <3>2. QED
      BY <1>0, <2>1, <2>2, <3>1
  <2>7. QED
    BY <2>5, <2>6
<1>12. ASSUME Dies PROVE Cardinality(announced') + lost' + Cardinality(Holders') = Stamp'
  <2>1. announced' = announced /\ Stamp' = Stamp
    BY <1>12 DEF Dies, Stamp, OrgExists
  <2>2. lost' = lost + Cardinality(Holders)
    BY <1>12 DEF Dies, Holders
  <2>3. Holders' = {}
    BY <1>12 DEF Dies, Holders
  <2>4. QED
    BY <1>0, <2>1, <2>2, <2>3, FS_EmptySet
<1>13. CASE MailStep
  BY <1>2, <1>5, <1>6, <1>7, <1>8, <1>9, <1>10, <1>11, <1>12, <1>13 DEF MailStep
<1>14. QED
  BY <1>4, <1>13, MailSteps

\* A claim is later than every nudge that was sent or is being sent, and a
\* roll-back that clears the stamp under one is set down in straddled.
LEMMA NextNudges ==
  ASSUME TypeOK, ClaimsHaveARow, OursIsThere, MailsFollowTheReport, NudgesAreStamped, [Next]_vars
  PROVE  NudgesAreStamped'
<1> USE AccountAssumption DEF mailVars
<1>1. CASE /\ UNCHANGED <<now, warned, straddled>>
           /\ \A s \in Scan : limit'[s] = "claimed" <=> limit[s] = "claimed"
           /\ OrgExists => OrgExists' /\ org'.limitSent = org.limitSent
  BY <1>1 DEF NudgesAreStamped, ClaimsHaveARow
<1>2. ASSUME UNCHANGED org \/ RowAppears \/ KeepsStamps
      PROVE  OrgExists => OrgExists' /\ org'.limitSent = org.limitSent
  BY <1>2 DEF RowAppears, KeepsStamps, OrgExists
<1>3. CASE UNCHANGED mailVars /\ (UNCHANGED org \/ RowAppears \/ KeepsStamps)
  BY <1>1, <1>2, <1>3
<1>4. ASSUME NEW s \in Scan, NEW cost, NEW reread, Report(s, cost, reread) PROVE NudgesAreStamped'
  <2>1. /\ UNCHANGED <<now, warned, straddled, org>>
        /\ \A r \in Scan : limit'[r] = "claimed" <=> limit[r] = "claimed"
    BY <1>4 DEF Report, MailsFollowTheReport, TypeOK
  <2>2. QED
    BY <1>1, <1>2, <2>1
<1>5. ASSUME NEW s \in Scan, LookUp(s) PROVE NudgesAreStamped'
  <2>1. UNCHANGED <<warned, straddled, org>> /\ limit[s] = "due"
        /\ \A r \in Scan : r # s => limit'[r] = limit[r] /\ now'[r] = now[r]
    BY <1>5 DEF LookUp, TypeOK
  <2>2. limit'[s] = "looked"
    BY <1>5 DEF LookUp, TypeOK
  <2>3. QED
    BY <2>1, <2>2 DEF NudgesAreStamped, OrgExists
<1>6. ASSUME NEW s \in Scan, ClaimFirst(s) \/ (\E ok \in BOOLEAN : RollBackFirst(s, ok) \/ SendFirst(s, ok))
      PROVE  NudgesAreStamped'
  <2>1. UNCHANGED <<now, warned, straddled, limit>>
    BY <1>6 DEF ClaimFirst, RollBackFirst, SendFirst
  <2>2. UNCHANGED org \/ (OrgExists /\ \E b \in BOOLEAN : org' = [org EXCEPT !.firstSent = b])
    BY <1>6 DEF ClaimFirst, RollBackFirst, SendFirst, ClaimsHaveARow
  <2>3. OrgExists => OrgExists' /\ org'.limitSent = org.limitSent
    BY <2>2, RowEdits DEF KeepsPlan, OrgExists
  <2>4. QED
    BY <1>1, <2>1, <2>3
<1>7. ASSUME NEW s \in Scan, ClaimLimit(s) PROVE NudgesAreStamped'
  <2>1. OrgExists /\ now[s] \in 1..MaxMonth /\ limit[s] = "looked" /\ org.limitSent \in 0..MaxMonth
    BY <1>7, RowIsThere DEF ClaimLimit, ClaimsHaveARow, TypeOK, Org
  <2>2. UNCHANGED <<warned, straddled>> /\ \A r \in Scan : r # s => limit'[r] = limit[r] /\ now'[r] = now[r]
    BY <1>7 DEF ClaimLimit, TypeOK
  <2>3. CASE Claimable(s)
    <3>1. now'[s] = now[s] /\ org' = [org EXCEPT !.limitSent = now[s]] /\ org.limitSent < now[s]
      BY <1>7, <2>3 DEF ClaimLimit, Claimable, TypeOK
    <3>2. OrgExists' /\ org'.limitSent = now[s]
      BY <2>1, <3>1, RowEdits DEF KeepsPlan
    <3> SUFFICES ASSUME ~straddled
                 PROVE  /\ \A r \in Scan : limit'[r] = "claimed" =>
                             /\ now'[r] <= org'.limitSent
                             /\ warned[now'[r]] = {}
                             /\ \A q \in Scan : limit'[q] = "claimed" /\ now'[q] = now'[r] => q = r
                        /\ \A m \in 1..MaxMonth : warned[m] # {} =>
                             /\ OrgExists'
                             /\ m <= org'.limitSent
                             /\ \E q \in Scan : warned[m] = {q}
      BY <2>2 DEF NudgesAreStamped
    <3>3. \A r \in Scan : limit[r] = "claimed" => now[r] \in 1..MaxMonth /\ now[r] <= org.limitSent
      BY DEF NudgesAreStamped, ClaimsHaveARow
    <3>4. \A m \in 1..MaxMonth : warned[m] # {} => m <= org.limitSent /\ \E q \in Scan : warned[m] = {q}
      BY DEF NudgesAreStamped
    <3>5. warned[now[s]] = {}
      BY <2>1, <3>1, <3>4
    <3>6. \A r \in Scan : r # s /\ limit'[r] = "claimed" => now'[r] < now[s] /\ warned[now'[r]] = {}
      BY <2>1, <2>2, <3>1, <3>3 DEF NudgesAreStamped
    <3>7. ASSUME NEW q \in Scan, NEW r \in Scan, limit'[q] = "claimed", limit'[r] = "claimed",
                 now'[q] = now'[r], q # s, r # s
          PROVE  q = r
      <4>1. limit[q] = "claimed" /\ limit[r] = "claimed" /\ now[q] = now[r]
        BY <2>2, <3>7
      <4>2. QED
        BY <4>1 DEF NudgesAreStamped
    <3>8. ASSUME NEW m \in 1..MaxMonth, warned[m] # {} PROVE m <= now[s] /\ \E q \in Scan : warned[m] = {q}
      BY <2>1, <3>1, <3>4, <3>8
    <3>9. ASSUME NEW r \in Scan, limit'[r] = "claimed"
          PROVE  now'[r] <= now[s] /\ warned[now'[r]] = {}
      <4>1. CASE r = s
        BY <2>1, <3>1, <3>5, <4>1
      <4>2. CASE r # s
        BY <2>1, <2>2, <3>3, <3>6, <3>9, <4>2
      <4>3. QED
        BY <4>1, <4>2
    <3>10. \A q, r \in Scan : limit'[q] = "claimed" /\ limit'[r] = "claimed" /\ now'[q] = now'[r] => q = r
      <4>1. \A r \in Scan : r # s /\ limit'[r] = "claimed" => now'[r] # now'[s]
        BY <2>1, <2>2, <3>1, <3>3
      <4>2. QED
        BY <3>7, <4>1
    <3>11. QED
      BY <3>2, <3>8, <3>9, <3>10
  <2>4. CASE ~Claimable(s)
    <3>1. org' = org /\ limit'[s] = "over"
      BY <1>7, <2>4 DEF ClaimLimit, TypeOK
    <3>2. QED
      BY <2>1, <2>2, <3>1 DEF NudgesAreStamped, OrgExists
  <2>5. QED
    BY <2>3, <2>4
<1>8. ASSUME NEW s \in Scan, NEW ok \in BOOLEAN, RollBackLimit(s, ok) PROVE NudgesAreStamped'
  <2>1. limit[s] = "empty" /\ limit'[s] = "over" /\ warned' = warned
        /\ \A r \in Scan : r # s => limit'[r] = limit[r] /\ now'[r] = now[r]
    BY <1>8 DEF RollBackLimit, TypeOK
  <2>2. CASE ok
    <3>1. straddled' \/ ~Nudged
      BY <1>8, <2>2 DEF RollBackLimit
    <3>2. CASE straddled'
      BY <3>2 DEF NudgesAreStamped
    <3>3. CASE ~Nudged
      <4>1. \A r \in Scan : limit'[r] # "claimed"
        BY <2>1, <3>3 DEF Nudged
      <4>2. \A m \in 1..MaxMonth : warned'[m] = {}
        BY <2>1, <3>3 DEF Nudged, TypeOK
      <4>3. QED
        BY <4>1, <4>2 DEF NudgesAreStamped
    <3>4. QED
      BY <3>1, <3>2, <3>3
  <2>3. CASE ~ok
    <3>1. org' = org /\ straddled' = straddled
      BY <1>8, <2>3 DEF RollBackLimit, TypeOK
    <3>2. QED
      BY <2>1, <3>1 DEF NudgesAreStamped, OrgExists
  <2>4. QED
    BY <2>2, <2>3
<1>9. ASSUME NEW s \in Scan, NEW ok \in BOOLEAN, SendLimit(s, ok) PROVE NudgesAreStamped'
  <2>1. /\ limit[s] = "claimed" /\ limit'[s] = "over" /\ UNCHANGED <<org, straddled>>
        /\ OrgExists /\ now[s] \in 1..MaxMonth
        /\ \A r \in Scan : r # s => limit'[r] = limit[r] /\ now'[r] = now[r]
    BY <1>9 DEF SendLimit, TypeOK, ClaimsHaveARow
  <2>2. CASE warned' = warned
    BY <2>1, <2>2 DEF NudgesAreStamped, OrgExists
  <2>3. CASE warned' = [warned EXCEPT ![now[s]] = @ \cup {s}]
    <3> SUFFICES ASSUME ~straddled PROVE NudgesAreStamped'
      BY <2>1 DEF NudgesAreStamped
    <3>1. warned[now[s]] = {} /\ now[s] <= org.limitSent
          /\ \A r \in Scan : r # s /\ limit[r] = "claimed" => now[r] # now[s]
      BY <2>1 DEF NudgesAreStamped
    <3>2. warned'[now[s]] = {s} /\ \A m \in 1..MaxMonth : m # now[s] => warned'[m] = warned[m]
      BY <2>1, <2>3, <3>1 DEF TypeOK
    <3>3. ASSUME NEW r \in Scan, limit'[r] = "claimed"
          PROVE  /\ now'[r] <= org'.limitSent
                 /\ warned'[now'[r]] = {}
                 /\ \A q \in Scan : limit'[q] = "claimed" /\ now'[q] = now'[r] => q = r
      <4>1. r # s /\ limit[r] = "claimed" /\ now'[r] = now[r] /\ now[r] \in 1..MaxMonth
        BY <2>1, <3>3 DEF ClaimsHaveARow
      <4>2. QED
        BY <2>1, <3>1, <3>2, <4>1 DEF NudgesAreStamped
    <3>4. ASSUME NEW m \in 1..MaxMonth, warned'[m] # {}
          PROVE  OrgExists' /\ m <= org'.limitSent /\ \E q \in Scan : warned'[m] = {q}
      BY <2>1, <3>1, <3>2, <3>4 DEF NudgesAreStamped, OrgExists
    <3>5. QED
      BY <3>3, <3>4 DEF NudgesAreStamped
  <2>4. QED
    BY <1>9, <2>2, <2>3 DEF SendLimit
<1>10. CASE Dies
  <2>1. UNCHANGED <<org, warned, straddled>> /\ \A s \in Scan : limit'[s] # "claimed"
    BY <1>10 DEF Dies
  <2>2. QED
    BY <2>1 DEF NudgesAreStamped, OrgExists
<1>11. CASE MailStep
  BY <1>4, <1>5, <1>6, <1>7, <1>8, <1>9, <1>10, <1>11 DEF MailStep
<1>12. QED
  BY <1>3, <1>11, MailSteps

-----------------------------------------------------------------------------
(* The theorems *)

LEMMA InitIInv == Init => IInv
<1> SUFFICES ASSUME Init PROVE IInv
  OBVIOUS
<1>1. TypeOK /\ EventsTellTheSubscription /\ OursIsThere /\ RowIsTheNewestEvent
  BY InitTypeOK, InitPlan
<1>2. Holders = {} /\ announced = {} /\ lost = 0 /\ Stamp = 0
  BY DEF Init, Holders, Stamp, OrgExists
<1>3. FirstMailIsAccountedFor
  BY <1>1, <1>2, HoldersCount, FS_EmptySet
<1>4. ClaimsHaveARow /\ MailsFollowTheReport /\ NudgesAreStamped
  BY AccountAssumption DEF Init, ClaimsHaveARow, MailsFollowTheReport, NudgesAreStamped
<1>5. FormsAreNamed /\ AuditNamesEverySetting
  BY DEF Init, FormsAreNamed, AuditNamesEverySetting
<1>6. QED
  BY <1>1, <1>3, <1>4, <1>5 DEF IInv

LEMMA NextIInv == IInv /\ [Next]_vars => IInv'
<1> SUFFICES ASSUME IInv, [Next]_vars PROVE IInv'
  OBVIOUS
<1>1. TypeOK /\ ClaimsHaveARow /\ OursIsThere /\ MailsFollowTheReport
  BY DEF IInv
<1>2. TypeOK'
  BY <1>1, NextTypeOK
<1>3. ClaimsHaveARow' /\ MailsFollowTheReport'
  BY <1>1, NextClaims, NextFollows
<1>4. FirstMailIsAccountedFor'
  BY <1>1, <1>2, NextFirst DEF IInv
<1>5. NudgesAreStamped'
  BY <1>1, NextNudges DEF IInv
<1>6. EventsTellTheSubscription'
  BY <1>1, NextEvents DEF IInv
<1>7. OursIsThere' /\ RowIsTheNewestEvent'
  BY <1>1, NextOurs, NextRow DEF IInv
<1>8. FormsAreNamed' /\ AuditNamesEverySetting'
  BY <1>1, NextForms DEF IInv
<1>9. QED
  BY <1>2, <1>3, <1>4, <1>5, <1>6, <1>7, <1>8 DEF IInv

\* The invariant holds in every reachable state.
THEOREM Inductive == Spec => []IInv
  BY InitIInv, NextIInv, PTL DEF Spec

\* Type correctness.
THEOREM TypeCorrect == Spec => []TypeOK
<1>1. IInv => TypeOK
  BY DEF IInv
<1>2. QED
  BY Inductive, <1>1, PTL

\* Once Paddle's newest event is answered or applied, whatever came of the ones
\* before, the row is what Paddle sells, until an older one is applied again
\* (applyTransactionCompleted, applySubscriptionUpdated, applyDowngradeToFree,
\* and the answers of the webhook route).
THEOREM RowFollowsPaddle == Spec => []RowTracksPaddle
<1>1. ASSUME IInv PROVE RowTracksPaddle
  <2> DEFINE e == events[Len(events)]
  <2> SUFFICES ASSUME Len(events) > 0, Actionable(e),
                      told = "newest" \/ (told = "none" /\ Len(events) \in answered), Cardinality(Sold) = 1
               PROVE  /\ Live = {} => org.tier = "free" /\ org.sub = None
                      /\ \A x \in Live : org.tier = subs[x].price /\ org.sub = x
                      /\ org.cap = CapOf(org.tier)
    BY DEF RowTracksPaddle, NewestIsIn
  <2>1. PICK x : Sold = {x}
    <3>1. IsFiniteSet(Sold)
      BY AccountAssumption, FS_Subset DEF Sold
    <3>2. QED
      BY <3>1, FS_Singleton
  <2>2. told = "newest" /\ RowShows(e)
    BY <1>1 DEF IInv, RowIsTheNewestEvent
  <2>3. Len(events) \in 1..Len(events)
    BY <1>1 DEF IInv, TypeOK
  <2>4. OrgExists /\ org.cap = CapOf(org.tier)
    BY <1>1, <2>3 DEF IInv, RowIsTheNewestEvent, OursIsThere, Actionable
  <2>5. e \in Event
    BY <1>1, <2>3, EventTyped DEF IInv
  <2>6. e.sub \in Sub /\ e.sub = x
    BY <1>1, <2>1, <2>3, <2>5 DEF IInv, EventsTellTheSubscription, Sold, Event
  <2>7. IF SalesEvent(e) THEN subs[x].state = "active" /\ subs[x].price = e.price
                         ELSE subs[x].state \in {"past_due", "ended"}
    BY <1>1, <2>6 DEF IInv, EventsTellTheSubscription
  <2>8. Live \subseteq {x}
    BY <2>1 DEF Live, Sold
  <2> HIDE DEF e
  <2>9. CASE SalesEvent(e)
    <3>1. x \in Live
      BY <2>6, <2>7, <2>9 DEF Live
    <3>2. org.tier = subs[x].price /\ org.sub = x
      BY <2>2, <2>6, <2>7, <2>9, PlansFacts DEF RowShows
    <3>3. QED
      BY <2>4, <2>8, <3>1, <3>2
  <2>10. CASE ~SalesEvent(e)
    <3>1. x \notin Live
      BY <2>7, <2>10 DEF Live
    <3>2. QED
      BY <2>2, <2>4, <2>8, <2>10, <3>1 DEF RowShows
  <2>11. QED
    BY <2>9, <2>10
<1>2. QED
  BY Inductive, <1>1, PTL

\* The first-scan stamp stands for one e-mail or one failure
\* (maybeSendFirstScanEmail).
THEOREM FirstMailAccounted == Spec => []FirstMailIsAccountedFor
<1>1. IInv => FirstMailIsAccountedFor
  BY DEF IInv
<1>2. QED
  BY Inductive, <1>1, PTL

\* One nudge a month unless a roll-back clears the stamp under another scan's
\* (maybeSendLimitWarningEmail).
THEOREM OneNudge == Spec => []OneNudgeAMonth
<1>1. ASSUME IInv PROVE OneNudgeAMonth
  <2> SUFFICES ASSUME ~straddled, NEW m \in 1..MaxMonth PROVE Cardinality(warned[m]) <= 1
    BY DEF OneNudgeAMonth
  <2>1. warned[m] = {} \/ \E s \in Scan : warned[m] = {s}
    BY <1>1 DEF IInv, NudgesAreStamped
  <2>2. Cardinality(warned[m]) \in {0, 1}
    BY <2>1, FS_EmptySet, FS_Singleton
  <2>3. QED
    BY <2>2
<1>2. QED
  BY Inductive, <1>1, PTL

\* Every setting that is not at its default was named by the audit log (the
\* route's diff and the transaction of updateOrgSettings).
THEOREM AuditNames == Spec => []AuditNamesEverySetting
<1>1. IInv => AuditNamesEverySetting
  BY DEF IInv
<1>2. QED
  BY Inductive, <1>1, PTL

=============================================================================
