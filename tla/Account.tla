------------------------------ MODULE Account ------------------------------
(***************************************************************************)
(* One installation's organization row and everything that writes it: the  *)
(* provisioning (src/services/orgs.service.ts), Paddle's webhooks          *)
(* (apps/dashboard, api/billing/webhook and lib/billing-events.ts), the    *)
(* settings route, the sign-in that fills in the installer's address, the  *)
(* budget gate of the scans, and the two e-mails a scan may send           *)
(* (first-scan-email.ts, scan-limit-warning.ts), which claim their stamp   *)
(* on the row before they send.                                            *)
(*                                                                         *)
(* Paddle itself is external: it sells, changes and ends subscriptions,    *)
(* and delivers one event for each change, late, out of order and more     *)
(* than once.  A transaction of the database is one step; the plan_changed *)
(* entry it writes to the audit log repeats the row and is left out.       *)
(***************************************************************************)
EXTENDS Plans, Sequences

CONSTANTS
  Scan,         \* pull request scans of the installation
  Sub,          \* Paddle's subscription ids
  User,         \* the dashboard's users (see Plans, Role and Access)
  Session,      \* settings forms being saved
  Costs,        \* what one scan may cost
  MaxMonth,     \* bound on the months that pass
  MaxEvents,    \* bound on Paddle's events
  Load          \* bound on scans, sales, events and saved forms together

ASSUME AccountAssumption ==
  /\ IsFiniteSet(Scan) /\ IsFiniteSet(Sub) /\ IsFiniteSet(Session)
  /\ Costs \subseteq Nat
  /\ MaxMonth \in Nat \ {0} /\ MaxEvents \in Nat /\ Load \in Nat
  /\ None \notin Sub

VARIABLES
  org,        \* the orgs row, or none yet
  settings,   \* the org_settings row
  subs,       \* Paddle's side of the subscriptions
  events,     \* the events Paddle has to deliver, in the order they happened
  answered,   \* those that Paddle knows to be received: answered with 200
  told,       \* history: what the row was last told, by the newest event or,
              \* once that one was applied or answered, by an older one
  month, spent,             \* the calendar; the ledger's monthly and daily sums
  scan, first, limit, now,  \* the scans and the e-mail tasks they started
  announced, warned, lost, straddled,  \* history of the e-mails
  form,                     \* the settings forms
  named                     \* the fields the audit log's settings_updated entries name

planVars == <<subs, events, answered, told>>
mailVars == <<first, limit, now, announced, warned, lost, straddled>>
formVars == <<form, named>>
vars == <<org, settings, planVars, month, spent, scan, mailVars, formVars>>

NoOrg == [tier |-> None]
OrgExists == org # NoOrg
FreshOrg == [tier |-> "free", customer |-> FALSE, sub |-> None, cap |-> CapOf("free"),
             email |-> FALSE, firstSent |-> FALSE, limitSent |-> 0]

Org == [tier : Tier, customer : BOOLEAN, sub : Sub \cup {None}, cap : Nat,
        email : BOOLEAN, firstSent : BOOLEAN, limitSent : 0..MaxMonth]
\* custom_data.org_id: missing, of no organization, or this one's.
Addressee == {"none", "stale", "ours"}
Event == [type : {"completed", "updated", "canceled", "payment_failed"},
          sub : Sub, price : Price, org : Addressee, ids : BOOLEAN]
FirstStages == {"off", "due", "claimed", "empty", "over"}

TypeOK ==
  /\ org \in Org \cup {NoOrg}
  /\ settings \in Settings
  /\ subs \in [Sub -> [state : {"none", "active", "past_due", "ended"}, price : Price,
                       org : Addressee]]
  /\ events \in Seq(Event)
  /\ answered \subseteq 1..MaxEvents
  /\ told \in {"none", "newest", "older"}
  /\ month \in 1..MaxMonth
  /\ spent \in [month : Nat, day : Nat]
  /\ scan \in [Scan -> {"idle", "within", "refused", "unverifiable", "over"}]
  /\ first \in [Scan -> FirstStages]
  /\ limit \in [Scan -> FirstStages \cup {"looked"}]
  /\ now \in [Scan -> 0..MaxMonth]
  /\ announced \subseteq Scan
  /\ warned \in [1..MaxMonth -> SUBSET Scan]
  /\ lost \in Nat
  /\ straddled \in BOOLEAN
  /\ form \in [Session -> [at : {"open", "read", "saved"}, patch : Settings,
                           diff : SUBSET {"severity", "detectors"}]]
  /\ named \subseteq {"severity", "detectors"}

-----------------------------------------------------------------------------
\* What has been asked of the system so far.
Asked == Len(events) + Cardinality({s \in Scan : scan[s] # "idle"})
                     + Cardinality({f \in Session : form[f].at # "open"})
HasRoom == Asked < Load

Init ==
  /\ org = NoOrg
  /\ settings = DefaultSettings
  /\ subs = [x \in Sub |-> [state |-> "none", price |-> "foreign", org |-> "none"]]
  /\ events = << >>
  /\ answered = {}
  /\ told = "none"
  /\ month = 1
  /\ spent = [month |-> 0, day |-> 0]
  /\ scan = [s \in Scan |-> "idle"]
  /\ first = [s \in Scan |-> "off"]
  /\ limit = [s \in Scan |-> "off"]
  /\ now = [s \in Scan |-> 0]
  /\ announced = {}
  /\ warned = [m \in 1..MaxMonth |-> {}]
  /\ lost = 0
  /\ straddled = FALSE
  /\ form = [f \in Session |-> [at |-> "open", patch |-> DefaultSettings, diff |-> {}]]
  /\ named = {}

\* provisionOrgForInstallation: idempotent, whoever calls it.
Provisioned(o) == IF o = NoOrg THEN FreshOrg ELSE o

\* The installation webhook.
Install ==
  /\ org' = Provisioned(org)
  /\ org' # org
  /\ UNCHANGED <<settings, planVars, month, spent, scan, mailVars, formVars>>

\* A scan has begun, and only its e-mails tell the address and the month apart.
Mailing == \E s \in Scan : scan[s] # "idle"

\* readClerkUserEmail and populateInstallerEmailIfMissing, on a page load by
\* an administrator who has an address.
PopulateEmail(u) ==
  /\ Access(u, OrgExists) = "admin"
  /\ ~org.email /\ Mailing
  /\ org' = [org EXCEPT !.email = TRUE]
  /\ UNCHANGED <<settings, planVars, month, spent, scan, mailVars, formVars>>

-----------------------------------------------------------------------------
(* Paddle (external), and the routes that lead to it. *)

Emit(type, x, price, to, ids) ==
  /\ events' = Append(events, [type |-> type, sub |-> x, price |-> price, org |-> to,
                              ids |-> ids])
  /\ told' = "none"

PaddleMay(x) ==
  /\ HasRoom /\ Len(events) < MaxEvents
  /\ UNCHANGED <<org, settings, answered, month, spent, scan, mailVars, formVars>>

\* The checkout route: a tier that is for sale, bought by the owner.
MayCheckOut(u, t) == Access(u, OrgExists) = "admin" /\ TierOfPrice(t) # None

\* createCheckoutTransaction carries the organization's id; a subscription
\* sold in Paddle's own back office has none, or one that is not here.  The
\* ids the route needs beside it may be missing from an event.
Buy(x, t, to, ids) ==
  /\ subs[x].state = "none"
  /\ to = "ours" => \E u \in User : MayCheckOut(u, t)
  /\ subs' = [subs EXCEPT ![x] = [state |-> "active", price |-> t, org |-> to]]
  /\ Emit("completed", x, t, to, ids)
  /\ PaddleMay(x)

ChangePrice(x, p, ids) ==
  /\ subs[x].state = "active" /\ subs[x].price # p
  /\ subs' = [subs EXCEPT ![x].price = p]
  /\ Emit("updated", x, p, subs[x].org, ids)
  /\ PaddleMay(x)

FailPayment(x) ==
  /\ subs[x].state = "active"
  /\ subs' = [subs EXCEPT ![x].state = "past_due"]
  /\ Emit("payment_failed", x, subs[x].price, subs[x].org, TRUE)
  /\ PaddleMay(x)

\* A renewal, or the repeated charge after a failed one.
Renew(x, ids) ==
  /\ subs[x].state \in {"active", "past_due"}
  /\ subs' = [subs EXCEPT ![x].state = "active"]
  /\ Emit("completed", x, subs[x].price, subs[x].org, ids)
  /\ PaddleMay(x)

\* The portal route: the owner, and only the subscription on the row.
MayManage(u, x) == Access(u, OrgExists) = "admin" /\ org.sub = x

End(x) ==
  /\ subs[x].state \in {"active", "past_due"}
  /\ subs' = [subs EXCEPT ![x].state = "ended"]
  /\ Emit("canceled", x, subs[x].price, subs[x].org, TRUE)
  /\ PaddleMay(x)

EndByPortal(u, x) == MayManage(u, x) /\ End(x)

\* Paddle gives up on the payments.
EndByPaddle(x) == subs[x].state = "past_due" /\ End(x)

-----------------------------------------------------------------------------
(* The webhook route. *)

\* applyTransactionCompleted.
CompleteTransaction(e) ==
  org' = [org EXCEPT !.tier = TierOfPrice(e.price), !.customer = TRUE,
                     !.sub = e.sub, !.cap = CapOf(TierOfPrice(e.price))]

\* applySubscriptionUpdated: whatever the subscription's status.
UpdateSubscription(e) ==
  org' = [org EXCEPT !.tier = TierOfPrice(e.price), !.sub = e.sub,
                     !.cap = CapOf(TierOfPrice(e.price))]

\* applyDowngradeToFree: whichever subscription the event is about; the
\* customer is kept.
DowngradeBlankMutant(e) ==
  org' = [org EXCEPT !.tier = "free", !.sub = "", !.cap = CapOf("free")]
Downgrade(e) ==
  org' = [org EXCEPT !.tier = "free", !.sub = None, !.cap = CapOf("free")]

\* A sale needs a price that is sold here, and the customer's or the
\* subscription's id.
SalesEvent(e) == e.type \in {"completed", "updated"}
Complete(e) == SalesEvent(e) => TierOfPrice(e.price) # None /\ e.ids

\* The events that come to the database, those that change the row, and those
\* answered 200 all the same.  A sale to an organization that is not there is
\* neither: its audit entry's foreign key fails, every time.
Reaches(e) == e.org # "none" /\ Complete(e)
Actionable(e) == e.org = "ours" /\ Complete(e)
Ignored(e) == ~Reaches(e) \/ (e.org = "stale" /\ ~SalesEvent(e))

Apply(e) ==
  CASE e.type = "completed" -> CompleteTransaction(e)
    [] e.type = "updated"   -> UpdateSubscription(e)
    [] OTHER                -> Downgrade(e)

\* Any event, and any event again: duplicates come even after an answer.
Deliverable(i) == i \in 1..Len(events)

\* The event's row change and its audit entry commit together; the e-mail
\* follows, and the answer may still be lost.
PostApplied(i) ==
  LET newest == Len(events) IN
  /\ Deliverable(i) /\ Actionable(events[i])
  /\ Apply(events[i])
  /\ told' = IF i = newest THEN "newest"
             ELSE IF told = "none" /\ newest \notin answered THEN "none" ELSE "older"
  /\ answered' \in {answered, answered \cup {i}}
  /\ UNCHANGED <<settings, subs, events, month, spent, scan, mailVars, formVars>>

\* Acknowledged and dropped.
PostIgnored(i) ==
  /\ Deliverable(i) /\ Ignored(events[i]) /\ i \notin answered
  /\ answered' = answered \cup {i}
  /\ UNCHANGED <<org, settings, subs, events, told, month, spent, scan, mailVars, formVars>>

\* The signature is refused, or the database failed: nothing has changed, and
\* without a 200 Paddle will try again.
ErrorCodeMutant(h) == IF Verify(h, 10) = "ok" THEN 200 ELSE 401
ErrorCode(h) == IF Verify(h, 10) = "ok" THEN 500 ELSE 401
PostFails(i, h) ==
  /\ Deliverable(i)
  /\ Verify(h, 10) = "ok" => Reaches(events[i])
  /\ answered' = IF ErrorCode(h) = 200 THEN answered \cup {i} ELSE answered
  /\ UNCHANGED <<org, settings, subs, events, told, month, spent, scan, mailVars, formVars>>

-----------------------------------------------------------------------------
(* The settings route: the row is read for the audit's sake, then saved    *)
(* whole; a patch that changes nothing is answered without a write.  Two   *)
(* forms may be between the two at once.                                   *)

ReadForm(f, u, patch) ==
  /\ HasRoom
  /\ form[f].at = "open"
  /\ Access(u, OrgExists) = "admin"
  /\ \E valid \in Validated(patch) :
       /\ Diff(settings, valid) # {}
       /\ form' = [form EXCEPT ![f] = [at |-> "read", patch |-> valid,
                                       diff |-> Diff(settings, valid)]]
  /\ UNCHANGED <<org, settings, named, planVars, month, spent, scan, mailVars>>

\* updateOrgSettings: the row and the audit entry in one transaction; the
\* entry names what differed when the row was read.
SaveForm(f) ==
  /\ form[f].at = "read"
  /\ settings' = form[f].patch
  /\ named' = named \cup form[f].diff
  /\ form' = [form EXCEPT ![f] = [at |-> "saved", patch |-> DefaultSettings, diff |-> {}]]
  /\ UNCHANGED <<org, planVars, month, spent, scan, mailVars>>

-----------------------------------------------------------------------------
(* A scan: the budget gate before it, the gate read again after it, and    *)
(* the e-mails.                                                            *)

\* readBudgetFromDb and checkBudget, for a row that is there.
Decision(o) ==
  IF Exempt THEN "exempt" ELSE Within(spent.month, spent.day, o.cap)

\* The organization is provisioned by the gate when the installation's
\* webhook was lost; provisioning may also fail, or outlive its timeout.
Gate(s, read, again, made) ==
  LET readable == Exempt \/ ReadOk(read, again)
      row == IF readable /\ ~Exempt /\ made THEN Provisioned(org) ELSE org
  IN /\ HasRoom
     /\ scan[s] = "idle"
     /\ org' = row
     /\ scan' = [scan EXCEPT ![s] =
          IF ~readable \/ (row = NoOrg /\ ~Exempt) THEN "unverifiable"
          ELSE IF Refused(Decision(row)) THEN "refused" ELSE "within"]
     /\ UNCHANGED <<settings, planVars, month, spent, mailVars, formVars>>

\* The report is posted.  The nudge is due if the gate, read again with this
\* scan's cost, is in the warning range; a failed or an exempt read is not.
Report(s, cost, reread) ==
  LET total == spent.month + cost
      warns == reread /\ ~Exempt /\ OrgExists /\ Warns(total, org.cap)
  IN /\ scan[s] \in {"within", "refused"}
     /\ scan[s] = "refused" => cost = 0 /\ ~reread
     /\ spent' = [month |-> total, day |-> spent.day + cost]
     /\ scan' = [scan EXCEPT ![s] = "over"]
     /\ first' = [first EXCEPT ![s] = "due"]
     /\ limit' = [limit EXCEPT ![s] = IF warns THEN "due" ELSE "off"]
     /\ UNCHANGED <<org, settings, planVars, month, now, announced, warned, lost,
                    straddled, formVars>>

\* A scan whose budget was unverifiable reports that and sends nothing.
ReportUnverified(s) ==
  /\ scan[s] = "unverifiable"
  /\ scan' = [scan EXCEPT ![s] = "over"]
  /\ UNCHANGED <<org, settings, planVars, month, spent, mailVars, formVars>>

\* maybeSendFirstScanEmail: one UPDATE takes the stamp and reads the address.
ClaimFirstMutant(s) ==
  /\ first[s] = "due"
  /\ first' = [first EXCEPT ![s] = IF ~OrgExists THEN "over"
                                   ELSE IF org.email THEN "claimed" ELSE "empty"]
  /\ org' = IF OrgExists THEN [org EXCEPT !.firstSent = TRUE] ELSE org
  /\ UNCHANGED <<settings, planVars, month, spent, scan, limit, now, announced,
                 warned, lost, straddled, formVars>>
ClaimFirst(s) ==
  LET mine == OrgExists /\ ~org.firstSent IN
  /\ first[s] = "due"
  /\ first' = [first EXCEPT ![s] = IF ~mine THEN "over"
                                   ELSE IF org.email THEN "claimed" ELSE "empty"]
  /\ org' = IF mine THEN [org EXCEPT !.firstSent = TRUE] ELSE org
  /\ UNCHANGED <<settings, planVars, month, spent, scan, limit, now, announced,
                 warned, lost, straddled, formVars>>

\* No address: the stamp is taken back, unless that fails.
RollBackFirst(s, ok) ==
  /\ first[s] = "empty"
  /\ first' = [first EXCEPT ![s] = "over"]
  /\ org' = IF ok THEN [org EXCEPT !.firstSent = FALSE] ELSE org
  /\ lost' = IF ok THEN lost ELSE lost + 1
  /\ UNCHANGED <<settings, planVars, month, spent, scan, limit, now, announced,
                 warned, straddled, formVars>>

\* sendBillingEmail; a failure leaves the stamp.
SendFirst(s, ok) ==
  /\ first[s] = "claimed"
  /\ first' = [first EXCEPT ![s] = "over"]
  /\ announced' = IF ok THEN announced \cup {s} ELSE announced
  /\ lost' = IF ok THEN lost ELSE lost + 1
  /\ UNCHANGED <<org, settings, planVars, month, spent, scan, limit, now, warned,
                 straddled, formVars>>

\* triggerLimitWarningEmailIfNeeded looks up the organization and takes the
\* time it will claim with.
LookUp(s) ==
  /\ limit[s] = "due"
  /\ limit' = [limit EXCEPT ![s] = "looked"]
  /\ now' = [now EXCEPT ![s] = month]
  /\ UNCHANGED <<org, settings, planVars, month, spent, scan, first, announced,
                 warned, lost, straddled, formVars>>

\* maybeSendLimitWarningEmail: the stamp must be empty or of an earlier month.
ClaimableMutant(s) == org.limitSent <= now[s]
Claimable(s) == org.limitSent < now[s]
ClaimLimit(s) ==
  /\ limit[s] = "looked"
  /\ limit' = [limit EXCEPT ![s] = IF ~Claimable(s) THEN "over"
                                   ELSE IF org.email THEN "claimed" ELSE "empty"]
  /\ now' = [now EXCEPT ![s] = IF Claimable(s) THEN @ ELSE 0]
  /\ org' = IF Claimable(s) THEN [org EXCEPT !.limitSent = now[s]] ELSE org
  /\ UNCHANGED <<settings, planVars, month, spent, scan, first, announced,
                 warned, lost, straddled, formVars>>

\* A nudge was sent, or is about to be: the stamp stands for it.
Nudged == \E r \in Scan : limit[r] = "claimed" \/ \E m \in 1..MaxMonth : r \in warned[m]

\* The stamp is cleared whosever it is by now.
RollBackLimit(s, ok) ==
  /\ limit[s] = "empty"
  /\ limit' = [limit EXCEPT ![s] = "over"]
  /\ now' = [now EXCEPT ![s] = 0]
  /\ org' = IF ok THEN [org EXCEPT !.limitSent = 0] ELSE org
  /\ straddled' = (straddled \/ (ok /\ Nudged))
  /\ UNCHANGED <<settings, planVars, month, spent, scan, first, announced,
                 warned, lost, formVars>>

SendLimit(s, ok) ==
  /\ limit[s] = "claimed"
  /\ limit' = [limit EXCEPT ![s] = "over"]
  /\ now' = [now EXCEPT ![s] = 0]
  /\ warned' = IF ok THEN [warned EXCEPT ![now[s]] = @ \cup {s}] ELSE warned
  /\ UNCHANGED <<org, settings, planVars, month, spent, scan, first, announced,
                 lost, straddled, formVars>>

\* The process dies: its scans and the e-mails it had not sent are gone.
Dies ==
  LET holders == {s \in Scan : first[s] \in {"claimed", "empty"}} IN
  /\ \E s \in Scan : scan[s] \in {"within", "refused"} \/ first[s] \in {"due", "claimed", "empty"}
                                                     \/ limit[s] \in {"due", "looked", "claimed", "empty"}
  /\ scan' = [s \in Scan |-> IF scan[s] = "idle" THEN "idle" ELSE "over"]
  /\ first' = [s \in Scan |-> IF first[s] = "off" THEN "off" ELSE "over"]
  /\ limit' = [s \in Scan |-> IF limit[s] = "off" THEN "off" ELSE "over"]
  /\ now' = [s \in Scan |-> 0]
  /\ lost' = lost + Cardinality(holders)
  /\ UNCHANGED <<org, settings, planVars, month, spent, announced, warned,
                 straddled, formVars>>

\* Only a scan that is still to come would see the difference.
NextDay ==
  /\ spent.day > 0 /\ HasRoom
  /\ spent' = [spent EXCEPT !.day = 0]
  /\ UNCHANGED <<org, settings, planVars, month, scan, mailVars, formVars>>

NextMonth ==
  /\ month < MaxMonth /\ Mailing
  /\ month' = month + 1
  /\ spent' = [month |-> 0, day |-> 0]
  /\ UNCHANGED <<org, settings, planVars, scan, mailVars, formVars>>

-----------------------------------------------------------------------------
Headers == {[ts |-> 9, h1 |-> "hmac"], [ts |-> 2, h1 |-> "hmac"], [ts |-> 0, h1 |-> "hmac"]}

Patches == Settings \cup {[severity |-> "unknown", detectors |-> "null"]}

PaddleNext ==
  \E x \in Sub :
    \/ \E t \in Paid, to \in Addressee, ids \in BOOLEAN : Buy(x, t, to, ids)
    \/ \E p \in Price, ids \in BOOLEAN : ChangePrice(x, p, ids)
    \/ \E ids \in BOOLEAN : Renew(x, ids)
    \/ FailPayment(x) \/ EndByPaddle(x)
    \/ \E u \in User : EndByPortal(u, x)

WebhookNext ==
  \E i \in 1..MaxEvents :
    PostApplied(i) \/ PostIgnored(i) \/ \E h \in Headers : PostFails(i, h)

FormNext ==
  \E f \in Session :
    \/ \E u \in User, patch \in Patches : ReadForm(f, u, patch)
    \/ SaveForm(f)

ScanNext ==
  \E s \in Scan :
    \/ \E read, again \in {"ok", "connection", "query"}, made \in BOOLEAN :
         Gate(s, read, again, made)
    \/ \E cost \in Costs, reread \in BOOLEAN : Report(s, cost, reread)
    \/ ReportUnverified(s) \/ ClaimFirst(s) \/ LookUp(s) \/ ClaimLimit(s)
    \/ \E ok \in BOOLEAN :
         RollBackFirst(s, ok) \/ SendFirst(s, ok) \/ RollBackLimit(s, ok) \/ SendLimit(s, ok)

Next ==
  \/ Install \/ \E u \in User : PopulateEmail(u)
  \/ PaddleNext \/ WebhookNext \/ FormNext \/ ScanNext
  \/ Dies \/ NextDay \/ NextMonth

Spec == Init /\ [][Next]_vars

-----------------------------------------------------------------------------
(* Properties *)

\* Whatever was lost, repeated, refused or applied out of order before it, once
\* the newest event is answered with 200, or applied though its answer was lost,
\* the row is what Paddle sells: the one live subscription's tier, or free.  So
\* no failed transaction is acknowledged, and no older event outlasts a newer
\* one unless it is itself applied later.  That it may be: nothing but the
\* order of delivery tells an old event from a new one, and a late duplicate
\* of a sale brings back a plan that has ended, until the newest event is
\* applied again; billing-events.ts:8-11 counts on duplicates doing no harm.
\* An event that is dropped, and two subscriptions at once, are outside.
Live == {x \in Sub : subs[x].state = "active"}
Sold == {x \in Sub : subs[x].state # "none"}
NewestIsIn ==
  LET n == Len(events) IN
  /\ n > 0 /\ Actionable(events[n])
  /\ told = "newest" \/ (told = "none" /\ n \in answered)
RowTracksPaddle ==
  NewestIsIn /\ Cardinality(Sold) = 1
  => /\ Live = {} => org.tier = "free" /\ org.sub = None
     /\ \A x \in Live : org.tier = subs[x].price /\ org.sub = x
     /\ org.cap = CapOf(org.tier)

\* The first-scan stamp is always accounted for: it stands for one e-mail
\* sent, one task that holds it, or one that lost it (a send or a roll-back
\* that failed, a crash).  So there is never a second e-mail, and a stamp
\* without an e-mail always has a failure behind it.
FirstMailIsAccountedFor ==
  Cardinality(announced) + lost + Cardinality({s \in Scan : first[s] \in {"claimed", "empty"}})
    = IF OrgExists /\ org.firstSent THEN 1 ELSE 0

\* "Each month gets at most one nudge per org", says the header of
\* src/services/scan-limit-warning.ts; it does, as long as no roll-back cleared
\* the stamp under the nudge of another scan.
OneNudgeAMonth ==
  ~straddled => \A m \in 1..MaxMonth : Cardinality(warned[m]) <= 1

\* A setting that is not at its default has been named by an entry of the
\* audit log, even when saves overlap.  An entry names what differed when its
\* form read the row, and not what the save changed: of two overlapping saves
\* the later one may put a field back without naming it, so this is what the
\* log still says ("record only what actually changed", the route's comment).
AuditNamesEverySetting ==
  {x \in {"severity", "detectors"} : settings[x] # DefaultSettings[x]} \subseteq named

-----------------------------------------------------------------------------
(* The inductive invariant. *)

\* An e-mail's claim is made on a row that is there.
ClaimsHaveARow ==
  \A s \in Scan :
    /\ first[s] \in {"claimed", "empty"} => OrgExists
    /\ limit[s] \notin {"off", "over"} => OrgExists
    /\ limit[s] \in {"looked", "claimed", "empty"} => now[s] \in 1..MaxMonth

\* A scan's e-mails start with its report, once.
MailsFollowTheReport ==
  \A s \in Scan : scan[s] # "over" => first[s] = "off" /\ limit[s] = "off"

\* The stamp is at least as late as the months of the nudges sent and about to
\* be sent, and a month has one or the other, once.
NudgesAreStamped ==
  ~straddled =>
    /\ \A s \in Scan : limit[s] = "claimed" =>
         /\ now[s] <= org.limitSent
         /\ warned[now[s]] = {}
         /\ \A r \in Scan : limit[r] = "claimed" /\ now[r] = now[s] => r = s
    /\ \A m \in 1..MaxMonth : warned[m] # {} =>
         /\ OrgExists
         /\ m <= org.limitSent
         /\ \E s \in Scan : warned[m] = {s}

\* Every event is about a subscription that was sold, and the last one says
\* how its subscription stands.
EventsTellTheSubscription ==
  /\ \A i \in 1..Len(events) : subs[events[i].sub].state # "none"
  /\ Len(events) > 0 =>
       LET e == events[Len(events)] IN
         IF SalesEvent(e) THEN subs[e.sub].state = "active" /\ subs[e.sub].price = e.price
                          ELSE subs[e.sub].state \in {"past_due", "ended"}

\* An event that names this organization comes from its checkout.
OursIsThere ==
  /\ \A x \in Sub : subs[x].org = "ours" => OrgExists
  /\ \A i \in 1..Len(events) : events[i].org = "ours" => OrgExists

\* While no older event was applied after the newest one, the newest one is
\* what the row says; an answer means it was applied, or is not for this row.
RowShows(e) ==
  IF SalesEvent(e) THEN TierOfPrice(e.price) # None /\ org.tier = TierOfPrice(e.price) /\ org.sub = e.sub
                   ELSE org.tier = "free" /\ org.sub = None

RowIsTheNewestEvent ==
  /\ OrgExists => org.cap = CapOf(org.tier)
  /\ told # "none" => Len(events) > 0
  /\ told = "newest" => RowShows(events[Len(events)])
  /\ answered \subseteq 1..Len(events)
  /\ told = "none" /\ Len(events) \in answered => ~Actionable(events[Len(events)])

\* What a form will save without naming it, the log has named before.
FormsAreNamed ==
  \A f \in Session : form[f].at = "read" =>
    {x \in {"severity", "detectors"} \ form[f].diff :
       form[f].patch[x] # DefaultSettings[x]} \subseteq named

IInv ==
  /\ TypeOK
  /\ ClaimsHaveARow
  /\ MailsFollowTheReport
  /\ FirstMailIsAccountedFor
  /\ NudgesAreStamped
  /\ EventsTellTheSubscription
  /\ OursIsThere
  /\ RowIsTheNewestEvent
  /\ FormsAreNamed
  /\ AuditNamesEverySetting

=============================================================================
