------------------------------- MODULE Delivery -------------------------------
(***************************************************************************)
(* The process behind the webhook: what it answers to a delivery of        *)
(* GitHub's (server/github-webhook-route.ts) and to a scan asked for over  *)
(* the API (server/webhook-server.ts, server/api-scan.ts), how it runs the *)
(* accepted scans after their answer (lib/in-flight.ts), and how it ends.  *)
(* A delivery's scan takes its token and posts its report as in Comments;  *)
(* its turn in the queue, its deadline and its row are in the modules      *)
(* ScanQueue, ScanDeadline and ScanRuns, and are coarse here.              *)
(***************************************************************************)
EXTENDS Comments

CONSTANTS
  Max, Window,    \* FIXOR_API_RATE_LIMIT and its window
  MaxLives,       \* bound on the processes that follow one another
  Load            \* bound on deliveries, requests and restarts together

ASSUME DeliveryAssumption ==
  /\ Max \in Nat \ {0} /\ Window \in Nat \ {0}
  /\ MaxLives \in Nat \ {0} /\ Load \in Nat

Delivery == Poster     \* a delivery that is scanned reports on the pull request

VARIABLES
  server,     \* the process: up, or on its way out
  life,       \* how many processes there have been
  awaited,    \* the tasks that the drain waits for
  drained,    \* history: the last exit waited for all of them
  del,        \* what became of each delivery
  tracked,    \* the tasks in InFlightTracker
  row,        \* the delivery's scan_runs row
  answer,     \* the status GitHub got for it; 0 if none
  calls,      \* how many API calls are where
  bucket,     \* the token's window: what it has counted, and its age
  admitted    \* history: the requests admitted, by how long ago

serverVars == <<server, life, awaited, drained>>
deliveryVars == <<del, tracked, row, answer>>
apiVars == <<calls, bucket, admitted>>
vars == <<commentVars, serverVars, deliveryVars, apiVars>>

\* "settled" is a scan that ended, or was given up at its deadline.
DeliveryStages == {"idle", "accepting", "cut", "accepted", "rerun", "settled",
                   "refused", "dead"}
CallStages == {"open", "left", "scanned", "refused"}

TypeOK ==
  /\ CommentsTypeOK
  /\ server \in {"up", "closing", "draining", "exited"}
  /\ life \in 1..MaxLives
  /\ awaited \subseteq Delivery
  /\ drained \in BOOLEAN
  /\ del \in [Delivery -> DeliveryStages]
  /\ tracked \subseteq {d \in Delivery : del[d] = "accepted"}
  /\ row \in [Delivery -> {"none", "open", "final"}]
  /\ answer \in [Delivery -> {0, 200, 202, 400, 401, 502, 503}]
  /\ calls \in [CallStages -> 0..Load]
  /\ bucket \in [count : 0..Max, age : 0..Window]
  /\ admitted \in [0..(Window - 1) -> Nat]

-----------------------------------------------------------------------------
(* The webhook route, for one HTTP request *)

\* verifyGitHubWebhookSignature256: refused without a header, and compared
\* with the body's own signature otherwise.
Verified(h) == h.signature = "hmac"

\* decidePullRequestScan: the actions that carry code.
ScannedActions == {"opened", "synchronize", "reopened"}
Scans(h) == h.action \in ScannedActions \/ (h.action = "edited" /\ h.baseChanged)

\* validateGitHubPullRequestPayload, and the installation that pays.
Priced(h) == h.complete /\ h.installation

\* routeGitHubWebhook's answer to what it does not accept; 0 for the rest.
\* (A created installation is in the module Account.)
RouteStatus(h) ==
  CASE ~Verified(h)                 -> 401
    [] ~h.json                      -> 400
    [] h.event # "pull_request"     -> 200
    [] ~Scans(h)                    -> 200
    [] ~Priced(h)                   -> 502
    [] OTHER                        -> 0

\* What is posted to /webhook: each example departs from the first in one
\* respect, so that every answer of the route occurs.
GoodHook == [signature |-> "hmac", json |-> TRUE, event |-> "pull_request",
             action |-> "synchronize", baseChanged |-> FALSE, complete |-> TRUE,
             installation |-> TRUE]
Hooks == {GoodHook,
          [GoodHook EXCEPT !.signature = "missing"], [GoodHook EXCEPT !.json = FALSE],
          [GoodHook EXCEPT !.event = "push"], [GoodHook EXCEPT !.action = "labeled"],
          [GoodHook EXCEPT !.action = "edited"],
          [GoodHook EXCEPT !.action = "edited", !.baseChanged = TRUE],
          [GoodHook EXCEPT !.complete = FALSE], [GoodHook EXCEPT !.installation = FALSE]}

-----------------------------------------------------------------------------
NoBucket == [count |-> 0, age |-> Window]

\* What has happened so far; a delivery or a restart counts for two.
Asked == 2 * Cardinality({d \in Delivery : del[d] # "idle"})
         + calls["open"] + calls["left"] + calls["scanned"] + calls["refused"]
         + 2 * (life - 1)
HasRoom(n) == Asked + n <= Load

Init ==
  /\ CommentsInit
  /\ server = "up" /\ life = 1 /\ awaited = {} /\ drained = FALSE
  /\ del = [d \in Delivery |-> "idle"]
  /\ tracked = {}
  /\ row = [d \in Delivery |-> "none"]
  /\ answer = [d \in Delivery |-> 0]
  /\ calls = [c \in CallStages |-> 0]
  /\ bucket = NoBucket
  /\ admitted = [t \in 0..(Window - 1) |-> 0]

\* A delivery arrives: answered at once, or on its way into a row.
Receive(d, h) ==
  /\ server = "up" /\ HasRoom(2)
  /\ del[d] = "idle"
  /\ IF RouteStatus(h) = 0
     THEN del' = [del EXCEPT ![d] = "accepting"] /\ UNCHANGED answer
     ELSE /\ del' = [del EXCEPT ![d] = "refused"]
          /\ answer' = [answer EXCEPT ![d] = RouteStatus(h)]
  /\ UNCHANGED <<commentVars, serverVars, tracked, row, apiVars>>

\* GitHub gives up on the answer after ten seconds; only a server that
\* waits for its connections sees the difference.
GitHubHangsUp(d) ==
  /\ del[d] = "accepting" /\ server = "closing"
  /\ del' = [del EXCEPT ![d] = "cut"]
  /\ UNCHANGED <<commentVars, serverVars, tracked, row, answer, apiVars>>

\* The status of an accepted delivery: without its row it is a failed one.
AcceptedStatusMutant(recorded) == 202
AcceptedStatus(recorded) == IF recorded THEN 202 ELSE 503

\* createPending has returned: the scan is tracked, and then the delivery is
\* answered, in one step of the event loop.
Accept(d, recorded) ==
  /\ del[d] \in {"accepting", "cut"}
  /\ del' = [del EXCEPT ![d] = "accepted"]
  /\ tracked' = tracked \cup {d}
  /\ row' = [row EXCEPT ![d] = IF recorded THEN "open" ELSE "none"]
  /\ answer' = [answer EXCEPT ![d] = IF del[d] = "cut" THEN 0 ELSE AcceptedStatus(recorded)]
  /\ UNCHANGED <<commentVars, serverVars, apiVars>>

\* Redelivered by its owner: the row says that it was received before.
Redeliver(d) ==
  /\ server = "up" /\ HasRoom(1)
  /\ row[d] # "none" /\ answer[d] # 200
  /\ answer' = [answer EXCEPT ![d] = 200]
  /\ UNCHANGED <<commentVars, serverVars, del, tracked, row, apiVars>>

-----------------------------------------------------------------------------
(* The accepted scans *)

Running == {d \in Delivery : del[d] \in {"accepted", "rerun"}}

\* The scan's own steps; one without a row asks GitHub for a token too, to
\* say that it did not scan.
Work ==
  /\ server # "exited"
  /\ \/ \E d \in Running : GetToken(d)
     \/ TokenNext \/ PostNext
  /\ UNCHANGED <<serverVars, deliveryVars, apiVars>>

\* finishOnce, and then the task leaves the tracker.  The row's last write
\* may fail, which leaves it to the sweep of a process that is still to come.
SettlesMutant(d, written) ==
  /\ d \in Running
  /\ written \/ HasRoom(2)
  /\ del' = [del EXCEPT ![d] = "settled"]
  /\ row' = IF row[d] = "open" /\ written THEN [row EXCEPT ![d] = "final"] ELSE row
  /\ UNCHANGED <<serverVars, answer, tracked, apiVars>>
Settles(d, written) ==
  /\ d \in Running
  /\ written \/ HasRoom(2)
  /\ del' = [del EXCEPT ![d] = "settled"]
  /\ tracked' = tracked \ {d}
  /\ row' = IF row[d] = "open" /\ written THEN [row EXCEPT ![d] = "final"] ELSE row
  /\ UNCHANGED <<serverVars, answer, apiVars>>

EndScan(d, written) ==
  /\ post[d] \in Ended
  /\ Settles(d, written)
  /\ Forget(d)

\* At the deadline the row is closed and the task ends, while the scan may
\* go on and post (see ScanDeadline).
GiveUp(d, written) ==
  /\ post[d] \in {"wait", "scan"} \cup Posting
  /\ Settles(d, written)
  /\ UNCHANGED commentVars

-----------------------------------------------------------------------------
(* The API *)

\* FixedWindowRateLimiter.allow: the window that counts now, and whether it
\* has room.
RollMutant == IF bucket.age = Window THEN [count |-> -1, age |-> 0] ELSE bucket
Roll == IF bucket.age = Window THEN [count |-> 0, age |-> 0] ELSE bucket
Allows == Roll.count < Max

\* verifyApiToken: a bearer token with the right prefix, whose hash is found
\* and not revoked.  A prefix that is wrong is never looked up.
TokenStatus(t) ==
  CASE ~t.bearer \/ ~t.prefixed  -> 401
    [] t.row = "unreadable"      -> 503
    [] t.row # "live"            -> 401
    [] OTHER                     -> 200

GoodToken == [bearer |-> TRUE, prefixed |-> TRUE, row |-> "live"]
ApiTokens == {GoodToken, [GoodToken EXCEPT !.bearer = FALSE], [GoodToken EXCEPT !.prefixed = FALSE]}
             \cup {[GoodToken EXCEPT !.row = r] : r \in {"unreadable", "unknown", "revoked"}}

\* handleApiScan up to the limiter: the token is refused (401), or cannot be
\* looked up (503), or has used its limit up (429).
CallApi(t) ==
  /\ server = "up" /\ HasRoom(1)
  /\ IF TokenStatus(t) = 200 /\ Allows
     THEN /\ calls' = [calls EXCEPT !["open"] = @ + 1]
          /\ bucket' = [Roll EXCEPT !.count = @ + 1]
          /\ admitted' = [admitted EXCEPT ![0] = @ + 1]
     ELSE /\ calls' = [calls EXCEPT !["refused"] = @ + 1]
          /\ UNCHANGED <<bucket, admitted>>
  /\ UNCHANGED <<commentVars, serverVars, deliveryVars>>

\* budgetRefusalHttp: 0 when the scan may proceed.
RefusalStatus(budget) ==
  CASE budget \in {"within", "exempt"}  -> 0
    [] budget = "budget_unverifiable"   -> 503
    [] OTHER                            -> 402

\* runApiScan, and what handleApiScan checks before it.
ApiStatus(c) ==
  CASE ~c.body                        -> 400
    [] ~c.installation                -> 503
    [] RefusalStatus(c.budget) # 0    -> RefusalStatus(c.budget)
    [] c.scan = "timed_out"           -> 504
    [] c.scan = "spend_unrecorded"    -> 503
    [] c.scan = "threw"               -> 500
    [] OTHER                          -> 200

GoodCall == [body |-> TRUE, installation |-> TRUE, budget |-> "within", scan |-> "done"]
Calls == {GoodCall, [GoodCall EXCEPT !.body = FALSE], [GoodCall EXCEPT !.installation = FALSE]}
         \cup {[GoodCall EXCEPT !.budget = b] :
                 b \in {"exempt", "monthly_exceeded", "daily_exceeded", "budget_unverifiable"}}
         \cup {[GoodCall EXCEPT !.scan = x] : x \in {"timed_out", "spend_unrecorded", "threw"}}

Moved(to) ==
  /\ calls["open"] > 0
  /\ calls' = [calls EXCEPT !["open"] = @ - 1, ![to] = @ + 1]

AnswerApi(c) ==
  /\ Moved(IF ApiStatus(c) = 200 THEN "scanned" ELSE "refused")
  /\ UNCHANGED <<commentVars, serverVars, deliveryVars, bucket, admitted>>

\* The caller goes away; its scan goes on.
CallerHangsUp ==
  /\ Moved("left")
  /\ UNCHANGED <<commentVars, serverVars, deliveryVars, bucket, admitted>>

-----------------------------------------------------------------------------
(* The end of the process, and the next one *)

NoConnection == calls["open"] = 0 /\ \A d \in Delivery : del[d] # "accepting"

\* SIGTERM: no new connections.
Shutdown ==
  /\ server = "up"
  /\ server' = "closing"
  /\ UNCHANGED <<commentVars, life, awaited, drained, deliveryVars, apiVars>>

\* server.close has seen the last connection end; drain takes the tasks
\* there are now.
Drain ==
  /\ server = "closing" /\ NoConnection
  /\ server' = "draining"
  /\ awaited' = tracked
  /\ UNCHANGED <<commentVars, life, drained, deliveryVars, apiVars>>

\* The process is gone, and with it everything it had not finished.  A row
\* that was being inserted may have been committed all the same.
Exits(clean, insert) ==
  /\ server' = "exited"
  /\ drained' = clean
  /\ awaited' = {}
  /\ tracked' = {}
  /\ del' = [d \in Delivery |-> IF del[d] \in {"accepting", "cut", "accepted", "rerun"}
                                THEN "dead" ELSE del[d]]
  /\ row' = [d \in Delivery |-> IF del[d] \in {"accepting", "cut"} /\ insert
                                THEN "open" ELSE row[d]]
  /\ calls' = [calls EXCEPT !["open"] = 0, !["refused"] = @ + calls["open"]]
  /\ post' = [d \in Delivery |-> "off"]
  /\ token' = [d \in Delivery |-> NoToken]
  /\ target' = [d \in Delivery |-> 0]
  /\ cached' = 0
  /\ bucket' = NoBucket
  /\ admitted' = [t \in 0..(Window - 1) |-> 0]
  /\ UNCHANGED <<githubVars, storeVars, raced, life, answer>>

\* Promise.allSettled over the snapshot, raced against the timeout.
Drained == awaited \cap tracked = {}
DrainEnds(insert) == server = "draining" /\ Drained /\ Exits(TRUE, insert)
DrainTimesOut(insert) == server = "draining" /\ awaited \cap tracked # {} /\ Exits(FALSE, insert)
Killed(insert) == server # "exited" /\ Exits(FALSE, insert)

\* main refuses to serve without credentials, without a secret (unless told
\* so outside production), or on a port that is none.
MayServe(env) ==
  /\ env.app \/ env.pat
  /\ env.model /\ env.port
  /\ env.secret \/ (env.unsigned /\ ~env.production)

Production == [app |-> TRUE, pat |-> FALSE, model |-> TRUE, port |-> TRUE, secret |-> TRUE,
               unsigned |-> FALSE, production |-> TRUE]

Restart(env) ==
  /\ server = "exited" /\ life < MaxLives /\ HasRoom(2)
  /\ MayServe(env)
  /\ server' = "up"
  /\ life' = life + 1
  /\ drained' = FALSE
  /\ UNCHANGED <<commentVars, awaited, deliveryVars, apiVars>>

\* The startup sweep runs a row of an earlier process again; its scan is in
\* nobody's tracker.
Rerun(d) ==
  /\ server # "exited"
  /\ row[d] = "open" /\ del[d] \in {"dead", "settled"} /\ post[d] = "off"
  /\ del' = [del EXCEPT ![d] = "rerun"]
  /\ UNCHANGED <<commentVars, serverVars, tracked, row, answer, apiVars>>

Tick ==
  /\ server # "exited"
  /\ TokensAge
  /\ bucket' = IF bucket.age < Window - 1 THEN [bucket EXCEPT !.age = @ + 1] ELSE NoBucket
  /\ admitted' = [t \in 0..(Window - 1) |-> IF t = 0 THEN 0 ELSE admitted[t - 1]]
  /\ UNCHANGED <<serverVars, deliveryVars, calls>>

People == PeopleNext /\ UNCHANGED <<serverVars, deliveryVars, apiVars>>

-----------------------------------------------------------------------------
DeliveryNext ==
  \E d \in Delivery :
    \/ \E h \in Hooks : Receive(d, h)
    \/ GitHubHangsUp(d) \/ Redeliver(d) \/ Rerun(d)
    \/ \E ok \in BOOLEAN : Accept(d, ok) \/ EndScan(d, ok) \/ GiveUp(d, ok)

ApiNext ==
  \/ \E t \in ApiTokens : CallApi(t)
  \/ \E c \in Calls : AnswerApi(c)
  \/ CallerHangsUp

ServerNext ==
  \/ Shutdown \/ Drain \/ Restart(Production)
  \/ \E insert \in BOOLEAN : DrainEnds(insert) \/ DrainTimesOut(insert) \/ Killed(insert)

Next == DeliveryNext \/ Work \/ ApiNext \/ ServerNext \/ Tick \/ People

Spec == Init /\ [][Next]_vars

-----------------------------------------------------------------------------
(* Properties *)

\* What GitHub was told holds after the process is gone: a delivery that it
\* saw succeed and that was not scanned to its end has its row left for the
\* sweep; every other one is a failed delivery that its owner can see.  And
\* an exit that says it has drained leaves no answered delivery's scan.
ExitLosesNothing ==
  [][server # "exited" /\ server' = "exited" =>
       \A d \in Delivery :
         del'[d] = "dead" =>
           /\ row'[d] = "open" \/ answer[d] \notin {200, 202}
           /\ drained' /\ d \in tracked => answer[d] = 0]_vars

\* However the windows roll, one token is granted at most twice the limit in
\* any window's length of time, as long as the clock does not step back and
\* the process lasts.
Grants == UNION {{t} \X (1..admitted[t]) : t \in 0..(Window - 1)}
RateIsBounded == Cardinality(Grants) <= 2 * Max

-----------------------------------------------------------------------------
(* What makes them hold: the inductive invariant that the proofs of the    *)
(* module DeliveryProofs use.                                              *)

\* A delivery has neither a row nor an answer before it is accepted; from
\* then on it has a row, or was answered as a failure; and what a sweep runs
\* again has its row.
NothingBeforeTheRow ==
  \A d \in Delivery :
    del[d] \in {"idle", "accepting", "cut"} => answer[d] = 0 /\ row[d] = "none"
RowOrFailure ==
  \A d \in Delivery :
    del[d] \in {"accepted", "dead"} =>
      row[d] = "open" \/ (row[d] = "none" /\ answer[d] \notin {200, 202})
RerunHasItsRow == \A d \in Delivery : del[d] = "rerun" => row[d] = "open"

\* What the drain's snapshot lacks was accepted for a caller that had gone.
DrainSeesTheAnswered ==
  server = "draining" =>
    /\ \A d \in Delivery : del[d] # "accepting"
    /\ \A d \in tracked \ awaited : answer[d] = 0

\* The requests that the bucket counts are the younger ones of those in
\* "admitted"; the older ones were all counted by the bucket before it.
Fresh == {g \in Grants : bucket.age < Window /\ g[1] <= bucket.age}
Stale == Grants \ Fresh
BucketsCount ==
  /\ IsFiniteSet(Fresh) /\ Cardinality(Fresh) <= bucket.count
  /\ IsFiniteSet(Stale) /\ Cardinality(Stale) <= Max
  /\ bucket.age = Window => admitted[0] = 0

CallsFit == calls["open"] + calls["left"] + calls["scanned"] + calls["refused"] <= Load

IInv ==
  /\ TypeOK /\ CommentsIInv
  /\ NothingBeforeTheRow /\ RowOrFailure /\ RerunHasItsRow /\ DrainSeesTheAnswered
  /\ CallsFit /\ BucketsCount

=============================================================================
