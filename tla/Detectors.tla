------------------------------- MODULE Detectors -------------------------------
(***************************************************************************)
(* The six shipping detectors (analysis-engine/detectors): which lines of  *)
(* a file make each one ask the model, or report without asking, what the  *)
(* model may answer, and what each makes of the answer.                    *)
(*                                                                         *)
(* The patterns are data: a line's marks name the groups of regular        *)
(* expressions that match it, and a line carries one mark of a detector's. *)
(* The prompts are left out.  The model is external: it may answer         *)
(* anything its tool's schema allows, or nothing usable.                   *)
(***************************************************************************)
EXTENDS ScanInput

CONSTANTS
  Reach,          \* PROXIMITY_THRESHOLD, between a source and its sink
  MaxPairs,       \* MAX_PAIRS_PER_FILE
  Before, After   \* the lines of a context window around a trigger: 8 and 16

ASSUME DetectorsAssumption ==
  /\ Reach \in Nat /\ MaxPairs \in Nat \ {0}
  /\ Before \in Nat /\ After \in Nat

DetectorIds == {"auth", "secrets", "webhook", "env", "admin", "idor"}

(* detect(): a file in a language no detector knows, under a path of tests  *)
(* or examples, or marked server-only, is not analysed.                     *)
Analyzed(file) == file.supported /\ ~file.skipped /\ ~file.serverOnly

Hits(c, marks) == {i \in DOMAIN c : c[i].marks \cap marks # {}}
Earliest(S) == {i \in S : \A j \in S : i <= j}

(* The declarations of HTTP handlers, by framework.  Python's decorators    *)
(* count in a .py file only, the others elsewhere, and Remix's loader and   *)
(* action only in a file under routes/.                                     *)
RouteMarks(file) ==
  IF file.python THEN {"py_route"}
  ELSE {"express_route", "app_route"} \cup (IF file.remix THEN {"remix_handler"} ELSE {})

(* resolveRouteAnchorLine finds the definitions that name their path.       *)
NamedRoutes(c) == Hits(c, {"express_route", "py_route"})

(* buildFunctionCodePayload: a route's file is shown whole up to 200 KB;    *)
(* any other trigger with the lines around it.                              *)
Shown(file, c, i, isRoute) ==
  IF isRoute /\ ~file.large THEN DOMAIN c
  ELSE {j \in DOMAIN c : i - Before <= j /\ j <= i + After}

(* A detector's reading of a content: the positions reported without a      *)
(* call, those the model is asked about, the definitions that a verdict may *)
(* name instead, and whether the trigger declares a route.                  *)
Reading(certain, asked, named, isRoute) ==
  [certain |-> certain, asked |-> asked, named |-> named, isRoute |-> isRoute]

(* admin-check: the earliest match of any pattern, one for the whole file.  *)
AdminTriggers(file, c) ==
  Earliest(Hits(c, {"admin_literal", "admin_judgment"} \cup RouteMarks(file)))

(* A literal shape is reported as it stands unless validation by the model  *)
(* is switched on; the rest is for the model to judge.                      *)
AdminReading(file, c, env) ==
  LET t == AdminTriggers(file, c)
      literal == ~env.adminLlm /\ \E i \in t : "admin_literal" \in c[i].marks
      isRoute == \E i \in t : c[i].marks \cap RouteMarks(file) # {}
      shown == UNION {Shown(file, c, i, isRoute) : i \in t}
  IN IF literal THEN Reading(t, {}, {}, FALSE)
     ELSE Reading({}, t, NamedRoutes(c) \cap shown, isRoute)

(* auth-bypass: every line is matched, and the first route declaration is   *)
(* judged before any other shape.                                           *)
AuthTriggers(file, c) ==
  LET routes == Hits(c, RouteMarks(file))
  IN IF routes # {} THEN Earliest(routes) ELSE Earliest(Hits(c, {"auth_shape"}))

AuthReading(file, c) ==
  LET t == AuthTriggers(file, c)
      isRoute == \E i \in t : c[i].marks \cap RouteMarks(file) # {}
  IN Reading({}, t, NamedRoutes(c) \cap UNION {Shown(file, c, i, isRoute) : i \in t},
             isRoute)

(* secrets-exposure: the first line with a credential's shape that is not   *)
(* already masked, reported as it stands unless validation is switched on.  *)
SecretsTriggers(c) ==
  Earliest({i \in Hits(c, {"key"}) : "masked" \notin c[i].marks})

SecretsReading(c, env) ==
  IF env.secretsLlm THEN Reading({}, SecretsTriggers(c), {}, FALSE)
  ELSE Reading(SecretsTriggers(c), {}, {}, FALSE)

(* webhook-unverified: the earliest webhook shape or file-routed handler.   *)
WebhookTriggers(file, c) ==
  Earliest(Hits(c, {"webhook", "app_route"}
                     \cup (IF file.remix THEN {"remix_handler"} ELSE {})))

WebhookReading(file, c) ==
  LET t == WebhookTriggers(file, c)
  IN Reading({}, t, {}, \E i \in t : c[i].marks \cap {"app_route", "remix_handler"} # {})

(* env-exposure: the earliest dump of the environment.                      *)
EnvReading(c) == Reading({}, Earliest(Hits(c, {"env"})), {}, FALSE)

(* idor: every sink with a source within reach, by line, up to a maximum;   *)
(* what is beyond it is logged and not judged.                              *)
SinkSites(c) ==
  {i \in Hits(c, {"sink"}) :
     \E j \in Hits(c, {"source"}) : i - j <= Reach /\ j - i <= Reach}

IdorReading(c) ==
  Reading({}, {i \in SinkSites(c) :
                 Cardinality({j \in SinkSites(c) : j <= i}) <= MaxPairs}, {}, FALSE)

ReadingOf(d, file, c, env) ==
  IF ~Analyzed(file) THEN Reading({}, {}, {}, FALSE)
  ELSE CASE d = "admin"   -> AdminReading(file, c, env)
         [] d = "auth"    -> AuthReading(file, c)
         [] d = "secrets" -> SecretsReading(c, env)
         [] d = "webhook" -> WebhookReading(file, c)
         [] d = "env"     -> EnvReading(c)
         [] d = "idor"    -> IdorReading(c)

(* What callLlm takes from a reply about a site: vulnerable with a          *)
(* confidence, "low" standing for safe too; for admin-check and auth-bypass *)
(* the route it means; for auth-bypass and idor whether the caller is       *)
(* authenticated and whether the operation is an administrator's.           *)
Plain(confs) == [conf : confs, route : {0}, auth : {"unclear"}, admin : {FALSE}]

EnvVerdicts == Plain({"medium", "high"})
SecretsVerdicts == Plain({"medium", "high"})
WebhookVerdicts == Plain({"medium", "high"})

AdminVerdicts(reading) ==
  [conf : {"medium", "high"}, route : {0} \cup reading.named,
   auth : {"unclear"}, admin : {FALSE}]

AuthVerdicts(reading) ==
  [conf : {"medium", "high"}, route : {0} \cup reading.named,
   auth : {"yes", "no", "unclear"}, admin : BOOLEAN]

IdorVerdicts ==
  [conf : {"medium", "high"}, route : {0},
   auth : {"yes", "no", "unclear"}, admin : BOOLEAN]

Verdicts(d, reading) ==
  Plain({"low"}) \cup
    (CASE d = "admin" -> AdminVerdicts(reading)
       [] d = "auth" -> AuthVerdicts(reading)
       [] d = "idor" -> IdorVerdicts
       [] d = "env" -> EnvVerdicts
       [] d = "secrets" -> SecretsVerdicts
       [] d = "webhook" -> WebhookVerdicts)

(* callLlm: the call fails; or the reply gives a verdict on each site, or   *)
(* on some, the malformed ones being dropped.  A site without a verdict is  *)
(* read as one without a finding.                                           *)
Failed == [ok |-> FALSE, verdict |-> <<>>]

Replies(d, reading) ==
  {Failed} \cup
  {[ok |-> TRUE, verdict |-> v] :
     v \in UNION {[S -> Verdicts(d, reading)] : S \in SUBSET reading.asked}}

(* resolveMediumVerdict: a second model is asked about a medium verdict     *)
(* when that is switched on.  Only a plain "promote" or "clear" changes     *)
(* anything: "still uncertain", and a failed call or a malformed reply      *)
(* ("unusable"), leave the verdict to the review queue.                     *)
Opinions(env) ==
  IF env.escalate THEN {"promote_to_high", "clear", "still_uncertain", "unusable"}
  ELSE {"none"}

ResolvedMutant(opinion) ==
  CASE opinion = "promote_to_high" -> "emit-high"
    [] opinion \in {"clear", "unusable"} -> "drop"
    [] OTHER -> "review-queue"
Resolved(opinion) ==
  CASE opinion = "promote_to_high" -> "emit-high"
    [] opinion = "clear" -> "drop"
    [] OTHER -> "review-queue"

(* The lane that a verdict belongs to.  idor leaves what an unauthenticated *)
(* caller reaches to auth-bypass and an administrator's operation to        *)
(* admin-check; auth-bypass leaves a route that authenticates and is an     *)
(* administrator's to admin-check.  An unclear answer stays.                *)
IdorLane(v) ==
  IF v.auth = "no" THEN "auth" ELSE IF v.admin THEN "admin" ELSE "idor"

AuthLane(reading, v) ==
  IF reading.isRoute /\ v.auth = "yes" /\ v.admin THEN "admin" ELSE "auth"

LaneOf(d, reading, v) ==
  CASE d = "idor" -> IdorLane(v)
    [] d = "auth" -> AuthLane(reading, v)
    [] OTHER -> d

(* analyzeFile, once the model has answered: what is neither high nor       *)
(* medium is nothing, a medium verdict is high, dropped or for review, and  *)
(* one of another lane is left to it.                                       *)
Stands(d, reading, v, opinion) ==
  /\ \/ v.conf = "high"
     \/ v.conf = "medium" /\ Resolved(opinion) # "drop"
  /\ LaneOf(d, reading, v) = d

Confidence(v, opinion) ==
  IF v.conf = "high" \/ Resolved(opinion) = "emit-high" THEN "high" ELSE "medium"

(* A finding stands at its trigger, or at the route that the verdict names. *)
Anchor(v, i) == IF v.route = 0 THEN i ELSE v.route

Finding(d, file, line, conf) == [det |-> d, file |-> file, line |-> line, conf |-> conf]

(* A detector's findings in a file, at lines of the file.                   *)
Findings(d, file, c, reading, answer) ==
  {Finding(d, file, LineOf(c, i), "high") : i \in reading.certain} \cup
  {Finding(d, file, LineOf(c, Anchor(answer.reply.verdict[i], i)),
           Confidence(answer.reply.verdict[i], answer.opinion[i])) :
     i \in {s \in DOMAIN answer.reply.verdict :
              Stands(d, reading, answer.reply.verdict[s], answer.opinion[s])}}

===============================================================================
