------------------------------- MODULE Plans -------------------------------
(***************************************************************************)
(* What the dashboard and the backend compute about an organization's      *)
(* plan, budget and settings: tiers and prices (lib/tiers.ts), Paddle's    *)
(* signature (lib/paddle-webhook.ts), who may change the organization      *)
(* (lib/org-access.ts), a settings patch (lib/settings-validation.ts), the *)
(* budget decision (src/services/cost-store.ts) and the 80% warning        *)
(* (src/services/scan-limit-warning.ts).  Nothing here has state.          *)
(***************************************************************************)
EXTENDS Integers, FiniteSets

CONSTANTS
  Configured,   \* the paid tiers whose PADDLE_PRICE_ variable is set
  DailyCap,     \* FIXOR_DAILY_CAP_USD
  Exempt,       \* FIXOR_BUDGET_EXEMPT_INSTALLATIONS lists the installation
  Ownership     \* "User" or "Organization": who the installation belongs to

Paid == {"indie", "team"}
Tier == {"free"} \cup Paid
Price == Paid \cup {"foreign"}   \* a price is named for the tier it sells
None == "none"

ASSUME PlansAssumption ==
  /\ Configured \subseteq Paid
  /\ DailyCap \in Nat
  /\ Exempt \in BOOLEAN
  /\ Ownership \in {"User", "Organization"}

\* TIERS: the monthly cap each tier comes with.
CapOf(t) == CASE t = "free" -> 5 [] t = "indie" -> 30 [] t = "team" -> 200

\* tierFromPaddlePriceId: None for a price that is not sold.
TierOfPrice(p) == IF p \in Configured THEN p ELSE None

\* parsePaddleSignatureHeader: both parts are there and well formed.
Parses(h) == h.ts > 0 /\ h.h1 # "malformed"

\* verifyPaddleSignature, with the clock in minutes: five of tolerance.
Verify(h, now) ==
  CASE ~Parses(h)                         -> "missing"
    [] ~(now - h.ts \in -5..5)            -> "expired"
    [] h.h1 # "hmac"                      -> "mismatch"
    [] OTHER                              -> "ok"

-----------------------------------------------------------------------------
\* installationRole, from what GitHub says of the user.
Role(u) ==
  IF \/ Ownership = "User" /\ u.account
     \/ Ownership = "Organization" /\ u.membership = "admin" /\ u.active
  THEN "admin" ELSE "viewer"

\* getOrgAccess: the list of installations decides what the user can see,
\* the role what may be changed.
Access(u, orgExists) ==
  CASE u.list = "unauthorized"         -> "unauthorized"
    [] u.list # "ok"                   -> "github_unavailable"
    [] ~(u.sees /\ orgExists)          -> "not_found"
    [] OTHER                           -> Role(u)

\* listFixorInstallations: the first page, narrowed to the app's own.
ListOf(session, token, answer) ==
  CASE ~session \/ ~token       -> "no_token"
    [] answer = 401             -> "unauthorized"
    [] answer # 200             -> "error"
    [] OTHER                    -> "ok"

-----------------------------------------------------------------------------
\* A settings row: two fields stand for the four, one of them nullable.
Severity == {"low", "high"}
Settings == [severity : Severity, detectors : {"null", "some"}]
DefaultSettings == [severity |-> "low", detectors |-> "null"]

\* validateSettingsPatch collects every error, and returns all or nothing.
Validated(patch) == IF patch \in Settings THEN {patch} ELSE {}

\* diffSettings: the names of the fields that differ.
DiffMutant(old, new) == IF old.severity # new.severity THEN {"severity"} ELSE {}
Diff(old, new) == {f \in {"severity", "detectors"} : old[f] # new[f]}

-----------------------------------------------------------------------------
ReadResult == {"ok", "connection", "timeout", "query", "config", "unknown"}

\* classifyBudgetReadFailure's kinds that are worth one retry.
Transient(kind) == kind \in {"connection", "timeout"}

\* checkBudget's read loop: two attempts at most.
ReadOk(first, second) == first = "ok" \/ (Transient(first) /\ second = "ok")

\* checkBudget's decision from a successful read.
Within(monthly, daily, cap) ==
  CASE monthly >= cap    -> "monthly_exceeded"
    [] daily >= DailyCap -> "daily_exceeded"
    [] OTHER             -> "within"

Refused(decision) == decision \notin {"within", "exempt"}

\* computeBudgetWarning: from 80% of the cap up to, not including, the cap.
Warns(spend, cap) == cap > 0 /\ 10 * spend >= 8 * cap /\ spend < cap

=============================================================================
