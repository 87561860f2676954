-------------------------------- MODULE Failures --------------------------------
(***************************************************************************)
(* What an upstream refusal means (accounts/ratelimit.rs) and what becomes *)
(* of it in the account that was used (apply_failure of                    *)
(* engine/dispatch.rs): one account and one quota pool.  A body is reduced *)
(* to what the rules look for.  Times are in seconds.                      *)
(***************************************************************************)
EXTENDS Integers, Sequences

CONSTANTS
    Answers,         \* the refusals the upstream may give
    MaxRefusals      \* bound: refusals between two successes

ASSUME FailuresAssumption ==
    \A a \in Answers :
       /\ DOMAIN a.details = 1 .. Len(a.details)
       /\ {a.header, a.prose} \subseteq Nat
       /\ a.delays \in [1 .. 2 -> Nat]

VARIABLES
    answer,          \* history: the last refusal
    verdict,         \* what classify made of it
    hold,            \* how long the pool is held for it; 0 for not at all
    rung,            \* AccountRouter: quota failures in a row
    refusals,        \* refusals since the last success
    longest          \* history: the longest hold for quota without a hint since then

failureVars == <<answer, verdict, hold, rung, refusals, longest>>

NoAnswer == [status |-> 0]
NoVerdict == [class |-> "none", reason |-> "none", reset |-> 0]

FailuresInit ==
    /\ answer = NoAnswer /\ verdict = NoVerdict
    /\ hold = 0 /\ rung = 0 /\ refusals = 0 /\ longest = 0

-----------------------------------------------------------------------------
(* The rules *)

Blamed(problem) == [class |-> "account", reason |-> problem, reset |-> 0]
Refused == [class |-> "refused", reason |-> "none", reset |-> 0]
ServerFault == [class |-> "server", reason |-> "none", reset |-> 0]
BadRequest == [class |-> "bad-request", reason |-> "none", reset |-> 0]

\* A 403 is told apart by its body alone, in this order.
Forbidden(marks) ==
    CASE "banned" \in marks -> Blamed("banned")
      [] "banned" \notin marks /\ "account_ineligible" \in marks -> Blamed("ineligible")
      [] marks \cap {"banned", "account_ineligible"} = {}
         /\ marks \cap {"validation_required", "account_disabled"} # {} -> Blamed("verification")
      [] OTHER -> Refused

\* parse_reason: words it does not know say nothing.
Legible(reason) == reason \in {"quota", "rate", "capacity", "server"}

FirstOf(found) == CHOOSE i \in found : \A j \in found : i <= j

\* What the first of some details says.
FirstSays(a, found) == a.details[FirstOf(found)].says

\* A reason in the details comes first, then the canonical status, then a list of
\* violated quotas, which is a short limit when all of them are per minute.
Explicit(a) ==
    LET reasons    == {i \in DOMAIN a.details : a.details[i].kind = "info" /\ Legible(a.details[i].says)}
        violations == {i \in DOMAIN a.details : a.details[i].kind = "quotas" /\ a.details[i].says # {}}
    IN CASE reasons # {} -> FirstSays(a, reasons)
         [] reasons = {} /\ Legible(a.canonical) -> a.canonical
         [] reasons = {} /\ ~Legible(a.canonical) /\ violations # {} ->
               IF FirstSays(a, violations) = {"minute"} THEN "rate" ELSE "quota"
         [] OTHER -> "unknown"

Prose(words) ==
    CASE "capacity" \in words -> "capacity"
      [] "capacity" \notin words /\ "rate limit" \in words -> "rate"
      [] words \cap {"capacity", "rate limit"} = {} /\ "quota exceeded" \in words -> "quota"
      [] OTHER -> "unknown"

\* classify_rate_limit_reason.
Reason(a) == IF Explicit(a) # "unknown" THEN Explicit(a) ELSE Prose(a.words)

\* parse_reset_hint: the headers, a RetryInfo, the error's own retryDelay and
\* quotaResetDelay, and a message that says after how long to retry, in this
\* order; a time that is not positive is passed over.
ResetHint(a) ==
    LET infos  == {i \in DOMAIN a.details : a.details[i].kind = "retry" /\ a.details[i].says > 0}
        delays == {i \in DOMAIN a.delays : a.delays[i] > 0}
    IN CASE a.header > 0 -> a.header
         [] a.header = 0 /\ infos # {} -> FirstSays(a, infos)
         [] a.header = 0 /\ infos = {} /\ delays # {} -> a.delays[FirstOf(delays)]
         [] OTHER -> a.prose

Limited(reason, a) == [class |-> "limited", reason |-> reason, reset |-> ResetHint(a)]

\* classify.
Classify(a) ==
    CASE a.status = 401 -> Blamed("auth-invalid")
      [] a.status = 403 -> Forbidden(a.marks)
      [] a.status \in {503, 529} -> Limited("capacity", a)
      [] a.status = 429 -> Limited(Reason(a), a)
      [] a.status = 400 -> IF Reason(a) # "unknown" THEN Limited(Reason(a), a) ELSE BadRequest
      [] a.status \in 500 .. 599 \ {503, 529} -> ServerFault
      [] OTHER -> Refused

MinBackoff == 2
QuotaLadder == <<60, 300, 1800, 7200>>

LongerOf(m, n) == IF m < n THEN n ELSE m

\* The nth failure in a row takes the nth rung, up to the last.
Rung(n) == QuotaLadder[IF n < 1 THEN 1 ELSE IF n > Len(QuotaLadder) THEN Len(QuotaLadder) ELSE n]

\* backoff_for; capacity and server faults are never held for here.
Backoff(reason, failures, reset) ==
    LongerOf(MinBackoff,
             IF reset > 0 THEN reset
             ELSE CASE reason = "quota" -> Rung(failures) [] reason = "rate" -> 30 [] OTHER -> 60)

-----------------------------------------------------------------------------
(* The account *)

\* Neither of these implicates the account.
Blameless(v) == v.class = "limited" /\ v.reason \in {"capacity", "server"}

\* Mutant of Counted: another limit in between breaks the row.
CountedInARow(v) ==
    IF v.class = "limited" /\ ~Blameless(v) THEN IF v.reason = "quota" THEN rung + 1 ELSE 0 ELSE rung

\* record_quota_failure.
Counted(v) == IF v.class = "limited" /\ v.reason = "quota" THEN rung + 1 ELSE rung

\* What the answer shows, were it only read as a set of facts: a quota that is not
\* a matter of minutes, and nothing that says otherwise.
ShowsQuota(a) ==
    LET said == {a.details[i].says : i \in {j \in DOMAIN a.details : a.details[j].kind = "info"}}
                    \cup {a.canonical}
        lists == {a.details[i].says : i \in {j \in DOMAIN a.details : a.details[j].kind = "quotas"}}
    IN /\ a.status = 429
       /\ \A s \in said : Legible(s) => s = "quota"
       /\ "quota" \in said \/ \E l \in lists : "day" \in l
       /\ \A l \in lists : l # {"minute"}

\* The times it names, wherever in it they are.
TimesNamed(a) ==
    {t \in {a.header, a.prose, a.delays[1], a.delays[2]} : t > 0}
       \cup {a.details[i].says :
               i \in {j \in DOMAIN a.details : a.details[j].kind = "retry" /\ a.details[j].says > 0}}

\* An attempt is refused: classify, then apply_failure.
Refuse(a) ==
    /\ refusals < MaxRefusals
    /\ LET v == Classify(a)
       IN /\ answer' = a /\ verdict' = v
          /\ rung' = Counted(v)
          /\ hold' = IF v.class = "limited" /\ ~Blameless(v) THEN Backoff(v.reason, Counted(v), v.reset) ELSE 0
          /\ longest' = IF ShowsQuota(a) /\ TimesNamed(a) = {} THEN LongerOf(longest, hold') ELSE longest
    /\ refusals' = refusals + 1

\* attempt_once got no answer at all: the account's token is refused for good, or
\* a token, a project or the upstream could not be reached.
Unreachable ==
    /\ refusals < MaxRefusals
    /\ answer' = NoAnswer
    /\ verdict' \in {Blamed("auth-invalid"), [class |-> "network", reason |-> "none", reset |-> 0]}
    /\ hold' = 0
    /\ refusals' = refusals + 1
    /\ UNCHANGED <<rung, longest>>

\* A success clears the count of the pool and its hold.
Succeed ==
    /\ refusals > 0
    /\ answer' = NoAnswer /\ verdict' = NoVerdict
    /\ hold' = 0 /\ rung' = 0 /\ refusals' = 0 /\ longest' = 0

FailuresNext == Succeed \/ Unreachable \/ \E a \in Answers : Refuse(a)

FailuresSpec == FailuresInit /\ [][FailuresNext]_failureVars

-----------------------------------------------------------------------------
(* Properties *)

\* Quota holds climb: a refusal whose structured evidence says that quota is spent,
\* and that names no time anywhere, holds the pool for a minute at least and never
\* for less than an earlier one since the last success, other limits in between or
\* not.  "An upstream-supplied reset always wins" (ratelimit.rs:368): one that names
\* times holds it for one of those, or the two seconds of the floor.
QuotaHoldsClimb ==
    answer # NoAnswer /\ ShowsQuota(answer) =>
        IF TimesNamed(answer) = {}
        THEN hold >= 60 /\ hold = longest
        ELSE \E t \in TimesNamed(answer) : hold = LongerOf(MinBackoff, t)
=============================================================================
