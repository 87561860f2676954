------------------------------- MODULE Dispatch -------------------------------
(***************************************************************************)
(* The dispatch loop (engine/dispatch.rs), the decisions it executes       *)
(* (engine/retry.rs) and the routing state it shares with every other      *)
(* request (accounts/router.rs): several requests of one quota pool choose *)
(* accounts, send, and learn from the answers at the same time.            *)
(*                                                                         *)
(* The steps of a request are the points where another thread or the       *)
(* operator can come in between: the snapshot of the pool, retain, select  *)
(* and consume_token each take their own lock, and an attempt is an await. *)
(* Scores (health, freshness, the sticky cursor) only order the available  *)
(* accounts or rule them out, so select picks any of them, or none.        *)
(***************************************************************************)
EXTENDS Integers, FiniteSets

CONSTANTS
    Requests,           \* dispatch loops that may run at a time
    Accounts,           \* credentials that may be in the pool
    AnyAccount,         \* the target of a request that takes any account
    EndpointCount,      \* endpoints()
    MaxCapacityRetries, \* routing.max_capacity_retries
    MaxAccountAttempts, \* routing.max_account_attempts
    MaxWait,            \* routing.max_wait_before_error_secs, in ticks
    MaxFailures,        \* accounts.max_consecutive_failures
    Cooldown,           \* accounts.cooldown_secs, in ticks
    Backoffs,           \* waits backoff_for may return, in ticks
    MaxLimit,           \* bound: the longest of these waits
    TokenMax,           \* the bucket's ceiling, in tokens
    TokenParts          \* ticks it takes to refill one token

ASSUME DispatchAssumption ==
    /\ AnyAccount \notin Accounts
    /\ IsFiniteSet(Accounts)
    /\ EndpointCount \in Nat \ {0}
    /\ {MaxCapacityRetries, MaxAccountAttempts, MaxWait, MaxFailures} \subseteq Nat
    /\ {TokenMax, TokenParts} \subseteq Nat \ {0}
    /\ MaxLimit \in Nat
    /\ Backoffs \cup {Cooldown} \subseteq 1 .. MaxLimit

VARIABLES
    pool,      \* accounts in accounts.json
    known,     \* accounts in AccountStore.inner, as of its last read
    acct,      \* what accounts.json says about each
    tokens,    \* the router's buckets, in parts of a token
    failures,  \* the router's consecutive failures, up to MaxFailures
    req        \* the dispatch loops

vars == <<pool, known, acct, tokens, failures, req>>

Full == TokenMax * TokenParts

Larger(x, y) == IF x >= y THEN x ELSE y

\* An account is usable, held with its recheck still to come, held with the
\* recheck due (eligible, but withheld from requests), or out of use.
Statuses == {"ok", "held", "due", "out"}

AccountStates ==
    [status : Statuses, limitIn : 0 .. MaxLimit, coolIn : 0 .. MaxLimit]

NewAccount == [status |-> "ok", limitIn |-> 0, coolIn |-> 0]

\* What select is told of an account: it is available, or unavailable until a
\* rate limit resets in so many ticks, or unavailable with no such time.
Free    == 0
Blocked == -1

Seen == UNION {[S -> Blocked .. MaxLimit] : S \in SUBSET Accounts}

Nothing == [a \in {} |-> Free]

Loops ==
    [pc : {"idle", "look", "retain", "select", "spend", "attempt", "sent", "waiting"},
     target : Accounts \cup {AnyAccount},     \* `only`
     tried : SUBSET Accounts,
     seen : Seen,                      \* the snapshot, as candidates
     chosen : Accounts \cup {AnyAccount},     \* `current` (AnyAccount: none)
     endpoint : 0 .. EndpointCount - 1,
     retries : 0 .. MaxCapacityRetries,
     accountsTried : 0 .. Cardinality(Accounts),
     waited : 0 .. MaxWait,            \* total_waited
     wakeIn : 0 .. MaxWait,
     credit : -1 .. 1,                 \* history: tokens this acquisition is down
     reached : 0 .. Cardinality(Accounts), \* history: accounts it was sent to
     sends : Nat]                      \* history: attempts of the request

Ended ==
    [pc |-> "idle", target |-> AnyAccount, tried |-> {}, seen |-> Nothing, chosen |-> AnyAccount,
     endpoint |-> 0, retries |-> 0, accountsTried |-> 0, waited |-> 0, wakeIn |-> 0,
     credit |-> 0, reached |-> 0, sends |-> 0]

TypeOK ==
    /\ pool \in SUBSET Accounts
    /\ known \in SUBSET Accounts
    /\ acct \in [Accounts -> AccountStates]
    /\ tokens \in [Accounts -> 0 .. Full]
    /\ failures \in [Accounts -> 0 .. MaxFailures]
    /\ req \in [Requests -> Loops]

Init ==
    /\ pool = Accounts
    /\ known = Accounts
    /\ acct = [a \in Accounts |-> NewAccount]
    /\ tokens = [a \in Accounts |-> Full]
    /\ failures = [a \in Accounts |-> 0]
    /\ req = [r \in Requests |-> Ended]

Becomes(r, j) == req' = [req EXCEPT ![r] = j]

-----------------------------------------------------------------------------
(* acquire_account *)

\* dispatch, or dispatch_to one account.
Arrive(r, target) ==
    /\ req[r].pc = "idle"
    /\ Becomes(r, [Ended EXCEPT !.pc = "look", !.target = target])
    /\ UNCHANGED <<pool, known, acct, tokens, failures>>

\* is_eligible, and candidate with the monitor's withholding.
Eligible(a) == acct[a].status \in {"ok", "due"} /\ acct[a].coolIn = 0

Candidate(a) ==
    IF Eligible(a) /\ acct[a].limitIn > 0 THEN acct[a].limitIn
    ELSE IF Eligible(a) /\ acct[a].status = "ok" THEN Free
    ELSE Blocked

\* reload and snapshot.  An empty pool ends the request, and so does a failure
\* to read it.
Look(r) ==
    /\ req[r].pc = "look"
    /\ \/ Becomes(r, Ended) /\ UNCHANGED known
       \/ /\ known' = pool
          /\ Becomes(r, IF pool = {} THEN Ended
                        ELSE [req[r] EXCEPT !.pc = "retain",
                                            !.seen = [a \in pool |-> Candidate(a)]])
    /\ UNCHANGED <<pool, acct, tokens, failures>>

\* retain: the router forgets what the snapshot does not hold.  Then, with no
\* account left to try, the request ends (AccountsExhausted).
Remaining(j) ==
    {a \in DOMAIN j.seen \ j.tried : j.target \in {AnyAccount, a}}

Retain(r) ==
    /\ req[r].pc = "retain"
    /\ tokens' = [a \in Accounts |-> IF a \in DOMAIN req[r].seen THEN tokens[a] ELSE Full]
    /\ failures' = [a \in Accounts |-> IF a \in DOMAIN req[r].seen THEN failures[a] ELSE 0]
    /\ Becomes(r, IF Remaining(req[r]) = {} THEN Ended ELSE [req[r] EXCEPT !.pc = "select"])
    /\ UNCHANGED <<pool, known, acct>>

HasToken(a) == tokens[a] >= TokenParts

\* The candidates select may choose from.
Available(j) == {a \in Remaining(j) : j.seen[a] = Free /\ HasToken(a)}

\* Rate-limited candidates with a known reset.
Resets(j) == {j.seen[a] : a \in Remaining(j)} \ {Free, Blocked}

\* time_until_a_token, for each candidate that only lacks one.
Refills(j) == {TokenParts - tokens[a] : a \in {b \in Remaining(j) : j.seen[b] = Free}}

\* Selection::Chosen: any available candidate.
Choose(r) ==
    /\ req[r].pc = "select"
    /\ \E a \in Available(req[r]) :
          Becomes(r, [req[r] EXCEPT !.pc = "spend", !.chosen = a, !.seen = Nothing])
    /\ UNCHANGED <<pool, known, acct, tokens, failures>>

\* Selection::NoCandidate: no limit to wait for and no candidate that lacks
\* only a token; or every available one is too unhealthy.
NoCandidate(r) ==
    /\ req[r].pc = "select"
    /\ \/ Available(req[r]) # {}
       \/ Resets(req[r]) = {} /\ Refills(req[r]) = {}
    /\ Becomes(r, Ended)
    /\ UNCHANGED <<pool, known, acct, tokens, failures>>

\* Selection::AllLimited: the earliest reset, or without any the next token.
AllLimited(j, wait) ==
    LET waits == IF Resets(j) # {} THEN Resets(j) ELSE Refills(j)
    IN Available(j) = {} /\ wait \in waits /\ \A w \in waits : wait <= w

\* pool_wait and the request's own budget.
Affordable(j, wait) == wait <= MaxWait /\ j.waited + wait <= MaxWait

\* Fault: total_waited is not kept.
WaitUncounted(r) ==
    /\ req[r].pc = "select"
    /\ \E wait \in 0 .. MaxWait :
          /\ AllLimited(req[r], wait)
          /\ Affordable(req[r], wait)
          /\ Becomes(r, [req[r] EXCEPT !.pc = "waiting", !.seen = Nothing, !.wakeIn = wait])
    /\ UNCHANGED <<pool, known, acct, tokens, failures>>

Wait(r) ==
    /\ req[r].pc = "select"
    /\ \E wait \in 0 .. MaxWait :
          /\ AllLimited(req[r], wait)
          /\ Affordable(req[r], wait)
          /\ Becomes(r, [req[r] EXCEPT !.pc = "waiting", !.seen = Nothing,
                                       !.wakeIn = wait, !.waited = @ + wait])
    /\ UNCHANGED <<pool, known, acct, tokens, failures>>

PoolExhausted(r) ==
    /\ req[r].pc = "select"
    /\ \E wait \in 0 .. Larger(MaxLimit, TokenParts) :
          AllLimited(req[r], wait) /\ ~Affordable(req[r], wait)
    /\ Becomes(r, Ended)
    /\ UNCHANGED <<pool, known, acct, tokens, failures>>

\* After the sleep, a mutate drops the limits that have run out (they are 0
\* here already) and brings the process's copy of the pool up to date.
Wake(r) ==
    /\ req[r].pc = "waiting"
    /\ req[r].wakeIn = 0
    /\ known' \in {known, pool}
    /\ Becomes(r, [req[r] EXCEPT !.pc = "look"])
    /\ UNCHANGED <<pool, acct, tokens, failures>>

\* Fault: the token is taken without looking whether there is one.
SpendBlindly(r) ==
    /\ req[r].pc = "spend"
    /\ tokens' = [tokens EXCEPT ![req[r].chosen] = @ - TokenParts]
    /\ Becomes(r, [req[r] EXCEPT !.pc = "attempt", !.endpoint = 0, !.retries = 0,
                                 !.accountsTried = @ + 1, !.credit = 1])
    /\ UNCHANGED <<pool, known, acct, failures>>

\* consume_token, whose answer is ignored, and begin_next_account.
Spend(r) ==
    /\ req[r].pc = "spend"
    /\ LET a == req[r].chosen
       IN /\ tokens' = [tokens EXCEPT ![a] = IF HasToken(a) THEN @ - TokenParts ELSE @]
          /\ Becomes(r, [req[r] EXCEPT !.pc = "attempt", !.endpoint = 0, !.retries = 0,
                                       !.accountsTried = @ + 1,
                                       !.credit = IF HasToken(a) THEN 1 ELSE 0])
    /\ UNCHANGED <<pool, known, acct, failures>>

-----------------------------------------------------------------------------
(* One attempt and what follows from its answer *)

\* Fault: the account is not excluded.
NextAccountAgain(j) == [j EXCEPT !.pc = "look", !.chosen = AnyAccount, !.credit = 0]

\* The loop without the account it had: on to the next one.
NextAccount(j) ==
    [j EXCEPT !.pc = "look", !.tried = @ \cup {j.chosen}, !.chosen = AnyAccount, !.credit = 0]

FirstSend(j) == j.endpoint = 0 /\ j.retries = 0

\* A second snapshot, without a reload: an account that has gone from it is
\* excluded, any other is sent to.
Attempt(r) ==
    /\ req[r].pc = "attempt"
    /\ Becomes(r, IF req[r].chosen \in known
                  THEN [req[r] EXCEPT !.pc = "sent", !.sends = @ + 1,
                                      !.reached = IF FirstSend(req[r]) THEN @ + 1 ELSE @]
                  ELSE NextAccount(req[r]))
    /\ UNCHANGED <<pool, known, acct, tokens, failures>>

Answers == {"capacity", "limited", "server", "network", "refused", "auth", "problem"}

\* Fault: one retry too many.
RetryHereOnceMore(j, f) ==
    /\ j.retries <= MaxCapacityRetries
    /\ \/ f = "capacity"
       \/ f \in {"server", "network"} /\ j.endpoint + 1 = EndpointCount

\* decide: the same account again.
RetryHere(j, f) ==
    /\ j.retries < MaxCapacityRetries
    /\ \/ f = "capacity"
       \/ f \in {"server", "network"} /\ j.endpoint + 1 = EndpointCount

\* decide: the next endpoint, with a retry budget of its own.
NextEndpoint(j, f) ==
    /\ j.endpoint + 1 < EndpointCount
    /\ \/ f \in {"server", "network", "refused"}
       \/ f = "capacity" /\ j.retries >= MaxCapacityRetries

\* decide: a rejected credential, or no account attempts left, ends it.
Fails(j, f) == f = "auth" \/ j.accountsTried >= MaxAccountAttempts

AfterFailure(j, f) ==
    CASE RetryHere(j, f)    -> [j EXCEPT !.pc = "attempt", !.retries = @ + 1]
      [] NextEndpoint(j, f) -> [j EXCEPT !.pc = "attempt", !.retries = 0, !.endpoint = @ + 1]
      [] ~RetryHere(j, f) /\ ~NextEndpoint(j, f) ->
            IF Fails(j, f) THEN Ended ELSE NextAccount(j)

Capped(n, top) == IF n > top THEN top ELSE n

\* persist: the change, if the account is still in the pool.
Persist(a, new) ==
    /\ known' = pool
    /\ acct' = IF a \in pool THEN [acct EXCEPT ![a] = new] ELSE acct

\* apply_failure.
Blame(a, f) ==
    LET count == Capped(failures[a] + 1, MaxFailures)
        Failed == failures' = [failures EXCEPT ![a] = count]
    IN CASE f \in {"capacity", "refused"} -> UNCHANGED <<known, acct, tokens, failures>>
         [] f = "limited" ->
              /\ \E wait \in Backoffs :
                    Persist(a, [acct[a] EXCEPT !.limitIn = Larger(@, wait)])
              /\ UNCHANGED <<tokens, failures>>
         [] f = "auth" ->
              Failed /\ Persist(a, [acct[a] EXCEPT !.status = "out"]) /\ UNCHANGED tokens
         [] f = "problem" ->
              /\ Failed
              /\ \E s \in {"held", "out"} : Persist(a, [acct[a] EXCEPT !.status = s])
              /\ UNCHANGED tokens
         [] f \in {"server", "network"} ->
              /\ Failed
              /\ tokens' = IF f = "network"
                           THEN [tokens EXCEPT ![a] = Capped(@ + TokenParts, Full)] ELSE tokens
              /\ IF count = MaxFailures
                 THEN Persist(a, [acct[a] EXCEPT !.coolIn = Cooldown])
                 ELSE UNCHANGED <<known, acct>>

Failure(r, f) ==
    /\ req[r].pc = "sent"
    /\ Blame(req[r].chosen, f)
    /\ LET j == [req[r] EXCEPT !.credit = IF f = "network" THEN Larger(@ - 1, -1) ELSE @]
       IN Becomes(r, AfterFailure(j, f))
    /\ UNCHANGED pool

\* record_success.  Whether a hold goes with it is Verification's subject.
Success(r) ==
    /\ req[r].pc = "sent"
    /\ LET a == req[r].chosen
       IN /\ failures' = [failures EXCEPT ![a] = 0]
          /\ \E s \in {acct[a].status} \cup (IF acct[a].status \in {"held", "due"} THEN {"ok"} ELSE {}) :
                Persist(a, [acct[a] EXCEPT !.limitIn = 0, !.status = s])
    /\ Becomes(r, Ended)
    /\ UNCHANGED <<pool, tokens>>

\* Answers nothing is learned from: a bad request, a model that does not
\* exist, an envelope that does not serialise.  Or the client went away.
Abort(r) ==
    /\ req[r].pc \in {"look", "waiting", "attempt", "sent"}
    /\ Becomes(r, Ended)
    /\ UNCHANGED <<pool, known, acct, tokens, failures>>

-----------------------------------------------------------------------------
(* Everything else that touches the accounts, and time *)

\* The operator removes an account, or logs in to one: a new entry, or one that
\* keeps nothing but its rate limit.
Remove(a) ==
    /\ a \in pool
    /\ pool' = pool \ {a}
    /\ acct' = [acct EXCEPT ![a] = NewAccount]
    /\ UNCHANGED <<known, tokens, failures, req>>

Upsert(a) ==
    /\ pool' = pool \cup {a}
    /\ acct' = [acct EXCEPT ![a].status = "ok", ![a].coolIn = 0]
    /\ UNCHANGED <<known, tokens, failures, req>>

\* The other commands: disable, enable and clear_holds.
Operate(a) ==
    /\ a \in pool
    /\ acct' \in {[acct EXCEPT ![a].status = "out"], [acct EXCEPT ![a].status = "ok"],
                  [acct EXCEPT ![a] = NewAccount]}
    /\ UNCHANGED <<pool, known, tokens, failures, req>>

\* A hold's recheck window opens.
HoldOpens(a) ==
    /\ acct[a].status = "held"
    /\ acct' = [acct EXCEPT ![a].status = "due"]
    /\ UNCHANGED <<pool, known, tokens, failures, req>>

\* A verification check of this process spends a token once it has its claim.
Probe(a) ==
    /\ a \in pool
    /\ HasToken(a)
    /\ tokens' = [tokens EXCEPT ![a] = @ - TokenParts]
    /\ known' = pool
    /\ UNCHANGED <<pool, acct, failures, req>>

\* Its verdict: recovered, or a hold, a ban or a limit, whatever was stored.
Judge(a) ==
    /\ a \in pool
    /\ known' = pool
    /\ \/ /\ acct' = [acct EXCEPT ![a].status = "ok", ![a].limitIn = 0]
          /\ failures' = [failures EXCEPT ![a] = 0]
       \/ /\ \/ \E s \in {"held", "out"} : acct' = [acct EXCEPT ![a].status = s]
             \/ \E wait \in Backoffs :
                   acct' = [acct EXCEPT ![a].limitIn = Larger(@, wait)]
          /\ UNCHANGED failures
    /\ UNCHANGED <<pool, tokens, req>>

Less(n) == IF n > 0 THEN n - 1 ELSE 0

\* Time may pass between any two steps: what a snapshot says of a limit can be
\* out of date when select reads it.
Tick ==
    /\ acct' = [a \in Accounts |-> [acct[a] EXCEPT !.limitIn = Less(@), !.coolIn = Less(@)]]
    /\ tokens' = [a \in Accounts |-> Capped(tokens[a] + 1, Full)]
    /\ req' = [r \in Requests |-> [req[r] EXCEPT !.wakeIn = Less(@)]]
    /\ UNCHANGED <<pool, known, failures>>

Acquire(r) ==
    \/ Look(r) \/ Retain(r) \/ Choose(r) \/ NoCandidate(r)
    \/ Wait(r) \/ PoolExhausted(r) \/ Wake(r) \/ Spend(r)

Run(r) == Acquire(r) \/ Attempt(r) \/ Success(r) \/ \E f \in Answers : Failure(r, f)

Next ==
    \/ \E r \in Requests : Run(r) \/ Abort(r) \/ \E t \in Accounts \cup {AnyAccount} : Arrive(r, t)
    \/ \E a \in Accounts : Remove(a) \/ Upsert(a) \/ Operate(a)
                          \/ HoldOpens(a) \/ Probe(a) \/ Judge(a)
    \/ Tick

Spec == Init /\ [][Next]_vars

\* A request that has begun runs on (its attempts end: the transport has
\* timeouts) and time passes; nobody has to arrive, cancel or operate.
FairSpec ==
    /\ Spec
    /\ \A r \in Requests : WF_vars(Run(r))
    /\ WF_vars(Tick)

-----------------------------------------------------------------------------
(* Properties *)

Dispatching(j) == j.pc \in {"attempt", "sent"}

\* The account a request works on is never one it has left, and accounts_tried
\* counts exactly these, whatever is removed or logged in again meanwhile.
TriesEachAccountOnce ==
    \A r \in Requests : Dispatching(req[r]) =>
        /\ req[r].chosen \notin req[r].tried
        /\ req[r].accountsTried = Cardinality(req[r].tried) + 1

\* Retries and endpoint fallback together send a bounded number of times to an
\* account, for every mixture of answers: the retry budget starts again at each
\* endpoint, but no endpoint comes twice (decide, advance_endpoint).
BoundedAttempts ==
    \A r \in Requests :
        /\ req[r].sends <= req[r].reached * (EndpointCount * (MaxCapacityRetries + 1))
        /\ req[r].reached <= req[r].accountsTried

\* "rather than a request that hangs" (retry.rs, pool_wait): every request ends,
\* however often the limits it waits for are renewed.
EveryRequestEnds == \A r \in Requests : req[r].pc = "look" ~> req[r].pc = "idle"

\* "Give a token back, for a request that never reached the upstream" (router.rs:
\* 484), and "the spend was not really made" (dispatch.rs:570-571): no acquisition
\* gives back a token that it did not take.
RefundsWereSpent == \A r \in Requests : req[r].credit >= 0
=============================================================================
