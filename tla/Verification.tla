----------------------------- MODULE Verification -----------------------------
(***************************************************************************)
(* Verification checks on one account of the pool (engine/verification.rs, *)
(* with the account operations of accounts/account.rs they are built on),  *)
(* beside the requests, the operator's commands and the crashes that touch *)
(* the same account.                                                       *)
(*                                                                         *)
(* Every AccountStore::mutate is one atomic step here; AccountStore shows  *)
(* when that is so.  Two abstractions keep the state finite without a      *)
(* bound on the length of a behaviour:                                     *)
(*   - a time is kept as the ticks left until it (a positive number: still *)
(*     to come), so that a timestamp that is absent or past is <= 0;       *)
(*   - verification_revision and verification_required_at are only ever    *)
(*     compared for equality with a copy taken earlier, so what is kept is *)
(*     whether the copy is still equal: for the revision, that of the      *)
(*     lease whose id is stored; for the hold, that of each request.       *)
(***************************************************************************)
EXTENDS Integers, FiniteSets

CONSTANTS
    Checkers,      \* tasks that run recheck_verification
    Monitor,       \* the checker that is the monitor's scan
    MonitorActive, \* Engine.verification_monitor_active
    Requests,      \* dispatch loops that may use this account
    Creds,         \* refresh tokens an operator may add
    NoCheck,       \* verification_check.id = None
    NoCred,        \* the credential of a worker that has no job
    ProbeTimeout,  \* config.verification.timeout_secs
    LeaseSlack,    \* the 30 s a lease outlives the probe's timeout
    RestartGap,    \* the 15 s between two starts
    MaxLag,        \* bound: ticks a claim waits for its mutate, after taking `now`
    HoldWindows,   \* VERIFICATION_RECHECK_LADDER_MS
    ScanCap,       \* the five minutes a scan caps an old window to
    RetryDelays,   \* delay_ms
    Backoffs,      \* waits a 429 asks for
    Cooldowns,     \* waits after repeated failures
    MaxTime,       \* bound: the largest of all waits
    MaxAttempts    \* bound: attempts one request makes on the account

Times == (-MaxLag) .. MaxTime

ASSUME VerificationAssumption ==
    /\ MonitorActive \in BOOLEAN
    /\ NoCheck \notin Checkers
    /\ NoCred \notin Creds
    /\ Checkers \cap Requests = {}
    /\ {ProbeTimeout, LeaseSlack, RestartGap, MaxLag, MaxAttempts, MaxTime} \subseteq Nat
    /\ ProbeTimeout + LeaseSlack <= MaxTime
    /\ HoldWindows \cup RetryDelays \cup Backoffs \cup Cooldowns \cup {ScanCap} \subseteq 1 .. MaxTime

Past    == -MaxLag            \* a time that is absent, or long gone
LongAgo == RestartGap + MaxLag

Workers == Checkers \cup Requests

VARIABLES
    present,  \* is the account in the pool
    acct,     \* its entry
    job       \* what each worker is doing

vars == <<present, acct, job>>

Accounts ==
    [cred : Creds, enabled : BOOLEAN, ineligible : BOOLEAN,
     required : BOOLEAN, recheckIn : Times, coolIn : Times, limitIn : Times,
     checkId : Checkers \cup {NoCheck}, leaseIn : Times, startedAgo : 0 .. LongAgo,
     current : BOOLEAN]  \* is the revision still the one checkId's Lease holds

Outcomes == {"served", "challenged", "auth_invalid", "ineligible", "limited", "other"}

\* A checker is ready (it has taken `now`), probing, or done (its mutate is
\* due); a request is chosen (an account acquired) or sent.
Jobs ==
    [phase : {"idle", "ready", "probing", "done", "chosen", "sent"},
     cred : Creds \cup {NoCred},     \* the credential it was started for
     lag : 0 .. MaxLag,              \* ticks since the checker took `now`
     probeIn : 0 .. ProbeTimeout,    \* ticks until the probe times out
     answered : BOOLEAN,             \* did the probe end with an answer
     held : {"none", "this", "older"},  \* the hold in the attempt's snapshot:
                                     \* none, the account's present one, a past one
     attempts : 0 .. MaxAttempts,    \* attempts the request has left here
     late : BOOLEAN,                 \* history: its claim was late for its lease
     limited : BOOLEAN,              \* history: a limit was in force when it was sent
     overtaken : BOOLEAN,            \* history: revision bumped since claim or send
     orphaned : BOOLEAN]             \* history: entry removed since the claim

Idle ==
    [phase |-> "idle", cred |-> NoCred, lag |-> 0, probeIn |-> 0, answered |-> FALSE,
     held |-> "none", attempts |-> 0, late |-> FALSE, limited |-> FALSE,
     overtaken |-> FALSE, orphaned |-> FALSE]

Phases(w) ==
    IF w \in Checkers THEN {"idle", "ready", "probing", "done"} ELSE {"idle", "chosen", "sent"}

TypeOK ==
    /\ present \in BOOLEAN
    /\ acct \in Accounts
    /\ job \in [Workers -> Jobs]
    /\ \A w \in Workers : job[w].phase \in Phases(w)

Larger(x, y) == IF x >= y THEN x ELSE y

-----------------------------------------------------------------------------
(* accounts/account.rs *)

NewAccount(k) ==
    [cred |-> k, enabled |-> TRUE, ineligible |-> FALSE, required |-> FALSE,
     recheckIn |-> Past, coolIn |-> Past, limitIn |-> Past,
     checkId |-> NoCheck, leaseIn |-> Past, startedAgo |-> LongAgo, current |-> FALSE]

\* Fault: a lease does not expire.
RunningForever(a, since) == a.checkId # NoCheck

\* VerificationCheck::running at the time `since` ticks ago.
Running(a, since) == a.checkId # NoCheck /\ a.leaseIn + since > 0

\* Account::is_eligible, now.
Eligible(a) ==
    /\ a.enabled
    /\ ~Running(a, 0)
    /\ ~(a.required /\ a.recheckIn > 0)
    /\ ~a.ineligible
    /\ a.coolIn <= 0

\* Fault: a reset drops a lease that is still live.
KeepNoLease(a) == [a EXCEPT !.checkId = NoCheck, !.leaseIn = Past, !.startedAgo = LongAgo]

\* The check as the operator's reset and a new challenge leave it: a live
\* lease stays with its holder.
KeepLiveLease(a) ==
    IF Running(a, 0) THEN a
    ELSE [a EXCEPT !.checkId = NoCheck, !.leaseIn = Past, !.startedAgo = LongAgo]

MarkVerificationRequired(a, window) ==
    [KeepLiveLease(a) EXCEPT !.required = TRUE, !.recheckIn = window, !.current = FALSE]

ClearVerification(a) ==
    [a EXCEPT !.required = FALSE, !.recheckIn = Past, !.current = FALSE,
              !.checkId = IF a.required THEN NoCheck ELSE a.checkId,
              !.leaseIn = IF a.required THEN Past ELSE a.leaseIn,
              !.startedAgo = IF a.required THEN LongAgo ELSE a.startedAgo]

ResetVerification(a) ==
    [KeepLiveLease(a) EXCEPT !.required = FALSE, !.recheckIn = Past, !.current = FALSE]

ClearHoldsOf(a) ==
    [ResetVerification(a) EXCEPT !.ineligible = FALSE, !.coolIn = Past, !.limitIn = Past]

\* mark_rate_limited keeps the furthest-out expiry.
MarkRateLimited(a, wait) == [a EXCEPT !.limitIn = Larger(@, wait)]

MarkIneligible(a) == [a EXCEPT !.ineligible = TRUE]

-----------------------------------------------------------------------------
Init ==
    /\ present = TRUE
    /\ job = [w \in Workers |-> Idle]
    /\ \E k \in Creds : acct = NewAccount(k)

Becomes(w, j) == job' = [job EXCEPT ![w] = j]

\* The entry the worker's mutate finds by credential_id.
Found(w) == present /\ acct.cred = job[w].cred

\* The hold a worker knew is not the account's any more.
Overtaken(j) ==
    IF j.phase = "idle" THEN j
    ELSE [j EXCEPT !.overtaken = TRUE, !.held = IF @ = "this" THEN "older" ELSE @]

\* A step that judges the account overtakes every other worker.
Overtake(w, j) == job' = [v \in Workers |-> IF v = w THEN j ELSE Overtaken(job[v])]

OvertakeAll == job' = [v \in Workers |-> Overtaken(job[v])]

-----------------------------------------------------------------------------
(* recheck_verification *)

\* A scan picks accounts whose window has opened; an operator's check goes
\* ahead regardless.  `now` is taken here.
Start(c) ==
    /\ job[c].phase = "idle"
    /\ present
    /\ c = Monitor => /\ MonitorActive
                      /\ acct.required /\ acct.enabled /\ ~acct.ineligible
                      /\ acct.recheckIn <= 0
    /\ Becomes(c, [Idle EXCEPT !.phase = "ready", !.cred = acct.cred])
    /\ UNCHANGED <<present, acct>>

\* Before it checks, a scan caps the window of an account without failed
\* checks (the failure count is left out of the model).
CapWindow ==
    /\ MonitorActive /\ present
    /\ acct.required /\ ~Running(acct, 0) /\ acct.recheckIn > ScanCap
    /\ acct' = [acct EXCEPT !.recheckIn = ScanCap]
    /\ UNCHANGED <<present, job>>

\* A check is running, or was started less than 15 seconds before `now`.
Busy(lag) == Running(acct, lag) \/ acct.startedAgo < RestartGap + lag

\* Everything the claim refuses apart from a rate limit; only the monitor's
\* checks respect the hold's own timer.
Blocked(c, lag) ==
    \/ ~acct.enabled \/ acct.ineligible
    \/ acct.coolIn + lag > 0
    \/ c = Monitor /\ (~acct.required \/ acct.recheckIn + lag > 0)

Limited(lag) == acct.limitIn + lag > 0

\* The claim's mutate changes nothing: CheckError::Busy or Blocked.
ClaimRefused(c) ==
    /\ job[c].phase = "ready"
    /\ ~Found(c) \/ Busy(job[c].lag) \/ Blocked(c, job[c].lag)
    /\ Becomes(c, Idle)
    /\ UNCHANGED <<present, acct>>

Claimable(c) ==
    /\ job[c].phase = "ready"
    /\ Found(c) /\ ~Busy(job[c].lag) /\ ~Blocked(c, job[c].lag)

\* A rate-limited account is not probed; its next check moves to the reset.
ClaimLimited(c) ==
    /\ Claimable(c) /\ Limited(job[c].lag)
    /\ acct' = [acct EXCEPT !.recheckIn = Larger(@, acct.limitIn)]
    /\ Becomes(c, Idle)
    /\ UNCHANGED present

\* The claim itself, then consume_token: without a token the check ends
\* inconclusively without a probe.
Claim(c) ==
    /\ Claimable(c) /\ ~Limited(job[c].lag)
    /\ acct' = [acct EXCEPT !.checkId = c, !.startedAgo = job[c].lag,
                            !.leaseIn = ProbeTimeout + LeaseSlack - job[c].lag,
                            !.current = TRUE]
    /\ \E to \in {"probing", "done"} :
          Becomes(c, [Idle EXCEPT !.phase = to, !.cred = job[c].cred, !.probeIn = ProbeTimeout,
                                  !.late = to = "probing" /\ job[c].lag >= LeaseSlack])
    /\ UNCHANGED present

\* check_generation ends with an answer of some kind (which one, Complete
\* chooses), or the timeout around it does.
Probe(c) ==
    /\ job[c].phase = "probing"
    /\ \E answered \in BOOLEAN :
          /\ job[c].probeIn = 0 => ~answered
          /\ Becomes(c, [job[c] EXCEPT !.phase = "done", !.answered = answered, !.probeIn = 0,
                                         !.late = FALSE])
    /\ UNCHANGED <<present, acct>>

\* What the completion makes of the stored entry, by outcome.
Verdict(a, o, window, backoff) ==
    CASE o = "served" -> [ClearVerification(a) EXCEPT !.limitIn = Past]
      [] o = "challenged" -> MarkVerificationRequired(a, window)
      [] o = "auth_invalid" -> [MarkIneligible(a) EXCEPT !.enabled = FALSE]
      [] o = "ineligible" -> MarkIneligible(a)
      [] o = "limited" -> MarkRateLimited(a, backoff)
      [] o = "other" -> a

Released(a) == [a EXCEPT !.checkId = NoCheck, !.leaseIn = Past, !.current = FALSE]

\* The lease goes, and a check that did not recover sets when to try again.
Concluded(judged, o, delay) ==
    [Released(judged) EXCEPT
        !.startedAgo = acct.startedAgo,
        !.recheckIn = IF o = "served" THEN @ ELSE Larger(delay, judged.limitIn)]

\* Is the stored check this one; and is nothing about the account newer.
Mine(c) == Found(c) /\ acct.checkId = c
\* Fault: the completion compares the id only, not the revision.
CurrentById(c) == Mine(c)

Current(c) == Mine(c) /\ acct.current

\* The completion's mutate with outcome o.  A check that is no longer the
\* stored one changes nothing; one whose revision was bumped only gives the
\* lease back.
Complete(c, o) ==
    /\ job[c].phase = "done"
    /\ ~job[c].answered => o = "other"
    /\ \/ /\ ~Mine(c)
          /\ UNCHANGED acct
          /\ Becomes(c, Idle)
       \/ /\ Mine(c) /\ ~Current(c)
          /\ acct' = Released(acct)
          /\ Becomes(c, Idle)
       \/ /\ Current(c)
          /\ \E window \in HoldWindows, delay \in RetryDelays, backoff \in Backoffs :
                acct' = Concluded(Verdict(acct, o, window, backoff), o, delay)
          /\ IF o \in {"served", "challenged"} THEN Overtake(c, Idle) ELSE Becomes(c, Idle)
    /\ UNCHANGED present

\* Drop for Lease: the future was dropped, or the completion's mutate failed.
Release(c) ==
    /\ job[c].phase \in {"probing", "done"}
    /\ \/ ~Mine(c) /\ UNCHANGED acct
       \/ Mine(c) /\ ~Current(c) /\ acct' = Released(acct)
       \/ Current(c) /\ \E delay \in RetryDelays :
                           acct' = [Released(acct) EXCEPT !.recheckIn = delay]
    /\ Becomes(c, Idle)
    /\ UNCHANGED present

\* The process is killed, or the mutate of Drop fails as well: the stored lease
\* is left to expire.  (Killed before its claim, a check has left no trace.)
Abandon(c) ==
    /\ job[c].phase \in {"probing", "done"}
    /\ Becomes(c, Idle)
    /\ UNCHANGED <<present, acct>>

-----------------------------------------------------------------------------
(* Requests in the dispatch loop, as far as they touch the account *)

\* acquire_account chooses the account.
Acquire(r) ==
    /\ job[r].phase = "idle"
    /\ present /\ Eligible(acct) /\ acct.limitIn <= 0
    /\ ~(MonitorActive /\ acct.required)
    /\ Becomes(r, [Idle EXCEPT !.phase = "chosen", !.cred = acct.cred, !.attempts = MaxAttempts])
    /\ UNCHANGED <<present, acct>>

\* Each attempt takes its own snapshot, with the hold it may clear later.
Attempt(r) ==
    /\ job[r].phase = "chosen" /\ job[r].attempts > 0
    /\ Found(r)
    /\ Becomes(r, [job[r] EXCEPT !.phase = "sent", !.attempts = @ - 1,
                                 !.held = IF acct.required THEN "this" ELSE "none",
                                 !.limited = acct.limitIn > 0,
                                 !.overtaken = FALSE])
    /\ UNCHANGED <<present, acct>>

\* The loop moves on to another account, or ends.
MoveOn(r) ==
    /\ job[r].phase = "chosen"
    /\ Becomes(r, Idle)
    /\ UNCHANGED <<present, acct>>

\* Fault: a success lifts whatever hold it finds.
SameHoldUnchecked(r) == TRUE

\* verification_required_at, set exactly while required, is what the attempt saw.
SameHold(r) == IF job[r].held = "none" THEN ~acct.required ELSE job[r].held = "this"

\* record_success: the pool's limit goes, and the hold the request was sent
\* under, unless a check has a claim on the account.
RecordSuccess(r) ==
    /\ job[r].phase = "sent"
    /\ Found(r)
    /\ IF SameHold(r) /\ acct.checkId = NoCheck
       THEN acct' = [ClearVerification(acct) EXCEPT !.limitIn = Past] /\ Overtake(r, Idle)
       ELSE acct' = [acct EXCEPT !.limitIn = Past] /\ Becomes(r, Idle)
    /\ UNCHANGED present

\* After a failure the loop rotates or ends, or retries on this account.
AfterFailure(r) == {Idle, [job[r] EXCEPT !.phase = "chosen"]}

\* apply_failure with a challenge.
Challenged(r) ==
    /\ job[r].phase = "sent"
    /\ Found(r)
    /\ \E window \in HoldWindows : acct' = MarkVerificationRequired(acct, window)
    /\ \E j \in AfterFailure(r) : Overtake(r, j)
    /\ UNCHANGED present

\* apply_failure with any other failure that marks the account.
Marked(r) ==
    /\ job[r].phase = "sent"
    /\ Found(r)
    /\ \/ acct' = [MarkIneligible(acct) EXCEPT !.enabled = FALSE]
       \/ acct' = MarkIneligible(acct)
       \/ \E wait \in Backoffs : acct' = MarkRateLimited(acct, wait)
       \/ \E wait \in Cooldowns : acct' = [acct EXCEPT !.coolIn = wait]
    /\ \E j \in AfterFailure(r) : Becomes(r, j)
    /\ UNCHANGED present

\* An answer that leaves the entry alone: a failure that implicates nobody,
\* an account gone from the pool, or a store error.
NoEffect(r) ==
    /\ job[r].phase = "sent"
    /\ \E j \in AfterFailure(r) : Becomes(r, j)
    /\ UNCHANGED <<present, acct>>

-----------------------------------------------------------------------------
(* The operator's commands (main.rs), and time *)

SetEnabled(b) ==
    /\ present
    /\ acct.enabled # b
    /\ acct' = [acct EXCEPT !.enabled = b]
    /\ UNCHANGED <<present, job>>

ClearHolds ==
    /\ present
    /\ acct' = ClearHoldsOf(acct)
    /\ OvertakeAll
    /\ UNCHANGED present

Remove ==
    /\ present
    /\ present' = FALSE
    /\ acct' = NewAccount(acct.cred)
    /\ job' = [w \in Workers |-> IF job[w].phase = "idle" THEN job[w]
                                 ELSE [Overtaken(job[w]) EXCEPT !.orphaned = TRUE]]

\* upsert_account: a new entry, or replace_credential on the existing one,
\* which keeps its rate limits and a live lease.
Upsert(k) ==
    /\ IF present
       THEN acct' = [ResetVerification(acct) EXCEPT
                        !.cred = k, !.enabled = TRUE, !.ineligible = FALSE, !.coolIn = Past]
       ELSE acct' = NewAccount(k)
    /\ present' = TRUE
    /\ OvertakeAll

Passes(x) == IF x > Past THEN x - 1 ELSE x

\* Fault: nothing ends a probe at its timeout.
TickPastTimeout ==
    /\ \A c \in Checkers : job[c].phase = "ready" => job[c].lag < MaxLag
    /\ acct' = [acct EXCEPT !.recheckIn = Passes(@), !.coolIn = Passes(@),
                            !.limitIn = Passes(@), !.leaseIn = Passes(@),
                            !.startedAgo = IF @ < LongAgo THEN @ + 1 ELSE @]
    /\ job' = [w \in Workers |->
                 CASE job[w].phase = "ready" -> [job[w] EXCEPT !.lag = @ + 1]
                   [] job[w].phase = "probing" -> [job[w] EXCEPT !.probeIn = @ - 1]
                   [] OTHER -> job[w]]
    /\ UNCHANGED present

\* Time does not pass a probe's timeout, nor the bound on the wait for the mutate
\* of a claim.
Tick ==
    /\ \A c \in Checkers : job[c].phase = "probing" => job[c].probeIn > 0
    /\ \A c \in Checkers : job[c].phase = "ready" => job[c].lag < MaxLag
    /\ acct' = [acct EXCEPT !.recheckIn = Passes(@), !.coolIn = Passes(@),
                            !.limitIn = Passes(@), !.leaseIn = Passes(@),
                            !.startedAgo = IF @ < LongAgo THEN @ + 1 ELSE @]
    /\ job' = [w \in Workers |->
                 CASE job[w].phase = "ready" -> [job[w] EXCEPT !.lag = @ + 1]
                   [] job[w].phase = "probing" -> [job[w] EXCEPT !.probeIn = @ - 1]
                   [] OTHER -> job[w]]
    /\ UNCHANGED present

Check(c) == ClaimRefused(c) \/ ClaimLimited(c) \/ Claim(c) \/ Probe(c)
            \/ \E o \in Outcomes : Complete(c, o)

Request(r) ==
    \/ Acquire(r) \/ Attempt(r) \/ MoveOn(r)
    \/ RecordSuccess(r) \/ Challenged(r) \/ Marked(r) \/ NoEffect(r)

Operator ==
    \/ \E b \in BOOLEAN : SetEnabled(b)
    \/ ClearHolds \/ Remove
    \/ \E k \in Creds : Upsert(k)

Next ==
    \/ \E c \in Checkers : Start(c) \/ Check(c) \/ Release(c) \/ Abandon(c)
    \/ CapWindow
    \/ \E r \in Requests : Request(r)
    \/ Operator
    \/ Tick

Spec == Init /\ [][Next]_vars

\* Time passes, the monitor scans and a started check runs on; nobody has to
\* send, cancel or command anything.
FairSpec ==
    /\ Spec
    /\ WF_vars(Tick)
    /\ WF_vars(Start(Monitor))
    /\ \A c \in Checkers : WF_vars(Check(c))

-----------------------------------------------------------------------------
(* Properties *)

Probing(c) == job[c].phase = "probing" /\ ~job[c].orphaned

\* "resets cannot start two probes" (account.rs:392): whatever operators, requests,
\* crashes and the clock do meanwhile, one pool entry is probed by one check at a
\* time, but for a check whose claim waited so long for the store (behind the
\* threads of its process, and then for the lock file) that its lease ends before
\* its probe has to.
AtMostOneProbe ==
    \A c, d \in Checkers :
        Probing(c) /\ Probing(d) /\ ~job[c].late /\ ~job[d].late => c = d

\* What a check may say about an account, its own lease aside.
Judgement(a) ==
    <<a.cred, a.enabled, a.ineligible, a.required, a.recheckIn, a.coolIn, a.limitIn>>

\* "A late task must never overwrite a newer check, operator reset, or a
\* removed account" (verification.rs:85): a check whose account was judged,
\* reset or removed since its claim changes nothing but its own lease.
LateChecksAreMute ==
    [][\A c \in Checkers :
         job[c].overtaken /\ (Release(c) \/ \E o \in Outcomes : Complete(c, o))
            => /\ Judgement(acct') = Judgement(acct)
               /\ acct.checkId # c => acct' = acct]_vars

\* A hold is lifted, outside the operator's commands, only by an upstream
\* answer to something sent after the challenge that set it (record_success's
\* comparison of verification_required_at; the Lease's revision).
HoldOutlivesOldAnswers ==
    [][acct.required /\ ~acct'.required
         => \/ Operator
            \/ \E c \in Checkers : Complete(c, "served") /\ ~job[c].overtaken
            \/ \E r \in Requests : RecordSuccess(r) /\ ~job[r].overtaken]_vars

\* "A success clears any stale limit for this pool: the upstream just served a
\* request, so whatever we recorded is out of date" (dispatch.rs:617-618).  So
\* what a success clears was in force already when its request was sent: a limit
\* recorded after that is not what the comment calls stale.  A check is claimed
\* only without a limit, so one that is served has none to clear.  Otherwise a
\* limit is lowered by time and by the operator's commands only.
OnlyStaleLimitsAreCleared ==
    [][acct.limitIn > 0 /\ acct'.limitIn < acct.limitIn
         => Operator \/ Tick \/ \E r \in Requests : RecordSuccess(r) /\ job[r].limited]_vars

\* A hold on a usable account is checked again in the end, whatever leases a
\* crash left on it (recheck_due_verifications, VerificationCheck::running).
Owed == present /\ acct.required /\ acct.enabled /\ ~acct.ineligible

HoldIsRechecked ==
    Owed ~> (~Owed \/ \E c \in Checkers : job[c].phase \in {"probing", "done"})
=============================================================================
