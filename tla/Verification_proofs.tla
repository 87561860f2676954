-------------------------- MODULE Verification_proofs --------------------------
(***************************************************************************)
(* Proofs about Verification, for any number of checkers and requests and  *)
(* any lengths of the windows, however long a claim waits for the store.   *)
(***************************************************************************)
EXTENDS Verification, TLAPS

-----------------------------------------------------------------------------
(* The account's operations keep the account's type *)

LEMMA ConstantsAreNaturals ==
    /\ ProbeTimeout \in Nat /\ LeaseSlack \in Nat /\ RestartGap \in Nat /\ MaxLag \in Nat
    /\ MaxAttempts \in Nat /\ MaxTime \in Nat
BY VerificationAssumption

LEMMA TimesAreTimes ==
    /\ Past \in Times
    /\ LongAgo \in 0 .. LongAgo
    /\ HoldWindows \cup RetryDelays \cup Backoffs \cup Cooldowns \cup {ScanCap} \subseteq Times
    /\ \A x, y \in Times : Larger(x, y) \in Times
    /\ \A x \in Times : Passes(x) \in Times
    /\ \A lag \in 0 .. MaxLag : ProbeTimeout + LeaseSlack - lag \in Times /\ lag \in 0 .. LongAgo
BY VerificationAssumption DEF Times, Past, LongAgo, Larger, Passes

LEMMA NewAccountType == ASSUME NEW k \in Creds PROVE NewAccount(k) \in Accounts
BY TimesAreTimes DEF NewAccount, Accounts

LEMMA KeepLiveLeaseType ==
    ASSUME NEW a \in Accounts PROVE KeepLiveLease(a) \in Accounts
BY TimesAreTimes DEF KeepLiveLease, Accounts

LEMMA OperationTypes ==
    ASSUME NEW a \in Accounts
    PROVE  /\ \A window \in HoldWindows : MarkVerificationRequired(a, window) \in Accounts
           /\ ClearVerification(a) \in Accounts
           /\ ResetVerification(a) \in Accounts
           /\ ClearHoldsOf(a) \in Accounts
           /\ \A wait \in Backoffs : MarkRateLimited(a, wait) \in Accounts
           /\ MarkIneligible(a) \in Accounts
           /\ Released(a) \in Accounts
<1>1. KeepLiveLease(a) \in Accounts
  BY KeepLiveLeaseType
<1>2. /\ \A window \in HoldWindows : MarkVerificationRequired(a, window) \in Accounts
      /\ ResetVerification(a) \in Accounts
  BY <1>1, TimesAreTimes DEF MarkVerificationRequired, ResetVerification, Accounts
<1>3. ClearHoldsOf(a) \in Accounts
  BY <1>2, TimesAreTimes DEF ClearHoldsOf, Accounts
<1>4. ClearVerification(a) \in Accounts
  BY TimesAreTimes DEF ClearVerification, Accounts
<1>5. \A wait \in Backoffs : MarkRateLimited(a, wait) \in Accounts
  BY TimesAreTimes DEF MarkRateLimited, Accounts
<1>6. MarkIneligible(a) \in Accounts /\ Released(a) \in Accounts
  BY TimesAreTimes DEF MarkIneligible, Released, Accounts
<1> QED BY <1>2, <1>3, <1>4, <1>5, <1>6

LEMMA VerdictType ==
    ASSUME NEW a \in Accounts, NEW o \in Outcomes, NEW window \in HoldWindows, NEW backoff \in Backoffs
    PROVE  Verdict(a, o, window, backoff) \in Accounts
<1>1. CASE o = "served"
  <2>1. ClearVerification(a) \in Accounts
    BY OperationTypes
  <2> QED BY <1>1, <2>1, TimesAreTimes DEF Verdict, Accounts
<1>2. CASE o = "auth_invalid"
  <2>1. MarkIneligible(a) \in Accounts
    BY OperationTypes
  <2> QED BY <1>2, <2>1 DEF Verdict, Accounts
<1>3. CASE o \in {"challenged", "ineligible", "limited", "other"}
  BY <1>3, OperationTypes DEF Verdict
<1> QED BY <1>1, <1>2, <1>3 DEF Outcomes

LEMMA ConcludedType ==
    ASSUME TypeOK, NEW a \in Accounts, NEW o \in Outcomes, NEW delay \in RetryDelays
    PROVE  Concluded(a, o, delay) \in Accounts
<1>1. Released(a) \in Accounts
  BY OperationTypes
<1>2. Larger(delay, a.limitIn) \in Times
  BY TimesAreTimes DEF Accounts
<1> QED BY <1>1, <1>2 DEF Concluded, TypeOK, Accounts

LEMMA OvertakenType ==
    ASSUME NEW j \in Jobs PROVE Overtaken(j) \in Jobs /\ Overtaken(j).phase = j.phase
BY DEF Overtaken, Jobs

LEMMA IdleType == Idle \in Jobs /\ \A w \in Workers : Idle.phase \in Phases(w)
BY VerificationAssumption DEF Idle, Jobs, Phases

-----------------------------------------------------------------------------
(* Type correctness *)

LEMMA InitTypeOK == Init => TypeOK
BY NewAccountType, IdleType DEF Init, TypeOK

WorkersTyped ==
    /\ job \in [Workers -> Jobs]
    /\ \A w \in Workers : job[w].phase \in Phases(w)

\* One worker gets a new job, and a judgement may overtake the others.
LEMMA BecomesType ==
    ASSUME TypeOK, NEW w \in Workers, NEW j \in Jobs, j.phase \in Phases(w),
           Becomes(w, j) \/ Overtake(w, j)
    PROVE  WorkersTyped'
<1>1. CASE Becomes(w, j)
  BY <1>1 DEF TypeOK, Becomes, WorkersTyped
<1>2. CASE Overtake(w, j)
  BY <1>2, OvertakenType DEF TypeOK, Overtake, WorkersTyped
<1> QED BY <1>1, <1>2

LEMMA OvertakeAllType == TypeOK /\ OvertakeAll => WorkersTyped'
BY OvertakenType DEF TypeOK, OvertakeAll, WorkersTyped

\* The jobs the steps below hand out.
LEMMA JobTypes ==
    ASSUME TypeOK
    PROVE  /\ \A c \in Checkers : job[c] \in Jobs /\ c \in Workers
           /\ \A r \in Requests : job[r] \in Jobs /\ r \in Workers /\ r \notin Checkers
           /\ \A r \in Requests : AfterFailure(r) \subseteq {j \in Jobs : j.phase \in Phases(r)}
<1>1. \A c \in Checkers : job[c] \in Jobs /\ c \in Workers
  BY DEF TypeOK, Workers
<1>2. \A r \in Requests : job[r] \in Jobs /\ r \in Workers /\ r \notin Checkers
  BY VerificationAssumption DEF TypeOK, Workers
<1>3. \A r \in Requests : [job[r] EXCEPT !.phase = "chosen"] \in Jobs
  BY <1>2 DEF Jobs
<1> QED BY <1>1, <1>2, <1>3, IdleType DEF AfterFailure, Phases, Jobs

LEMMA ClaimedJobType ==
    ASSUME NEW k \in Creds \cup {NoCred}, NEW to \in {"probing", "done"}, NEW b \in BOOLEAN
    PROVE  [Idle EXCEPT !.phase = to, !.cred = k, !.probeIn = ProbeTimeout, !.late = b] \in Jobs
<1>1. ProbeTimeout \in 0 .. ProbeTimeout
  BY ConstantsAreNaturals
<1> QED BY <1>1, IdleType DEF Jobs

LEMMA ProbedJobType ==
    ASSUME NEW j \in Jobs, NEW b \in BOOLEAN
    PROVE  [j EXCEPT !.phase = "done", !.answered = b, !.probeIn = 0, !.late = FALSE] \in Jobs
<1>1. 0 \in 0 .. ProbeTimeout
  BY ConstantsAreNaturals
<1> QED BY <1>1 DEF Jobs

LEMMA ChosenJobType ==
    ASSUME NEW k \in Creds
    PROVE  [Idle EXCEPT !.phase = "chosen", !.cred = k, !.attempts = MaxAttempts] \in Jobs
<1>1. MaxAttempts \in 0 .. MaxAttempts
  BY ConstantsAreNaturals
<1> QED BY <1>1, IdleType DEF Jobs

LEMMA SentJobType ==
    ASSUME NEW j \in Jobs, j.attempts > 0, NEW h \in {"none", "this"}, NEW l \in BOOLEAN
    PROVE  [j EXCEPT !.phase = "sent", !.attempts = @ - 1, !.held = h, !.limited = l,
                     !.overtaken = FALSE] \in Jobs
<1>1. j.attempts - 1 \in 0 .. MaxAttempts
  BY ConstantsAreNaturals DEF Jobs
<1> QED BY <1>1 DEF Jobs

LEMMA NextTypeOK == TypeOK /\ [Next]_vars => TypeOK'
<1> SUFFICES ASSUME TypeOK, [Next]_vars PROVE TypeOK' OBVIOUS
<1>0. acct \in Accounts /\ present \in BOOLEAN /\ WorkersTyped
  BY DEF TypeOK, WorkersTyped
<1>1. ASSUME present' \in BOOLEAN, acct' \in Accounts, WorkersTyped' PROVE TypeOK'
  BY <1>1 DEF TypeOK, WorkersTyped
<1> USE <1>0, <1>1, JobTypes
<1>3. ASSUME NEW c \in Checkers, Start(c) PROVE TypeOK'
  <2> DEFINE j == [Idle EXCEPT !.phase = "ready", !.cred = acct.cred]
  <2>1. j \in Jobs /\ j.phase \in Phases(c)
    BY IdleType DEF Jobs, Accounts, Phases
  <2>2. Becomes(c, j) /\ UNCHANGED <<present, acct>>
    BY <1>3 DEF Start
  <2> QED BY <2>1, <2>2, BecomesType
<1>4. ASSUME NEW c \in Checkers, ClaimRefused(c) PROVE TypeOK'
  BY <1>4, IdleType, BecomesType DEF ClaimRefused
<1>5. ASSUME NEW c \in Checkers, ClaimLimited(c) PROVE TypeOK'
  <2>1. acct' \in Accounts
    BY <1>5, TimesAreTimes DEF ClaimLimited, Accounts
  <2> QED BY <1>5, <2>1, IdleType, BecomesType DEF ClaimLimited
<1>6. ASSUME NEW c \in Checkers, Claim(c) PROVE TypeOK'
  <2>1. job[c].lag \in 0 .. MaxLag /\ job[c].cred \in Creds \cup {NoCred}
    BY DEF Jobs
  <2>2. acct' \in Accounts
    BY <1>6, <2>1, TimesAreTimes DEF Claim, Accounts
  <2>3. PICK to \in {"probing", "done"} :
           Becomes(c, [Idle EXCEPT !.phase = to, !.cred = job[c].cred, !.probeIn = ProbeTimeout,
                                   !.late = to = "probing" /\ job[c].lag >= LeaseSlack])
    BY <1>6 DEF Claim
  <2> DEFINE b == to = "probing" /\ job[c].lag >= LeaseSlack
             j == [Idle EXCEPT !.phase = to, !.cred = job[c].cred, !.probeIn = ProbeTimeout,
                               !.late = b]
  <2>4. j \in Jobs
    BY <2>1, ClaimedJobType
  <2>5. j.phase \in Phases(c)
    BY IdleType DEF Phases, Jobs
  <2> QED BY <1>6, <2>2, <2>3, <2>4, <2>5, BecomesType DEF Claim
<1>7. ASSUME NEW c \in Checkers, Probe(c) PROVE TypeOK'
  <2>1. PICK b \in BOOLEAN :
           Becomes(c, [job[c] EXCEPT !.phase = "done", !.answered = b, !.probeIn = 0,
                                !.late = FALSE])
    BY <1>7 DEF Probe
  <2> DEFINE j == [job[c] EXCEPT !.phase = "done", !.answered = b, !.probeIn = 0, !.late = FALSE]
  <2>2. j \in Jobs
    BY ProbedJobType
  <2>3. j.phase \in Phases(c)
    BY DEF Phases, Jobs
  <2> QED BY <1>7, <2>1, <2>2, <2>3, BecomesType DEF Probe
<1>8. ASSUME NEW c \in Checkers, NEW o \in Outcomes, Complete(c, o) PROVE TypeOK'
  <2>1. acct' \in Accounts
    BY <1>8, OperationTypes, VerdictType, ConcludedType DEF Complete
  <2>2. WorkersTyped'
    BY <1>8, IdleType, BecomesType DEF Complete
  <2> QED BY <1>8, <2>1, <2>2 DEF Complete
<1>9. ASSUME NEW c \in Checkers, Release(c) \/ Abandon(c) PROVE TypeOK'
  <2>1. Released(acct) \in Accounts /\ RetryDelays \subseteq Times
    BY OperationTypes, TimesAreTimes
  <2>2. \A delay \in RetryDelays : [Released(acct) EXCEPT !.recheckIn = delay] \in Accounts
    BY <2>1 DEF Accounts
  <2>3. acct' \in Accounts
    BY <1>9, <2>1, <2>2 DEF Release, Abandon
  <2> QED BY <1>9, <2>3, IdleType, BecomesType DEF Release, Abandon
<1>10. CASE CapWindow
  BY <1>10, TimesAreTimes DEF CapWindow, Accounts, WorkersTyped
<1>11. ASSUME NEW r \in Requests, Acquire(r) PROVE TypeOK'
  <2> DEFINE j == [Idle EXCEPT !.phase = "chosen", !.cred = acct.cred, !.attempts = MaxAttempts]
  <2>1. j \in Jobs
    BY ChosenJobType DEF Accounts
  <2>2. j.phase \in Phases(r)
    BY IdleType DEF Phases, Jobs
  <2> QED BY <1>11, <2>1, <2>2, BecomesType DEF Acquire
<1>12. ASSUME NEW r \in Requests, Attempt(r) PROVE TypeOK'
  <2> DEFINE h == IF acct.required THEN "this" ELSE "none"
             l == acct.limitIn > 0
             j == [job[r] EXCEPT !.phase = "sent", !.attempts = @ - 1, !.held = h,
                                 !.limited = l, !.overtaken = FALSE]
  <2>a. job[r].attempts > 0 /\ h \in {"none", "this"} /\ l \in BOOLEAN
    BY <1>12 DEF Attempt
  <2>b. Becomes(r, j) /\ UNCHANGED <<present, acct>>
    BY <1>12 DEF Attempt
  <2>c. j = [job[r] EXCEPT !.phase = "sent", !.attempts = @ - 1, !.held = h,
                           !.limited = l, !.overtaken = FALSE]
    OBVIOUS
  <2> HIDE DEF h, l
  <2>1. j \in Jobs
    BY <2>a, SentJobType
  <2>2. j.phase \in Phases(r)
    BY DEF Phases, Jobs
  <2> HIDE DEF j
  <2> QED BY <2>b, <2>1, <2>2, BecomesType
<1>13. ASSUME NEW r \in Requests, MoveOn(r) PROVE TypeOK'
  BY <1>13, IdleType, BecomesType DEF MoveOn
<1>14. ASSUME NEW r \in Requests, RecordSuccess(r) PROVE TypeOK'
  <2>1. ClearVerification(acct) \in Accounts
    BY OperationTypes
  <2>2. acct' \in Accounts
    BY <1>14, <2>1, TimesAreTimes DEF RecordSuccess, Accounts
  <2> QED BY <1>14, <2>2, IdleType, BecomesType DEF RecordSuccess
<1>15. ASSUME NEW r \in Requests, Challenged(r) PROVE TypeOK'
  BY <1>15, OperationTypes, BecomesType DEF Challenged
<1>16. ASSUME NEW r \in Requests, Marked(r) PROVE TypeOK'
  <2>1. /\ MarkIneligible(acct) \in Accounts
        /\ \A wait \in Backoffs : MarkRateLimited(acct, wait) \in Accounts
    BY OperationTypes
  <2>2. [MarkIneligible(acct) EXCEPT !.enabled = FALSE] \in Accounts
    BY <2>1 DEF Accounts
  <2>3. \A wait \in Cooldowns : [acct EXCEPT !.coolIn = wait] \in Accounts
    BY TimesAreTimes DEF Accounts
  <2>4. acct' \in Accounts
    BY <1>16, <2>1, <2>2, <2>3 DEF Marked
  <2> QED BY <1>16, <2>4, BecomesType DEF Marked
<1>17. ASSUME NEW r \in Requests, NoEffect(r) PROVE TypeOK'
  BY <1>17, BecomesType DEF NoEffect
<1>18. ASSUME NEW b \in BOOLEAN, SetEnabled(b) PROVE TypeOK'
  BY <1>18 DEF SetEnabled, WorkersTyped, Accounts
<1>19. CASE ClearHolds
  BY <1>19, OperationTypes, OvertakeAllType DEF ClearHolds
<1>20. CASE Remove
  <2>1. acct' \in Accounts
    BY <1>20, NewAccountType DEF Remove, Accounts
  <2>2. \A j \in Jobs : /\ [Overtaken(j) EXCEPT !.orphaned = TRUE] \in Jobs
                        /\ [Overtaken(j) EXCEPT !.orphaned = TRUE].phase = j.phase
    <3>1. ASSUME NEW i \in Jobs
          PROVE  [i EXCEPT !.orphaned = TRUE] \in Jobs /\ [i EXCEPT !.orphaned = TRUE].phase = i.phase
      BY DEF Jobs
    <3> QED BY <3>1, OvertakenType
  <2>3. WorkersTyped'
    <3>1. ASSUME NEW w \in Workers PROVE job'[w] \in Jobs /\ job'[w].phase = job[w].phase
      <4>1. job[w] \in Jobs
        BY DEF WorkersTyped
      <4>2. job'[w] = job[w] \/ job'[w] = [Overtaken(job[w]) EXCEPT !.orphaned = TRUE]
        BY <1>20 DEF Remove
      <4> QED BY <2>2, <4>1, <4>2
    <3>2. job' \in [Workers -> Jobs]
      BY <1>20, <3>1 DEF Remove
    <3> QED BY <3>1, <3>2 DEF WorkersTyped
  <2> QED BY <1>20, <2>1, <2>3 DEF Remove
<1>21. ASSUME NEW k \in Creds, Upsert(k) PROVE TypeOK'
  <2>1. ResetVerification(acct) \in Accounts /\ NewAccount(k) \in Accounts /\ Past \in Times
    BY OperationTypes, NewAccountType, TimesAreTimes
  <2>2. [ResetVerification(acct) EXCEPT
            !.cred = k, !.enabled = TRUE, !.ineligible = FALSE, !.coolIn = Past] \in Accounts
    BY <2>1 DEF Accounts
  <2> QED BY <1>21, <2>1, <2>2, OvertakeAllType DEF Upsert
<1>22. CASE Tick
  <2>1. acct' \in Accounts
    <3>1. (IF acct.startedAgo < LongAgo THEN acct.startedAgo + 1 ELSE acct.startedAgo) \in 0 .. LongAgo
      BY ConstantsAreNaturals DEF Accounts, LongAgo
    <3>2. /\ Passes(acct.recheckIn) \in Times /\ Passes(acct.coolIn) \in Times
          /\ Passes(acct.limitIn) \in Times /\ Passes(acct.leaseIn) \in Times
      BY TimesAreTimes DEF Accounts
    <3> QED BY <1>22, <3>1, <3>2 DEF Tick, Accounts
  <2>2. ASSUME NEW w \in Workers PROVE job'[w] \in Jobs /\ job'[w].phase = job[w].phase
    <3>0. job[w] \in Jobs /\ job[w].phase \in Phases(w)
      BY DEF WorkersTyped
    <3>1. CASE job[w].phase = "ready"
      <4>1. job'[w] = [job[w] EXCEPT !.lag = @ + 1]
        BY <1>22, <3>1 DEF Tick
      <4>2. job[w].lag + 1 \in 0 .. MaxLag
        BY <1>22, <3>0, <3>1, ConstantsAreNaturals DEF Tick, Phases, Jobs
      <4> QED BY <3>0, <4>1, <4>2 DEF Jobs
    <3>2. CASE job[w].phase = "probing"
      <4>1. job'[w] = [job[w] EXCEPT !.probeIn = @ - 1]
        BY <1>22, <3>2 DEF Tick
      <4>2. job[w].probeIn - 1 \in 0 .. ProbeTimeout
        BY <1>22, <3>0, <3>2, ConstantsAreNaturals DEF Tick, Phases, Jobs
      <4> QED BY <3>0, <4>1, <4>2 DEF Jobs
    <3>3. CASE job[w].phase \notin {"ready", "probing"}
      BY <1>22, <3>0, <3>3 DEF Tick
    <3> QED BY <3>1, <3>2, <3>3
  <2>3. WorkersTyped'
    BY <1>22, <2>2 DEF Tick, WorkersTyped
  <2> QED BY <1>22, <2>1, <2>3 DEF Tick
<1>23. CASE UNCHANGED vars
  BY <1>23 DEF vars, TypeOK
<1> QED BY <1>3, <1>4, <1>5, <1>6, <1>7, <1>8, <1>9, <1>10, <1>11, <1>12, <1>13, <1>14, <1>15,
           <1>16, <1>17, <1>18, <1>19, <1>20, <1>21, <1>22, <1>23 DEF Next, Check, Request, Operator

\* The account's entry and every worker's job keep their types.
THEOREM TypeCorrect == Spec => []TypeOK
<1>1. Init => TypeOK
  BY InitTypeOK
<1>2. TypeOK /\ [Next]_vars => TypeOK'
  BY NextTypeOK
<1> QED BY <1>1, <1>2, PTL DEF Spec

-----------------------------------------------------------------------------
(* One probe at a time *)

\* A probe whose claim reached the store in time.
OnTime(c) == Probing(c) /\ ~job[c].late

\* Its lease is the stored one, and outlives the probe.
HasLease(c) ==
    OnTime(c) => /\ present
                 /\ acct.checkId = c
                 /\ acct.leaseIn >= job[c].probeIn + 1

LeaseInv == TypeOK /\ \A c \in Checkers : HasLease(c)

\* So a live probe's account has a running check, at whatever recent `now`.
LEMMA ProbeRuns ==
    ASSUME LeaseInv, NEW c \in Checkers, OnTime(c)
    PROVE  /\ acct.checkId = c /\ acct.checkId # NoCheck
           /\ acct.leaseIn > 0 /\ acct.leaseIn \in Int
           /\ \A lag \in 0 .. MaxLag : Running(acct, lag)
<1>1. job[c] \in Jobs /\ acct.leaseIn \in Int /\ job[c].probeIn \in Nat
  BY JobTypes, ConstantsAreNaturals DEF LeaseInv, TypeOK, Accounts, Times, Jobs
<1>2. acct.leaseIn > 0
  BY <1>1, ConstantsAreNaturals DEF LeaseInv, HasLease, Jobs
<1>3. acct.checkId = c /\ c # NoCheck
  BY VerificationAssumption DEF LeaseInv, HasLease
<1> QED BY <1>1, <1>2, <1>3, ConstantsAreNaturals DEF Running

\* The operations of the account that leave its lease alone, and those that
\* leave a live one alone.
SameLease(a, b) == b.checkId = a.checkId /\ b.leaseIn = a.leaseIn

LEMMA LeaseKept ==
    ASSUME NEW a \in Accounts
    PROVE  /\ \A wait \in Backoffs : SameLease(a, MarkRateLimited(a, wait))
           /\ SameLease(a, MarkIneligible(a))
           /\ Running(a, 0) =>
                /\ \A window \in HoldWindows : SameLease(a, MarkVerificationRequired(a, window))
                /\ SameLease(a, ResetVerification(a))
                /\ SameLease(a, ClearHoldsOf(a))
BY DEF SameLease, MarkRateLimited, MarkIneligible, MarkVerificationRequired, ResetVerification,
       ClearHoldsOf, KeepLiveLease, Accounts

\* A step keeps the leases if it keeps the probes it leaves running and, while
\* there is one, the lease.
LEMMA LeasesKept ==
    ASSUME LeaseInv, TypeOK',
           \A c \in Checkers : OnTime(c)' => OnTime(c) /\ job'[c].probeIn = job[c].probeIn,
           (\E c \in Checkers : OnTime(c)') => present' /\ SameLease(acct, acct')
    PROVE  LeaseInv'
BY DEF LeaseInv, HasLease, SameLease

\* Another worker's step, or a judgement, does not start or move a probe.
LEMMA ProbesKept ==
    ASSUME TypeOK, NEW w \in Workers, NEW j \in Jobs, j.phase # "probing",
           Becomes(w, j) \/ Overtake(w, j)
    PROVE  \A c \in Checkers : OnTime(c)' => c # w /\ OnTime(c) /\ job'[c].probeIn = job[c].probeIn
<1> SUFFICES ASSUME NEW c \in Checkers, OnTime(c)'
             PROVE  c # w /\ OnTime(c) /\ job'[c].probeIn = job[c].probeIn
  OBVIOUS
<1>1. job \in [Workers -> Jobs] /\ c \in Workers /\ job[c] \in Jobs
  BY JobTypes DEF TypeOK
<1>2. CASE Becomes(w, j)
  BY <1>1, <1>2 DEF Becomes, OnTime, Probing
<1>3. CASE Overtake(w, j)
  BY <1>1, <1>3 DEF Overtake, Overtaken, OnTime, Probing, Jobs
<1> QED BY <1>2, <1>3

LEMMA NextLease == LeaseInv /\ [Next]_vars => LeaseInv'
<1> SUFFICES ASSUME LeaseInv, [Next]_vars PROVE LeaseInv' OBVIOUS
<1>0. TypeOK /\ TypeOK' /\ acct \in Accounts /\ job \in [Workers -> Jobs]
  BY NextTypeOK DEF LeaseInv, TypeOK
<1> USE <1>0, JobTypes
\* A probing checker and another one at the store: the other is not the holder.
<1>1. ASSUME NEW c \in Checkers, NEW d \in Checkers, c # d, OnTime(c)
      PROVE  ~Mine(d) /\ ~Claimable(d)
  <2>1. acct.checkId = c /\ \A lag \in 0 .. MaxLag : Running(acct, lag)
    BY <1>1, ProbeRuns
  <2>2. job[d].lag \in 0 .. MaxLag
    BY DEF Jobs
  <2> QED BY <1>1, <2>1, <2>2 DEF Mine, Claimable, Busy
\* What a live probe protects.
<1>2. ASSUME NEW c \in Checkers, OnTime(c)
      PROVE  present /\ acct.checkId # NoCheck /\ Running(acct, 0)
  BY <1>2, ProbeRuns, ConstantsAreNaturals DEF LeaseInv, HasLease
<1>3. ASSUME NEW c \in Checkers, Start(c) \/ ClaimRefused(c) \/ Probe(c) \/ Abandon(c)
      PROVE  LeaseInv'
  <2>1. /\ [Idle EXCEPT !.phase = "ready", !.cred = acct.cred] \in Jobs
        /\ [Idle EXCEPT !.phase = "ready", !.cred = acct.cred].phase = "ready"
    BY IdleType DEF Jobs, Accounts
  <2>2. \A b \in BOOLEAN :
           /\ [job[c] EXCEPT !.phase = "done", !.answered = b, !.probeIn = 0, !.late = FALSE] \in Jobs
           /\ [job[c] EXCEPT !.phase = "done", !.answered = b, !.probeIn = 0, !.late = FALSE].phase = "done"
    <3>1. job[c] \in Jobs
      OBVIOUS
    <3>2. \A b \in BOOLEAN :
             [job[c] EXCEPT !.phase = "done", !.answered = b, !.probeIn = 0, !.late = FALSE].phase = "done"
      BY <3>1 DEF Jobs
    <3> QED BY <3>1, <3>2, ProbedJobType
  <2>3. Idle \in Jobs /\ Idle.phase = "idle"
    BY IdleType DEF Idle
  <2>4. PICK j \in Jobs : j.phase # "probing" /\ Becomes(c, j)
    BY <1>3, <2>1, <2>2, <2>3 DEF Start, ClaimRefused, Probe, Abandon
  <2>5. UNCHANGED <<present, acct>>
    BY <1>3 DEF Start, ClaimRefused, Probe, Abandon
  <2>6. \A d \in Checkers : OnTime(d)' => OnTime(d) /\ job'[d].probeIn = job[d].probeIn
    BY <2>4, ProbesKept
  <2> QED BY <1>2, <2>5, <2>6, LeasesKept DEF SameLease
<1>4. ASSUME NEW c \in Checkers, ClaimLimited(c) PROVE LeaseInv'
  <2>1. \A d \in Checkers : OnTime(d)' => OnTime(d) /\ job'[d].probeIn = job[d].probeIn
    BY <1>4, IdleType, ProbesKept DEF ClaimLimited, Idle
  <2>2. SameLease(acct, acct') /\ UNCHANGED present
    BY <1>4 DEF ClaimLimited, SameLease, Accounts
  <2> QED BY <1>2, <2>1, <2>2, LeasesKept
<1>5. ASSUME NEW c \in Checkers, Claim(c) PROVE LeaseInv'
  <2>1. job[c].lag \in 0 .. MaxLag /\ Claimable(c) /\ present'
    BY <1>5 DEF Claim, Jobs, Claimable, Found
  <2>2. acct'.checkId = c /\ acct'.leaseIn = ProbeTimeout + LeaseSlack - job[c].lag
    BY <1>5 DEF Claim, Accounts
  <2>3. \A d \in Checkers \ {c} : ~OnTime(d) /\ job'[d] = job[d]
    BY <1>1, <1>5, <2>1 DEF Claim, Becomes
  <2>4. OnTime(c)' => job'[c].probeIn = ProbeTimeout /\ job[c].lag < LeaseSlack
    <3>1. PICK to \in {"probing", "done"} :
             Becomes(c, [Idle EXCEPT !.phase = to, !.cred = job[c].cred, !.probeIn = ProbeTimeout,
                                     !.late = to = "probing" /\ job[c].lag >= LeaseSlack])
      BY <1>5 DEF Claim
    <3>2. /\ job'[c].probeIn = ProbeTimeout /\ job'[c].phase = to
          /\ job'[c].late = (to = "probing" /\ job[c].lag >= LeaseSlack)
      BY <3>1 DEF Becomes, Idle
    <3>3. OnTime(c)' => job'[c].phase = "probing" /\ ~job'[c].late
      BY DEF OnTime, Probing
    <3>4. OnTime(c)' => ~(job[c].lag >= LeaseSlack)
      BY <3>2, <3>3
    <3> QED BY <2>1, <3>2, <3>4, ConstantsAreNaturals
  <2>5. HasLease(c)'
    BY <2>1, <2>2, <2>4, ConstantsAreNaturals DEF HasLease
  <2>6. \A d \in Checkers \ {c} : ~OnTime(d)'
    BY <2>3 DEF OnTime, Probing
  <2> QED BY <2>5, <2>6 DEF LeaseInv, HasLease
<1>6. ASSUME NEW c \in Checkers, Release(c) \/ \E o \in Outcomes : Complete(c, o) PROVE LeaseInv'
  <2>1. \A d \in Checkers : OnTime(d)' => d # c /\ OnTime(d) /\ job'[d].probeIn = job[d].probeIn
    BY <1>6, IdleType, ProbesKept DEF Release, Complete, Idle
  <2>2. ~Mine(c) => UNCHANGED <<present, acct>>
    BY <1>6 DEF Release, Complete, Current
  <2> QED BY <1>1, <1>2, <2>1, <2>2, LeasesKept DEF SameLease
<1>7. ASSUME CapWindow \/ \E b \in BOOLEAN : SetEnabled(b) PROVE LeaseInv'
  BY <1>7, LeasesKept DEF CapWindow, SetEnabled, SameLease, Accounts, OnTime, Probing
<1>8. ASSUME NEW r \in Requests,
             Acquire(r) \/ Attempt(r) \/ MoveOn(r) \/ NoEffect(r) \/ Marked(r)
      PROVE  LeaseInv'
  <2>1. /\ [Idle EXCEPT !.phase = "chosen", !.cred = acct.cred, !.attempts = MaxAttempts] \in Jobs
        /\ [Idle EXCEPT !.phase = "chosen", !.cred = acct.cred, !.attempts = MaxAttempts].phase
              = "chosen"
    BY ChosenJobType, IdleType DEF Accounts, Jobs
  <2>2. \A c \in Checkers : OnTime(c)' => OnTime(c) /\ job'[c].probeIn = job[c].probeIn
    <3>1. \A c \in Checkers : c # r /\ job'[c] = job[c]
      BY <1>8 DEF Acquire, Attempt, MoveOn, NoEffect, Marked, Becomes
    <3> QED BY <3>1 DEF OnTime, Probing
  <2>3. present' = present /\ SameLease(acct, acct')
    <3>1. CASE Marked(r)
      <4>1. SameLease(acct, [MarkIneligible(acct) EXCEPT !.enabled = FALSE])
        BY DEF MarkIneligible, SameLease, Accounts
      <4>2. \A wait \in Cooldowns : SameLease(acct, [acct EXCEPT !.coolIn = wait])
        BY DEF SameLease, Accounts
      <4> QED BY <3>1, <4>1, <4>2, LeaseKept DEF Marked
    <3>2. CASE ~Marked(r)
      BY <1>8, <3>2 DEF Acquire, Attempt, MoveOn, NoEffect, SameLease
    <3> QED BY <3>1, <3>2
  <2> QED BY <1>2, <2>2, <2>3, LeasesKept
<1>9. ASSUME NEW r \in Requests, RecordSuccess(r) \/ Challenged(r) PROVE LeaseInv'
  <2>1. \A c \in Checkers : OnTime(c)' => OnTime(c) /\ job'[c].probeIn = job[c].probeIn
    <3>1. PICK j \in Jobs : j.phase # "probing" /\ (Becomes(r, j) \/ Overtake(r, j))
      BY <1>9, IdleType, VerificationAssumption DEF RecordSuccess, Challenged, Idle, Phases
    <3> QED BY <3>1, ProbesKept
  <2>2. ASSUME NEW c \in Checkers, OnTime(c) PROVE present' /\ SameLease(acct, acct')
    <3>1. present' /\ acct.checkId # NoCheck /\ Running(acct, 0)
      BY <1>2, <1>9, <2>2 DEF RecordSuccess, Challenged
    <3>2. CASE RecordSuccess(r)
      BY <3>1, <3>2 DEF RecordSuccess, SameLease, Accounts
    <3>3. CASE Challenged(r)
      BY <3>1, <3>3, LeaseKept DEF Challenged
    <3> QED BY <1>9, <3>1, <3>2, <3>3
  <2> QED BY <2>1, <2>2, LeasesKept
<1>10. ASSUME OvertakeAll PROVE \A c \in Checkers : OnTime(c)' => OnTime(c) /\ job'[c].probeIn = job[c].probeIn
  BY <1>10 DEF OvertakeAll, Overtaken, OnTime, Probing, Jobs
<1>11. CASE ClearHolds
  BY <1>2, <1>10, <1>11, LeaseKept, LeasesKept DEF ClearHolds
<1>12. ASSUME NEW k \in Creds, Upsert(k) PROVE LeaseInv'
  <2>1. ASSUME NEW c \in Checkers, OnTime(c) PROVE present' /\ SameLease(acct, acct')
    <3>1. present /\ SameLease(acct, ResetVerification(acct)) /\ ResetVerification(acct) \in Accounts
      BY <1>2, <2>1, LeaseKept, OperationTypes
    <3> QED BY <1>12, <3>1 DEF Upsert, SameLease, Accounts
  <2> QED BY <1>10, <1>12, <2>1, LeasesKept DEF Upsert
<1>13. CASE Remove
  <2>1. ASSUME NEW c \in Checkers PROVE ~OnTime(c)'
    BY <1>13, OvertakenType DEF Remove, OnTime, Probing, Jobs
  <2> QED BY <2>1 DEF LeaseInv, HasLease
<1>14. CASE Tick
  <2>1. ASSUME NEW c \in Checkers, OnTime(c)' PROVE HasLease(c)'
    <3>1. job[c].phase = "probing" /\ job'[c] = [job[c] EXCEPT !.probeIn = @ - 1]
      BY <1>14, <2>1 DEF Tick, OnTime, Probing, Jobs
    <3>2. OnTime(c)
      BY <2>1, <3>1 DEF OnTime, Probing, Jobs
    <3>3. acct.leaseIn > 0 /\ acct.leaseIn \in Int /\ acct.checkId = c
      BY <3>2, ProbeRuns
    <3>4. acct'.leaseIn = acct.leaseIn - 1 /\ acct'.checkId = c /\ present' = present
      BY <1>14, <3>3, ConstantsAreNaturals DEF Tick, Passes, Past, Accounts
    <3>5. job'[c].probeIn = job[c].probeIn - 1 /\ job[c].probeIn \in Int
      BY <3>1 DEF Jobs
    <3> QED BY <3>2, <3>3, <3>4, <3>5, ConstantsAreNaturals DEF LeaseInv, HasLease
  <2> QED BY <2>1 DEF LeaseInv, HasLease
<1>15. CASE UNCHANGED vars
  BY <1>15 DEF vars, LeaseInv, HasLease, OnTime, Probing, TypeOK
<1> QED BY <1>3, <1>4, <1>5, <1>6, <1>7, <1>8, <1>9, <1>11, <1>12, <1>13, <1>14, <1>15
        DEF Next, Check, Request, Operator

\* Of the checks whose claim was not late for its own lease, at most one probes
\* an entry of the pool at a time, whatever operators, requests, crashes and
\* re-logins do meanwhile, late claims among them.
THEOREM OneProbe == Spec => []AtMostOneProbe
<1>1. Init => LeaseInv
  BY InitTypeOK DEF Init, LeaseInv, HasLease, OnTime, Probing, Idle, Workers
<1>2. LeaseInv /\ [Next]_vars => LeaseInv'
  BY NextLease
<1>3. LeaseInv => AtMostOneProbe
  BY DEF LeaseInv, HasLease, OnTime, AtMostOneProbe
<1> QED BY <1>1, <1>2, <1>3, PTL DEF Spec
-----------------------------------------------------------------------------
(* Old answers *)

\* A check whose lease is still current, and a request whose hold is still the
\* account's, were overtaken by no judgement.
Live(c) == job[c].phase \in {"probing", "done"}

FreshClaim(c) == Live(c) /\ acct.checkId = c /\ acct.current => ~job[c].overtaken

Holding(r) == job[r].phase = "sent" /\ job[r].held = "this"

FreshHold(r) == Holding(r) => ~job[r].overtaken

OrderInv ==
    /\ TypeOK
    /\ \A c \in Checkers : FreshClaim(c)
    /\ \A r \in Requests : FreshHold(r)

\* No worker starts anything, and one that a judgement overtakes finds the
\* revision bumped.
NoneStarts ==
    /\ \A c \in Checkers : Live(c)' => /\ Live(c)
                                       /\ job'[c].overtaken => job[c].overtaken \/ ~acct'.current
    /\ \A r \in Requests : Holding(r)' => Holding(r) /\ job'[r].overtaken = job[r].overtaken

\* The revision is bumped, or the lease is still what it was.
SameClaim(a, b) == b.current => a.current /\ b.checkId = a.checkId

LEMMA OrderKept ==
    ASSUME OrderInv, TypeOK', NoneStarts, SameClaim(acct, acct')
    PROVE  OrderInv'
BY DEF OrderInv, NoneStarts, SameClaim, FreshClaim, FreshHold

\* A worker that ends what it was doing, beside nobody or overtaking all others.
LEMMA EndsNoStart ==
    ASSUME TypeOK, NEW w \in Workers, NEW j \in Jobs, j.phase \notin {"probing", "done", "sent"},
           Becomes(w, j) \/ (Overtake(w, j) /\ ~acct'.current)
    PROVE  NoneStarts
<1>1. \A v \in Workers : job[v] \in Jobs
  BY DEF TypeOK
<1>2. job'[w] = j
  BY DEF Becomes, Overtake, TypeOK
<1>3. ASSUME NEW v \in Workers \ {w}
      PROVE  job'[v] = job[v] \/ (job'[v] = Overtaken(job[v]) /\ ~acct'.current)
  BY <1>3 DEF Becomes, Overtake, TypeOK
<1>4. \A v \in Workers \ {w} : Overtaken(job[v]).phase = job[v].phase
  BY <1>1, OvertakenType
<1>5. \A v \in Workers \ {w} : ~(Overtaken(job[v]).phase = "sent" /\ Overtaken(job[v]).held = "this")
  BY <1>1 DEF Overtaken, Jobs
<1> QED BY <1>2, <1>3, <1>4, <1>5 DEF NoneStarts, Live, Holding, Workers

LEMMA OvertakeAllNoStart == TypeOK /\ OvertakeAll /\ ~acct'.current => NoneStarts
<1> SUFFICES ASSUME TypeOK, OvertakeAll, ~acct'.current PROVE NoneStarts OBVIOUS
<1>1. \A v \in Workers : job[v] \in Jobs /\ job'[v] = Overtaken(job[v])
  BY DEF TypeOK, OvertakeAll
<1>2. \A v \in Workers : Overtaken(job[v]).phase = job[v].phase
  BY <1>1, OvertakenType
<1>3. \A v \in Workers : ~(Overtaken(job[v]).phase = "sent" /\ Overtaken(job[v]).held = "this")
  BY <1>1 DEF Overtaken, Jobs
<1> QED BY <1>1, <1>2, <1>3 DEF NoneStarts, Live, Holding, Workers

\* What the operations of the account do to the claim and to the hold.
LEMMA Revisions ==
    ASSUME NEW a \in Accounts
    PROVE  /\ \A window \in HoldWindows :
                 /\ ~MarkVerificationRequired(a, window).current
                 /\ MarkVerificationRequired(a, window).required
           /\ ~ClearVerification(a).current /\ ~ResetVerification(a).current
           /\ ~ClearHoldsOf(a).current /\ ~Released(a).current
           /\ Released(a).required = a.required
           /\ \A wait \in Backoffs : /\ SameClaim(a, MarkRateLimited(a, wait))
                                     /\ MarkRateLimited(a, wait).required = a.required
           /\ SameClaim(a, MarkIneligible(a)) /\ MarkIneligible(a).required = a.required
<1>1. KeepLiveLease(a) \in Accounts
  BY KeepLiveLeaseType
<1>2. \A window \in HoldWindows : /\ ~MarkVerificationRequired(a, window).current
                                  /\ MarkVerificationRequired(a, window).required
  BY <1>1 DEF MarkVerificationRequired, Accounts
<1>3. ~ClearVerification(a).current
  BY DEF ClearVerification, Accounts
<1>4. ResetVerification(a) \in Accounts /\ ~ResetVerification(a).current
  BY <1>1, OperationTypes DEF ResetVerification, Accounts
<1>5. ~ClearHoldsOf(a).current
  BY <1>4 DEF ClearHoldsOf, Accounts
<1>6. ~Released(a).current /\ Released(a).required = a.required
  BY DEF Released, Accounts
<1>7. \A wait \in Backoffs : /\ SameClaim(a, MarkRateLimited(a, wait))
                             /\ MarkRateLimited(a, wait).required = a.required
  BY DEF MarkRateLimited, SameClaim, Accounts
<1>8. SameClaim(a, MarkIneligible(a)) /\ MarkIneligible(a).required = a.required
  BY DEF MarkIneligible, SameClaim, Accounts
<1> QED BY <1>2, <1>3, <1>4, <1>5, <1>6, <1>7, <1>8

\* A lease that is given back, or another judgement of it, keeps both kinds of
\* worker in order.
LEMMA NextOrder == OrderInv /\ [Next]_vars => OrderInv'
<1> SUFFICES ASSUME OrderInv, [Next]_vars PROVE OrderInv' OBVIOUS
<1>0. TypeOK /\ TypeOK' /\ acct \in Accounts /\ job \in [Workers -> Jobs]
  BY NextTypeOK DEF OrderInv, TypeOK
<1> USE <1>0, JobTypes
<1>1. Idle \in Jobs /\ Idle.phase \notin {"probing", "done", "sent"}
  BY IdleType DEF Idle
<1>2. SameClaim(acct, acct)
  BY DEF SameClaim
<1>3. ASSUME NEW c \in Checkers, Start(c) \/ ClaimRefused(c) \/ Abandon(c) PROVE OrderInv'
  <2>1. /\ [Idle EXCEPT !.phase = "ready", !.cred = acct.cred] \in Jobs
        /\ [Idle EXCEPT !.phase = "ready", !.cred = acct.cred].phase = "ready"
    BY IdleType DEF Jobs, Accounts
  <2>2. PICK j \in Jobs : j.phase \notin {"probing", "done", "sent"} /\ Becomes(c, j)
    BY <1>1, <1>3, <2>1 DEF Start, ClaimRefused, Abandon
  <2>3. NoneStarts
    BY <2>2, EndsNoStart
  <2>4. acct' = acct
    BY <1>3 DEF Start, ClaimRefused, Abandon
  <2> QED BY <1>2, <2>3, <2>4, OrderKept
<1>4. ASSUME NEW c \in Checkers, Probe(c) PROVE OrderInv'
  <2>1. PICK b \in BOOLEAN :
           Becomes(c, [job[c] EXCEPT !.phase = "done", !.answered = b, !.probeIn = 0,
                                !.late = FALSE])
    BY <1>4 DEF Probe
  <2>2. job'[c].overtaken = job[c].overtaken /\ Live(c)
    BY <1>4, <2>1 DEF Probe, Becomes, Jobs, Live
  <2>3. \A v \in Workers \ {c} : job'[v] = job[v]
    BY <2>1 DEF Becomes
  <2>4. NoneStarts
    BY <2>2, <2>3 DEF NoneStarts, Live, Holding
  <2> QED BY <1>2, <1>4, <2>4, OrderKept DEF Probe
<1>5. ASSUME NEW c \in Checkers, ClaimLimited(c) PROVE OrderInv'
  <2>1. NoneStarts
    BY <1>1, <1>5, EndsNoStart DEF ClaimLimited
  <2>2. SameClaim(acct, acct')
    BY <1>5 DEF ClaimLimited, SameClaim, Accounts
  <2> QED BY <2>1, <2>2, OrderKept
\* The claim makes the stored lease its own, and starts with nothing overtaken.
<1>6. ASSUME NEW c \in Checkers, Claim(c) PROVE OrderInv'
  <2>1. acct'.checkId = c
    BY <1>6 DEF Claim, Accounts
  <2>2. ~job'[c].overtaken
    BY <1>6 DEF Claim, Becomes, Idle
  <2>3. \A r \in Requests : job'[r] = job[r]
    BY <1>6 DEF Claim, Becomes
  <2>4. \A d \in Checkers : FreshClaim(d)'
    BY <2>1, <2>2 DEF FreshClaim
  <2>5. \A r \in Requests : FreshHold(r)'
    BY <2>3 DEF OrderInv, FreshHold, Holding
  <2> QED BY <2>4, <2>5 DEF OrderInv
<1>7. ASSUME NEW c \in Checkers, Release(c) PROVE OrderInv'
  <2>1. NoneStarts
    BY <1>1, <1>7, EndsNoStart DEF Release
  <2>2. SameClaim(acct, acct')
    <3>1. \A delay \in RetryDelays : ~[Released(acct) EXCEPT !.recheckIn = delay].current
      BY DEF Released, Accounts
    <3>2. ~Released(acct).current
      BY Revisions
    <3>3. acct' = acct \/ ~acct'.current
      BY <1>7, <3>1, <3>2 DEF Release
    <3> QED BY <3>3 DEF SameClaim
  <2> QED BY <2>1, <2>2, OrderKept
<1>8. ASSUME NEW c \in Checkers, NEW o \in Outcomes, Complete(c, o) PROVE OrderInv'
  <2>1. CASE ~Mine(c)
    <3>1. acct' = acct /\ Becomes(c, Idle)
      BY <1>8, <2>1 DEF Complete, Current
    <3> QED BY <1>1, <1>2, <3>1, EndsNoStart, OrderKept
  <2>2. CASE Mine(c) /\ ~Current(c)
    <3>1. acct' = Released(acct) /\ Becomes(c, Idle)
      BY <1>8, <2>2 DEF Complete, Current
    <3> QED BY <1>1, <3>1, Revisions, EndsNoStart, OrderKept DEF SameClaim
  <2>3. CASE Current(c)
    <3>1. ~acct'.current
      <4>1. PICK window \in HoldWindows, delay \in RetryDelays, backoff \in Backoffs :
               acct' = Concluded(Verdict(acct, o, window, backoff), o, delay)
        BY <1>8, <2>3 DEF Complete, Current
      <4>2. Verdict(acct, o, window, backoff) \in Accounts
        BY VerdictType
      <4> QED BY <4>1, <4>2 DEF Concluded, Released, Accounts
    <3>2. Becomes(c, Idle) \/ Overtake(c, Idle)
      BY <1>8, <2>3 DEF Complete, Current
    <3> QED BY <1>1, <3>1, <3>2, EndsNoStart, OrderKept DEF SameClaim
  <2> QED BY <2>1, <2>2, <2>3 DEF Current
<1>9. ASSUME CapWindow \/ \E b \in BOOLEAN : SetEnabled(b) PROVE OrderInv'
  <2>1. job' = job /\ SameClaim(acct, acct')
    BY <1>9 DEF CapWindow, SetEnabled, SameClaim, Accounts
  <2>2. NoneStarts
    BY <2>1 DEF NoneStarts, Live, Holding
  <2> QED BY <2>1, <2>2, OrderKept
\* The hold an attempt notes is the account's present one.
<1>10. ASSUME NEW r \in Requests, Attempt(r) PROVE OrderInv'
  <2>1. ~job'[r].overtaken
    BY <1>10 DEF Attempt, Becomes, Jobs
  <2>2. \A v \in Workers \ {r} : job'[v] = job[v]
    BY <1>10 DEF Attempt, Becomes
  <2>3. acct' = acct
    BY <1>10 DEF Attempt
  <2>4. \A c \in Checkers : job'[c] = job[c]
    BY <2>2
  <2>5. \A c \in Checkers : FreshClaim(c)'
    BY <2>3, <2>4 DEF OrderInv, FreshClaim, Live
  <2>6. \A q \in Requests : FreshHold(q)'
    BY <2>1, <2>2 DEF OrderInv, FreshHold, Holding
  <2> QED BY <2>5, <2>6 DEF OrderInv
<1>11. ASSUME NEW r \in Requests, Acquire(r) \/ MoveOn(r) \/ NoEffect(r) \/ Marked(r)
       PROVE  OrderInv'
  <2>1. /\ [Idle EXCEPT !.phase = "chosen", !.cred = acct.cred, !.attempts = MaxAttempts] \in Jobs
        /\ [Idle EXCEPT !.phase = "chosen", !.cred = acct.cred, !.attempts = MaxAttempts].phase
              = "chosen"
    BY ChosenJobType, IdleType DEF Accounts, Jobs
  <2>2. \A j \in AfterFailure(r) : j \in Jobs /\ j.phase \notin {"probing", "done", "sent"}
    BY <1>1 DEF AfterFailure, Jobs
  <2>3. PICK j \in Jobs : j.phase \notin {"probing", "done", "sent"} /\ Becomes(r, j)
    BY <1>1, <1>11, <2>1, <2>2 DEF Acquire, MoveOn, NoEffect, Marked
  <2>4. NoneStarts
    BY <2>3, EndsNoStart
  <2>5. SameClaim(acct, acct')
    <3>1. CASE Marked(r)
      <4>1. SameClaim(acct, [MarkIneligible(acct) EXCEPT !.enabled = FALSE])
        BY DEF MarkIneligible, SameClaim, Accounts
      <4>2. \A wait \in Cooldowns : SameClaim(acct, [acct EXCEPT !.coolIn = wait])
        BY DEF SameClaim, Accounts
      <4>3. /\ SameClaim(acct, MarkIneligible(acct))
            /\ \A wait \in Backoffs : SameClaim(acct, MarkRateLimited(acct, wait))
        BY Revisions
      <4> QED BY <3>1, <4>1, <4>2, <4>3 DEF Marked
    <3>2. CASE ~Marked(r)
      BY <1>2, <1>11, <3>2 DEF Acquire, MoveOn, NoEffect
    <3> QED BY <3>1, <3>2
  <2> QED BY <2>4, <2>5, OrderKept
<1>12. ASSUME NEW r \in Requests, RecordSuccess(r) PROVE OrderInv'
  <2>1. CASE Becomes(r, Idle) /\ acct' = [acct EXCEPT !.limitIn = Past]
    <3>1. SameClaim(acct, acct')
      BY <2>1 DEF SameClaim, Accounts
    <3> QED BY <1>1, <2>1, <3>1, EndsNoStart, OrderKept
  <2>2. CASE Overtake(r, Idle) /\ acct' = [ClearVerification(acct) EXCEPT !.limitIn = Past]
    <3>1. ~acct'.current
      BY <2>2, Revisions, OperationTypes DEF Accounts
    <3> QED BY <1>1, <2>2, <3>1, EndsNoStart, OrderKept DEF SameClaim
  <2> QED BY <1>12, <2>1, <2>2 DEF RecordSuccess
<1>13. ASSUME NEW r \in Requests, Challenged(r) PROVE OrderInv'
  <2>1. \A j \in AfterFailure(r) : j \in Jobs /\ j.phase \notin {"probing", "done", "sent"}
    BY <1>1 DEF AfterFailure, Jobs
  <2>2. ~acct'.current
    BY <1>13, Revisions DEF Challenged
  <2>3. NoneStarts
    BY <1>13, <2>1, <2>2, EndsNoStart DEF Challenged
  <2> QED BY <2>2, <2>3, OrderKept DEF SameClaim
<1>14. ASSUME ClearHolds \/ \E k \in Creds : Upsert(k) PROVE OrderInv'
  <2>1. OvertakeAll
    BY <1>14 DEF ClearHolds, Upsert
  <2>2. ~acct'.current
    <3>1. ResetVerification(acct) \in Accounts /\ ~ResetVerification(acct).current
      BY Revisions, OperationTypes
    <3>2. \A k \in Creds :
             ~[ResetVerification(acct) EXCEPT
                  !.cred = k, !.enabled = TRUE, !.ineligible = FALSE, !.coolIn = Past].current
      BY <3>1 DEF Accounts
    <3>3. \A k \in Creds : ~NewAccount(k).current
      BY DEF NewAccount
    <3> QED BY <1>14, <3>2, <3>3, Revisions DEF ClearHolds, Upsert
  <2> QED BY <2>1, <2>2, OvertakeAllNoStart, OrderKept DEF SameClaim
<1>15. CASE Remove
  <2>1. ~acct'.current
    BY <1>15 DEF Remove, NewAccount
  <2>2. ASSUME NEW r \in Requests PROVE ~Holding(r)'
    BY <1>15 DEF Remove, Overtaken, Holding, Jobs
  <2> QED BY <2>1, <2>2 DEF OrderInv, FreshClaim, FreshHold
<1>16. CASE Tick
  <2>1. SameClaim(acct, acct')
    BY <1>16 DEF Tick, SameClaim, Accounts
  <2>2. ASSUME NEW w \in Workers
        PROVE  /\ job'[w].phase = job[w].phase /\ job'[w].held = job[w].held
               /\ job'[w].overtaken = job[w].overtaken
    BY <1>16 DEF Tick, Jobs
  <2>3. NoneStarts
    BY <2>2 DEF NoneStarts, Live, Holding
  <2> QED BY <2>1, <2>3, OrderKept
<1>17. CASE UNCHANGED vars
  <2>1. NoneStarts /\ SameClaim(acct, acct')
    BY <1>17 DEF vars, NoneStarts, Live, Holding, SameClaim
  <2> QED BY <2>1, OrderKept
<1> QED BY <1>3, <1>4, <1>5, <1>6, <1>7, <1>8, <1>9, <1>10, <1>11, <1>12, <1>13, <1>14, <1>15,
           <1>16, <1>17 DEF Next, Check, Request, Operator

-----------------------------------------------------------------------------
(* Who may judge *)

\* What a check gives back beside its verdict is its own lease.
LEMMA ReleaseJudgesNothing ==
    ASSUME NEW a \in Accounts PROVE Judgement(Released(a)) = Judgement(a)
BY DEF Judgement, Released, Accounts

\* A late completion: the account was judged, reset or removed since the claim.
LEMMA LateIsMute ==
    ASSUME OrderInv, NEW c \in Checkers, job[c].overtaken,
           Release(c) \/ \E o \in Outcomes : Complete(c, o)
    PROVE  Judgement(acct') = Judgement(acct) /\ (acct.checkId # c => acct' = acct)
<1>1. ~Current(c)
  BY DEF OrderInv, FreshClaim, Live, Current, Mine, Release, Complete
<1>2. acct' = acct \/ (Mine(c) /\ acct' = Released(acct))
  BY <1>1 DEF Release, Complete
<1>3. acct \in Accounts
  BY DEF OrderInv, TypeOK
<1> QED BY <1>2, <1>3, ReleaseJudgesNothing DEF Mine

\* A check whose account was judged, reset or removed since its claim changes
\* nothing but its own lease.
THEOREM LateCheckers == Spec => LateChecksAreMute
<1>1. Init => OrderInv
  BY InitTypeOK, VerificationAssumption
     DEF Init, OrderInv, FreshClaim, FreshHold, Live, Holding, Idle, Workers
<1>2. OrderInv /\ [Next]_vars => OrderInv'
  BY NextOrder
<1>3. OrderInv =>
        \A c \in Checkers :
          job[c].overtaken /\ (Release(c) \/ \E o \in Outcomes : Complete(c, o))
             => /\ Judgement(acct') = Judgement(acct)
                /\ acct.checkId # c => acct' = acct
  BY LateIsMute
<1> QED BY <1>1, <1>2, <1>3, PTL DEF Spec, LateChecksAreMute

\* The steps that are no answer keep the hold; those that are, and lift it,
\* were asked for after it was set.
LEMMA HoldIsLiftedByNews ==
    ASSUME OrderInv, [Next]_vars, acct.required, ~acct'.required
    PROVE  \/ Operator
           \/ \E c \in Checkers : Complete(c, "served") /\ ~job[c].overtaken
           \/ \E r \in Requests : RecordSuccess(r) /\ ~job[r].overtaken
<1>0. acct \in Accounts /\ TypeOK
  BY DEF OrderInv, TypeOK
<1> USE <1>0
<1>1. ASSUME NEW c \in Checkers, Start(c) \/ ClaimRefused(c) \/ ClaimLimited(c) \/ Claim(c)
                                 \/ Probe(c) \/ Abandon(c)
      PROVE  FALSE
  BY <1>1 DEF Start, ClaimRefused, ClaimLimited, Claim, Probe, Abandon, Accounts
<1>2. ASSUME NEW c \in Checkers, Release(c) PROVE FALSE
  <2>1. /\ Released(acct).required = acct.required
        /\ \A delay \in RetryDelays :
              [Released(acct) EXCEPT !.recheckIn = delay].required = acct.required
    BY DEF Released, Accounts
  <2> QED BY <1>2, <2>1 DEF Release
<1>3. ASSUME NEW c \in Checkers, NEW o \in Outcomes, Complete(c, o)
      PROVE  o = "served" /\ ~job[c].overtaken
  <2>1. Current(c)
    <3>1. Released(acct).required = acct.required
      BY Revisions
    <3> QED BY <1>3, <3>1 DEF Complete, Current
  <2>2. ~job[c].overtaken
    BY <1>3, <2>1 DEF OrderInv, FreshClaim, Live, Current, Mine, Complete
  <2>3. PICK window \in HoldWindows, delay \in RetryDelays, backoff \in Backoffs :
           acct' = Concluded(Verdict(acct, o, window, backoff), o, delay)
    BY <1>3, <2>1 DEF Complete, Current
  <2>4. Verdict(acct, o, window, backoff) \in Accounts
    BY VerdictType
  <2>5. acct'.required = Verdict(acct, o, window, backoff).required
    BY <2>3, <2>4 DEF Concluded, Released, Accounts
  <2>6. o # "served" => Verdict(acct, o, window, backoff).required
    <3>1. CASE o = "challenged"
      BY <3>1, Revisions DEF Verdict
    <3>2. CASE o = "auth_invalid"
      BY <3>2 DEF Verdict, MarkIneligible, Accounts
    <3>3. CASE o = "ineligible"
      BY <3>3 DEF Verdict, MarkIneligible, Accounts
    <3>4. CASE o = "limited"
      BY <3>4 DEF Verdict, MarkRateLimited, Accounts
    <3>5. CASE o = "other"
      BY <3>5 DEF Verdict
    <3> QED BY <3>1, <3>2, <3>3, <3>4, <3>5 DEF Outcomes
  <2> QED BY <2>2, <2>5, <2>6
<1>4. ASSUME CapWindow \/ Tick PROVE FALSE
  BY <1>4 DEF CapWindow, Tick, Accounts
<1>5. ASSUME NEW r \in Requests, Acquire(r) \/ Attempt(r) \/ MoveOn(r) \/ NoEffect(r) PROVE FALSE
  BY <1>5 DEF Acquire, Attempt, MoveOn, NoEffect
<1>6. ASSUME NEW r \in Requests, Challenged(r) PROVE FALSE
  BY <1>6, Revisions DEF Challenged
<1>7. ASSUME NEW r \in Requests, Marked(r) PROVE FALSE
  <2>1. /\ [MarkIneligible(acct) EXCEPT !.enabled = FALSE].required = acct.required
        /\ \A wait \in Cooldowns : [acct EXCEPT !.coolIn = wait].required = acct.required
    BY DEF MarkIneligible, Accounts
  <2>2. /\ MarkIneligible(acct).required = acct.required
        /\ \A wait \in Backoffs : MarkRateLimited(acct, wait).required = acct.required
    BY Revisions
  <2> QED BY <1>7, <2>1, <2>2 DEF Marked
\* Under a hold, SameHold is the attempt's own hold, still the account's.
<1>8. ASSUME NEW r \in Requests, RecordSuccess(r) PROVE ~job[r].overtaken
  <2>1. SameHold(r)
    BY <1>8 DEF RecordSuccess, Accounts
  <2>2. Holding(r)
    BY <1>8, <2>1 DEF SameHold, Holding, RecordSuccess
  <2> QED BY <2>2 DEF OrderInv, FreshHold
<1>9. CASE UNCHANGED vars
  BY <1>9 DEF vars
<1> QED BY <1>1, <1>2, <1>3, <1>4, <1>5, <1>6, <1>7, <1>8, <1>9 DEF Next, Check, Request

\* Outside the operator's commands, a hold is lifted only by an answer to
\* something sent after the challenge that set it.
THEOREM HoldOutlives == Spec => HoldOutlivesOldAnswers
<1>1. Init => OrderInv
  BY InitTypeOK, VerificationAssumption
     DEF Init, OrderInv, FreshClaim, FreshHold, Live, Holding, Idle, Workers
<1>2. OrderInv /\ [Next]_vars => OrderInv'
  BY NextOrder
<1>3. OrderInv /\ [Next]_vars =>
        (acct.required /\ ~acct'.required
           => \/ Operator
              \/ \E c \in Checkers : Complete(c, "served") /\ ~job[c].overtaken
              \/ \E r \in Requests : RecordSuccess(r) /\ ~job[r].overtaken)
  BY HoldIsLiftedByNews
<1> QED BY <1>1, <1>2, <1>3, PTL DEF Spec, HoldOutlivesOldAnswers
=============================================================================
