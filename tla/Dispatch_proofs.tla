---------------------------- MODULE Dispatch_proofs ----------------------------
(***************************************************************************)
(* Proofs about Dispatch, for any pool, any number of requests and any     *)
(* budgets.                                                                *)
(***************************************************************************)
EXTENDS Dispatch, FiniteSetTheorems, TLAPS

-----------------------------------------------------------------------------
(* The invariant of one dispatch loop *)

Quota == EndpointCount * (MaxCapacityRetries + 1)

\* How much of its quota the account at hand has used before this attempt.
Used(j) == j.endpoint * (MaxCapacityRetries + 1) + j.retries

\* Between select and the end of an acquisition the account is a new one, and
\* it is counted as soon as it is dispatched to.
Rotates(j) ==
    /\ j.pc \in {"spend", "attempt", "sent"} => j.chosen \in Accounts \ j.tried
    /\ j.accountsTried = Cardinality(j.tried) + (IF Dispatching(j) THEN 1 ELSE 0)

\* An account counts as reached from its first send on.
Unreached(j) == j.pc = "attempt" /\ FirstSend(j)

Counts(j) ==
    /\ j.reached + (IF Unreached(j) THEN 1 ELSE 0) <= j.accountsTried
    /\ j.pc = "sent" => j.reached >= 1 /\ j.sends <= j.reached * Quota - Quota + Used(j) + 1
    /\ j.pc = "attempt" /\ ~FirstSend(j) =>
          j.reached >= 1 /\ j.sends <= j.reached * Quota - Quota + Used(j)
    /\ j.pc \in {"sent", "attempt"} \/ j.sends <= j.reached * Quota
    /\ Unreached(j) => j.sends <= j.reached * Quota

Sound(j) == j \in Loops /\ Rotates(j) /\ Counts(j)

DispatchInv == TypeOK /\ \A r \in Requests : Sound(req[r])

LEMMA Budgets ==
    /\ Quota \in Nat
    /\ \A n \in Nat : n * Quota \in Nat /\ (n + 1) * Quota = n * Quota + Quota
    /\ \A j \in Loops : Used(j) \in Nat /\ Used(j) + 1 <= Quota
<1> DEFINE R == MaxCapacityRetries + 1
<1>1. R \in Nat /\ R > 0 /\ EndpointCount \in Nat
  BY DispatchAssumption
<1>2. \A m, n \in Nat : m * n \in Nat
  OBVIOUS
<1>3. Quota \in Nat
  BY <1>1, <1>2 DEF Quota
<1>4. \A n \in Nat : n * Quota \in Nat /\ (n + 1) * Quota = n * Quota + Quota
  BY <1>3
<1>5. ASSUME NEW j \in Loops PROVE Used(j) \in Nat /\ Used(j) + 1 <= Quota
  <2>1. j.endpoint \in 0 .. EndpointCount - 1 /\ j.retries \in 0 .. MaxCapacityRetries
    BY <1>5 DEF Loops
  <2>2. j.endpoint * R \in Nat /\ j.retries + 1 <= R
    <3>1. j.endpoint \in Nat /\ j.retries + 1 <= R
      BY <2>1, DispatchAssumption
    <3> QED BY <1>1, <1>2, <3>1
  <2>3. PICK k \in Nat : EndpointCount = j.endpoint + 1 + k
    <3>1. EndpointCount - 1 - j.endpoint \in Nat
      BY <1>1, <2>1
    <3> QED BY <1>1, <2>1, <3>1
  <2>4. EndpointCount * R = j.endpoint * R + R + k * R
    BY <1>1, <2>1, <2>3
  <2>5. k * R \in Nat
    BY <1>1, <2>3
  <2> QED BY <1>1, <2>1, <2>2, <2>4, <2>5 DEF Used, Quota
<1> QED BY <1>3, <1>4, <1>5

LEMMA EndedIsSound == Sound(Ended)
<1>1. IsFiniteSet(Accounts) /\ Cardinality(Accounts) \in Nat /\ Cardinality({}) = 0
  BY DispatchAssumption, FS_CardinalityType, FS_EmptySet
<1>2. Nothing \in Seen
  <2>1. Nothing \in [{} -> Blocked .. MaxLimit]
    BY DEF Nothing
  <2> QED BY <2>1 DEF Seen
<1>3. Ended \in Loops
  BY <1>1, <1>2, DispatchAssumption DEF Ended, Loops
<1>4. 0 * Quota = 0
  BY Budgets
<1> QED BY <1>1, <1>3, <1>4 DEF Sound, Rotates, Counts, Ended, Dispatching, Unreached

\* Excluding the account at hand keeps the count of accounts.
LEMMA NextAccountIsSound ==
    ASSUME NEW j, Sound(j), Dispatching(j)
    PROVE  Sound(NextAccount(j))
<1> DEFINE k == NextAccount(j)
<1>1. /\ j \in Loops
      /\ j.chosen \in Accounts \ j.tried
      /\ j.accountsTried = Cardinality(j.tried) + 1
      /\ j.tried \in SUBSET Accounts
  BY DEF Sound, Rotates, Dispatching, Loops
<1>2. IsFiniteSet(j.tried) /\ Cardinality(j.tried \cup {j.chosen}) = Cardinality(j.tried) + 1
  BY <1>1, DispatchAssumption, FS_Subset, FS_AddElement
<1>3. k \in Loops
  <2>1. j.tried \cup {j.chosen} \in SUBSET Accounts
    BY <1>1
  <2>2. AnyAccount \in Accounts \cup {AnyAccount} /\ 0 \in -1 .. 1
    OBVIOUS
  <2> QED BY <1>1, <2>1, <2>2 DEF NextAccount, Loops
<1>4. /\ k.pc = "look" /\ k.tried = j.tried \cup {j.chosen}
      /\ k.accountsTried = j.accountsTried
      /\ k.reached = j.reached /\ k.sends = j.sends
  BY <1>1 DEF NextAccount, Loops
<1>5. Rotates(k)
  <2>1. ~Dispatching(k) /\ k.pc \notin {"spend", "attempt", "sent"}
    BY <1>4 DEF Dispatching
  <2>2. Cardinality(j.tried) \in Nat
    BY <1>2, FS_CardinalityType, FS_Subset, <1>1, DispatchAssumption
  <2>3. k.accountsTried = Cardinality(k.tried) + 0
    BY <1>1, <1>2, <1>4, <2>2
  <2> QED BY <2>1, <2>3 DEF Rotates
<1>6. k.sends <= k.reached * Quota
  <2>1. j.reached \in Nat /\ j.sends \in Nat /\ j.reached * Quota \in Nat
    BY <1>1, Budgets DEF Loops
  <2>2. Used(j) \in Nat /\ Used(j) + 1 <= Quota /\ Quota \in Nat
    BY <1>1, Budgets
  <2>3. CASE j.pc = "sent"
    BY <2>1, <2>2, <2>3, <1>4 DEF Sound, Counts
  <2>4. CASE j.pc = "attempt"
    BY <2>1, <2>2, <2>4, <1>4 DEF Sound, Counts, Unreached
  <2> QED BY <2>3, <2>4 DEF Dispatching
<1>7. Counts(k)
  <2>1. j.reached \in Nat /\ j.accountsTried \in Nat
    BY <1>1, DispatchAssumption, FS_CardinalityType DEF Loops
  <2>2. k.reached <= k.accountsTried
    BY <1>4, <2>1 DEF Sound, Counts
  <2> QED BY <1>4, <1>6, <2>1, <2>2 DEF Counts, Unreached
<1> QED BY <1>3, <1>5, <1>7 DEF Sound

\* A loop between two accounts is sound whatever it looks at meanwhile.
LEMMA RestingIsSound ==
    ASSUME NEW j, Sound(j), NEW k \in Loops, ~Dispatching(j), ~Dispatching(k),
           k.tried = j.tried, k.accountsTried = j.accountsTried,
           k.reached = j.reached, k.sends = j.sends,
           k.pc = "spend" => k.chosen \in Accounts \ k.tried
    PROVE  Sound(k)
<1>1. Rotates(k)
  BY DEF Sound, Rotates, Dispatching
<1>2. Counts(k)
  BY DEF Sound, Counts, Dispatching, Unreached
<1> QED BY <1>1, <1>2 DEF Sound

\* The invariant says nothing about what a loop waits for or may wait.
LEMMA SameAttemptIsSound ==
    ASSUME NEW j, Sound(j), NEW k \in Loops,
           k.pc = j.pc, k.tried = j.tried, k.chosen = j.chosen,
           k.endpoint = j.endpoint, k.retries = j.retries,
           k.accountsTried = j.accountsTried, k.reached = j.reached, k.sends = j.sends
    PROVE  Sound(k)
<1>1. Rotates(k)
  BY DEF Sound, Rotates, Dispatching
<1>2. Counts(k)
  <2>1. (Unreached(k) <=> Unreached(j)) /\ (FirstSend(k) <=> FirstSend(j)) /\ Used(k) = Used(j)
    BY DEF Unreached, FirstSend, Used
  <2> QED BY <2>1 DEF Sound, Counts
<1> QED BY <1>1, <1>2 DEF Sound

\* begin_next_account: the account is new, so there is room to count it.
LEMMA SpendIsSound ==
    ASSUME NEW j, Sound(j), j.pc = "spend", NEW c \in {0, 1}
    PROVE  Sound([j EXCEPT !.pc = "attempt", !.endpoint = 0, !.retries = 0,
                           !.accountsTried = @ + 1, !.credit = c])
<1> DEFINE k == [j EXCEPT !.pc = "attempt", !.endpoint = 0, !.retries = 0,
                          !.accountsTried = @ + 1, !.credit = c]
<1>1. /\ j \in Loops
      /\ j.chosen \in Accounts \ j.tried
      /\ j.accountsTried = Cardinality(j.tried)
      /\ j.tried \in SUBSET Accounts
  BY DispatchAssumption, FS_Subset, FS_CardinalityType DEF Sound, Rotates, Dispatching, Loops
<1>2. j.accountsTried + 1 \in 0 .. Cardinality(Accounts)
  <2>1. IsFiniteSet(j.tried) /\ Cardinality(j.tried \cup {j.chosen}) = Cardinality(j.tried) + 1
    BY <1>1, DispatchAssumption, FS_Subset, FS_AddElement
  <2>2. j.tried \cup {j.chosen} \in SUBSET Accounts
    BY <1>1
  <2>3. Cardinality(j.tried \cup {j.chosen}) <= Cardinality(Accounts)
    BY <2>2, DispatchAssumption, FS_Subset
  <2>4. Cardinality(j.tried) \in Nat /\ Cardinality(Accounts) \in Nat
    BY <2>1, DispatchAssumption, FS_CardinalityType
  <2> QED BY <1>1, <2>1, <2>3, <2>4
<1>3. k \in Loops
  <2>1. c \in -1 .. 1 /\ 0 \in 0 .. EndpointCount - 1 /\ 0 \in 0 .. MaxCapacityRetries
    BY DispatchAssumption
  <2> QED BY <1>1, <1>2, <2>1 DEF Loops
<1>4. /\ k.pc = "attempt" /\ k.endpoint = 0 /\ k.retries = 0
      /\ k.accountsTried = j.accountsTried + 1 /\ k.chosen = j.chosen
      /\ k.tried = j.tried /\ k.reached = j.reached /\ k.sends = j.sends
  BY <1>1 DEF Loops
<1>5. Rotates(k)
  BY <1>1, <1>4 DEF Rotates, Dispatching
<1>6. Counts(k)
  <2>1. Unreached(k) /\ FirstSend(k)
    BY <1>4 DEF Unreached, FirstSend
  <2>2. j.reached <= j.accountsTried /\ j.sends <= j.reached * Quota
    <3>1. j.reached \in Nat
      BY <1>1, DispatchAssumption, FS_CardinalityType DEF Loops
    <3> QED BY <3>1 DEF Sound, Counts, Unreached
  <2>3. j.reached \in Nat /\ j.accountsTried \in Nat
    BY <1>1, DispatchAssumption, FS_CardinalityType DEF Loops
  <2> QED BY <1>4, <2>1, <2>2, <2>3 DEF Counts
<1> QED BY <1>3, <1>5, <1>6 DEF Sound

\* A send: the first to an account makes room for a whole quota.
LEMMA SendIsSound ==
    ASSUME NEW j, Sound(j), j.pc = "attempt"
    PROVE  Sound([j EXCEPT !.pc = "sent", !.sends = @ + 1,
                           !.reached = IF FirstSend(j) THEN @ + 1 ELSE @])
<1> DEFINE k == [j EXCEPT !.pc = "sent", !.sends = @ + 1,
                          !.reached = IF FirstSend(j) THEN @ + 1 ELSE @]
<1>1. /\ j \in Loops /\ j.reached \in Nat /\ j.sends \in Nat
      /\ j.accountsTried \in Nat /\ j.accountsTried <= Cardinality(Accounts)
      /\ j.reached <= Cardinality(Accounts) /\ Cardinality(Accounts) \in Nat
  BY DispatchAssumption, FS_CardinalityType DEF Sound, Loops
<1>2. /\ k.pc = "sent" /\ k.endpoint = j.endpoint /\ k.retries = j.retries
      /\ k.accountsTried = j.accountsTried /\ k.chosen = j.chosen /\ k.tried = j.tried
      /\ k.reached = (IF FirstSend(j) THEN j.reached + 1 ELSE j.reached)
      /\ k.sends = j.sends + 1
  BY <1>1 DEF Loops
<1>3. Counts(k) /\ k.reached \in 0 .. Cardinality(Accounts)
  <2>1. Used(k) = Used(j) /\ Used(j) \in Nat /\ Quota \in Nat /\ j.reached * Quota \in Nat
    BY <1>1, <1>2, Budgets DEF Used
  <2>2. CASE FirstSend(j)
    <3>1. j.reached + 1 <= j.accountsTried /\ j.sends <= j.reached * Quota
      BY <1>1, <2>2 DEF Sound, Counts, Unreached
    <3>2. k.reached * Quota = j.reached * Quota + Quota
      BY <1>1, <1>2, <2>2, Budgets
    <3> QED BY <1>1, <1>2, <2>1, <2>2, <3>1, <3>2 DEF Counts, Unreached
  <2>3. CASE ~FirstSend(j)
    <3>1. /\ j.reached >= 1 /\ j.reached <= j.accountsTried
          /\ j.sends <= j.reached * Quota - Quota + Used(j)
      BY <1>1, <2>3 DEF Sound, Counts, Unreached
    <3> QED BY <1>1, <1>2, <2>1, <2>3, <3>1 DEF Counts, Unreached
  <2> QED BY <2>2, <2>3
<1>4. k \in Loops
  <2>1. j.sends + 1 \in Nat
    BY <1>1
  <2>2. (IF FirstSend(j) THEN j.reached + 1 ELSE j.reached) \in 0 .. Cardinality(Accounts)
    BY <1>2, <1>3
  <2> QED BY <1>1, <2>1, <2>2 DEF Loops
<1>5. Rotates(k)
  BY <1>2 DEF Sound, Rotates, Dispatching
<1> QED BY <1>3, <1>4, <1>5 DEF Sound

\* decide: the same quota a little further on, another account, or the end.
LEMMA AfterFailureIsSound ==
    ASSUME NEW j, Sound(j), j.pc = "sent", NEW f \in Answers
    PROVE  Sound(AfterFailure(j, f))
<1>1. /\ j \in Loops
      /\ j.endpoint \in 0 .. EndpointCount - 1 /\ j.retries \in 0 .. MaxCapacityRetries
      /\ j.reached \in Nat /\ j.sends \in Nat /\ j.accountsTried \in Nat
  BY DispatchAssumption, FS_CardinalityType DEF Sound, Loops
<1>2. /\ j.reached >= 1 /\ j.reached <= j.accountsTried
      /\ j.sends <= j.reached * Quota - Quota + Used(j) + 1
      /\ j.reached * Quota \in Nat /\ Quota \in Nat /\ Used(j) \in Nat
  BY <1>1, Budgets DEF Sound, Counts, Unreached
<1>3. ASSUME RetryHere(j, f)
      PROVE  Sound([j EXCEPT !.pc = "attempt", !.retries = @ + 1])
  <2> DEFINE k == [j EXCEPT !.pc = "attempt", !.retries = @ + 1]
  <2>1. j.retries + 1 \in 0 .. MaxCapacityRetries /\ j.retries + 1 # 0
    BY <1>1, <1>3, DispatchAssumption DEF RetryHere
  <2>2. k \in Loops
    BY <1>1, <2>1 DEF Loops
  <2>3. /\ k.pc = "attempt" /\ k.endpoint = j.endpoint /\ k.retries = j.retries + 1
        /\ k.accountsTried = j.accountsTried /\ k.chosen = j.chosen /\ k.tried = j.tried
        /\ k.reached = j.reached /\ k.sends = j.sends
    BY <1>1 DEF Loops
  <2>4. Used(k) = Used(j) + 1
    <3>1. j.endpoint * (MaxCapacityRetries + 1) \in Nat
      BY <1>1, DispatchAssumption
    <3> QED BY <1>1, <2>3, <3>1 DEF Used
  <2>5. Counts(k)
    BY <1>1, <1>2, <2>1, <2>3, <2>4 DEF Counts, Unreached, FirstSend
  <2>6. Rotates(k)
    BY <2>3 DEF Sound, Rotates, Dispatching
  <2> QED BY <2>2, <2>5, <2>6 DEF Sound
<1>4. ASSUME NextEndpoint(j, f)
      PROVE  Sound([j EXCEPT !.pc = "attempt", !.retries = 0, !.endpoint = @ + 1])
  <2> DEFINE k == [j EXCEPT !.pc = "attempt", !.retries = 0, !.endpoint = @ + 1]
  <2>1. j.endpoint + 1 \in 0 .. EndpointCount - 1 /\ j.endpoint + 1 # 0
    BY <1>1, <1>4, DispatchAssumption DEF NextEndpoint
  <2>2. k \in Loops
    <3>1. 0 \in 0 .. MaxCapacityRetries
      BY DispatchAssumption
    <3> QED BY <1>1, <2>1, <3>1 DEF Loops
  <2>3. /\ k.pc = "attempt" /\ k.endpoint = j.endpoint + 1 /\ k.retries = 0
        /\ k.accountsTried = j.accountsTried /\ k.chosen = j.chosen /\ k.tried = j.tried
        /\ k.reached = j.reached /\ k.sends = j.sends
    BY <1>1 DEF Loops
  <2>4. Used(k) \in Nat /\ Used(k) >= Used(j) + 1
    <3> DEFINE R == MaxCapacityRetries + 1
    <3>1. R \in Nat /\ j.endpoint \in Nat /\ j.retries + 1 <= R
      BY <1>1, DispatchAssumption
    <3>2. j.endpoint * R \in Nat /\ (j.endpoint + 1) * R = j.endpoint * R + R
      BY <3>1
    <3>3. Used(k) = j.endpoint * R + R
      BY <2>3, <3>1, <3>2 DEF Used
    <3> QED BY <1>1, <3>1, <3>2, <3>3 DEF Used
  <2>5. Counts(k)
    BY <1>1, <1>2, <2>1, <2>3, <2>4 DEF Counts, Unreached, FirstSend
  <2>6. Rotates(k)
    BY <2>3 DEF Sound, Rotates, Dispatching
  <2> QED BY <2>2, <2>5, <2>6 DEF Sound
<1>5. Sound(Ended) /\ Sound(NextAccount(j))
  BY EndedIsSound, NextAccountIsSound DEF Dispatching
<1>6. ~(RetryHere(j, f) /\ NextEndpoint(j, f))
  BY <1>1, DispatchAssumption DEF RetryHere, NextEndpoint
<1>7. CASE RetryHere(j, f)
  BY <1>3, <1>6, <1>7 DEF AfterFailure
<1>8. CASE NextEndpoint(j, f)
  BY <1>4, <1>6, <1>8 DEF AfterFailure
<1>9. CASE ~RetryHere(j, f) /\ ~NextEndpoint(j, f)
  BY <1>5, <1>9 DEF AfterFailure
<1> QED BY <1>7, <1>8, <1>9

-----------------------------------------------------------------------------
(* Every step keeps the invariant *)

\* The part of the invariant that is not about the loops.
Shared ==
    /\ pool \in SUBSET Accounts
    /\ known \in SUBSET Accounts
    /\ acct \in [Accounts -> AccountStates]
    /\ tokens \in [Accounts -> 0 .. Full]
    /\ failures \in [Accounts -> 0 .. MaxFailures]

LEMMA LoopStep ==
    ASSUME DispatchInv, Shared', NEW r \in Requests, NEW j, Sound(j), Becomes(r, j)
    PROVE  DispatchInv'
<1>1. req' \in [Requests -> Loops]
  BY DEF DispatchInv, TypeOK, Sound, Becomes
<1>2. ASSUME NEW q \in Requests PROVE Sound(req'[q])
  BY <1>1 DEF DispatchInv, TypeOK, Becomes
<1> QED BY <1>1, <1>2 DEF DispatchInv, TypeOK, Shared

LEMMA SharedStep ==
    ASSUME DispatchInv, Shared', UNCHANGED req
    PROVE  DispatchInv'
BY DEF DispatchInv, TypeOK, Shared

LEMMA Buckets ==
    /\ Full \in Nat /\ TokenParts \in Nat /\ TokenParts <= Full
    /\ \A n \in Nat : Capped(n, Full) \in 0 .. Full
<1>1. PICK t \in Nat : TokenMax = t + 1
  <2>1. TokenMax - 1 \in Nat
    BY DispatchAssumption
  <2> QED BY <2>1, DispatchAssumption
<1>2. Full = t * TokenParts + TokenParts /\ t * TokenParts \in Nat
  BY <1>1, DispatchAssumption DEF Full
<1>3. Full \in Nat /\ TokenParts \in Nat /\ TokenParts <= Full
  BY <1>2, DispatchAssumption
<1> QED BY <1>3 DEF Capped

LEMMA ResourceTypes ==
    ASSUME DispatchInv
    PROVE  /\ Shared
           /\ \A a \in Accounts : tokens[a] \in 0 .. Full /\ acct[a] \in AccountStates
           /\ \A r \in Requests : Sound(req[r]) /\ req[r] \in Loops
BY DEF DispatchInv, TypeOK, Shared

\* acquire_account up to the choice, and its wait.
LEMMA AcquireStep ==
    ASSUME DispatchInv, NEW r \in Requests,
           \/ Look(r) \/ Retain(r) \/ Choose(r) \/ NoCandidate(r)
           \/ Wait(r) \/ PoolExhausted(r) \/ Wake(r)
    PROVE  DispatchInv'
<1> DEFINE j == req[r]
<1>1. Shared /\ j \in Loops /\ Sound(j) /\ Sound(Ended)
  BY ResourceTypes, EndedIsSound
<1>2. CASE Look(r)
  <2>1. Shared'
    BY <1>1, <1>2 DEF Look, Shared
  <2>2. CASE Becomes(r, Ended)
    BY <1>1, <2>1, <2>2, LoopStep
  <2>3. CASE /\ j.pc = "look"
             /\ Becomes(r, [j EXCEPT !.pc = "retain", !.seen = [a \in pool |-> Candidate(a)]])
    <3> DEFINE s == [a \in pool |-> Candidate(a)]
               k == [j EXCEPT !.pc = "retain", !.seen = s]
    <3>1. \A a \in pool : Candidate(a) \in Blocked .. MaxLimit
      <4>1. \A a \in pool : acct[a].limitIn \in 0 .. MaxLimit
        BY <1>1 DEF Shared, AccountStates
      <4> QED BY <4>1, DispatchAssumption DEF Candidate, Blocked, Free
    <3>2. s \in Seen
      BY <1>1, <3>1 DEF Seen, Shared
    <3>3. k \in Loops /\ k.pc = "retain" /\ k.tried = j.tried
          /\ k.accountsTried = j.accountsTried /\ k.reached = j.reached /\ k.sends = j.sends
      BY <1>1, <3>2 DEF Loops
    <3>4. Sound(k)
      BY <1>1, <2>3, <3>3, RestingIsSound DEF Dispatching
    <3> QED BY <2>1, <2>3, <3>4, LoopStep
  <2> QED BY <1>2, <2>2, <2>3 DEF Look
<1>3. CASE Retain(r)
  <2>1. Shared'
    <3>1. tokens' \in [Accounts -> 0 .. Full]
      BY <1>1, <1>3, Buckets DEF Retain, Shared
    <3>2. failures' \in [Accounts -> 0 .. MaxFailures]
      BY <1>1, <1>3, DispatchAssumption DEF Retain, Shared
    <3> QED BY <1>1, <1>3, <3>1, <3>2 DEF Retain, Shared
  <2> DEFINE k == [j EXCEPT !.pc = "select"]
  <2>2. k \in Loops /\ k.pc = "select" /\ k.tried = j.tried
        /\ k.accountsTried = j.accountsTried /\ k.reached = j.reached /\ k.sends = j.sends
    BY <1>1 DEF Loops
  <2>3. Sound(k)
    BY <1>1, <1>3, <2>2, RestingIsSound DEF Dispatching, Retain
  <2> QED BY <1>1, <1>3, <2>1, <2>3, LoopStep DEF Retain
<1>4. CASE Choose(r)
  <2>1. Shared'
    BY <1>1, <1>4 DEF Choose, Shared
  <2>2. PICK a \in Available(j) :
           Becomes(r, [j EXCEPT !.pc = "spend", !.chosen = a, !.seen = Nothing])
    BY <1>4 DEF Choose
  <2> DEFINE k == [j EXCEPT !.pc = "spend", !.chosen = a, !.seen = Nothing]
  <2>3. a \in Accounts \ j.tried
    <3>1. j.seen \in Seen
      BY <1>1 DEF Loops
    <3>2. DOMAIN j.seen \in SUBSET Accounts
      BY <3>1 DEF Seen
    <3> QED BY <2>2, <3>2 DEF Available, Remaining
  <2>4. k \in Loops
    <3>1. Nothing \in Seen
      BY EndedIsSound DEF Sound, Loops, Ended
    <3> QED BY <1>1, <2>3, <3>1 DEF Loops
  <2>5. k.pc = "spend" /\ k.chosen = a /\ k.tried = j.tried
        /\ k.accountsTried = j.accountsTried /\ k.reached = j.reached /\ k.sends = j.sends
    BY <1>1 DEF Loops
  <2>6. Sound(k)
    BY <1>1, <1>4, <2>3, <2>4, <2>5, RestingIsSound DEF Dispatching, Choose
  <2> QED BY <2>1, <2>2, <2>6, LoopStep
<1>5. CASE NoCandidate(r) \/ PoolExhausted(r)
  <2>1. Shared' /\ Becomes(r, Ended)
    BY <1>1, <1>5 DEF NoCandidate, PoolExhausted, Shared
  <2> QED BY <1>1, <2>1, LoopStep
<1>6. CASE Wait(r)
  <2>1. Shared'
    BY <1>1, <1>6 DEF Wait, Shared
  <2>2. PICK wait \in 0 .. MaxWait :
           /\ Affordable(j, wait)
           /\ Becomes(r, [j EXCEPT !.pc = "waiting", !.seen = Nothing,
                                   !.wakeIn = wait, !.waited = @ + wait])
    BY <1>6 DEF Wait
  <2> DEFINE k == [j EXCEPT !.pc = "waiting", !.seen = Nothing,
                            !.wakeIn = wait, !.waited = @ + wait]
  <2>3. k \in Loops
    <3>1. Nothing \in Seen
      BY EndedIsSound DEF Sound, Loops, Ended
    <3>2. j.waited \in 0 .. MaxWait
      BY <1>1 DEF Loops
    <3>3. j.waited + wait \in 0 .. MaxWait
      BY <2>2, <3>2, DispatchAssumption DEF Affordable
    <3> QED BY <1>1, <2>2, <3>1, <3>3 DEF Loops
  <2>4. k.pc = "waiting" /\ k.tried = j.tried
        /\ k.accountsTried = j.accountsTried /\ k.reached = j.reached /\ k.sends = j.sends
    BY <1>1 DEF Loops
  <2>5. Sound(k)
    BY <1>1, <1>6, <2>3, <2>4, RestingIsSound DEF Dispatching, Wait
  <2> QED BY <2>1, <2>2, <2>5, LoopStep
<1>7. CASE Wake(r)
  <2>1. Shared'
    BY <1>1, <1>7 DEF Wake, Shared
  <2> DEFINE k == [j EXCEPT !.pc = "look"]
  <2>2. k \in Loops /\ k.pc = "look" /\ k.tried = j.tried
        /\ k.accountsTried = j.accountsTried /\ k.reached = j.reached /\ k.sends = j.sends
    BY <1>1 DEF Loops
  <2>3. Sound(k)
    BY <1>1, <1>7, <2>2, RestingIsSound DEF Dispatching, Wake
  <2> QED BY <1>7, <2>1, <2>3, LoopStep DEF Wake
<1> QED BY <1>2, <1>3, <1>4, <1>5, <1>6, <1>7

LEMMA SpendStep ==
    ASSUME DispatchInv, NEW r \in Requests, Spend(r)
    PROVE  DispatchInv'
<1> DEFINE j == req[r]
           a == j.chosen
           c == IF HasToken(a) THEN 1 ELSE 0
<1>1. Shared /\ j \in Loops /\ Sound(j) /\ j.pc = "spend"
  BY ResourceTypes DEF Spend
<1>2. a \in Accounts /\ tokens[a] \in 0 .. Full
  BY <1>1 DEF Sound, Rotates, Shared
<1>3. (IF HasToken(a) THEN tokens[a] - TokenParts ELSE tokens[a]) \in 0 .. Full
  BY <1>2, Buckets DEF HasToken
<1>4. Shared'
  BY <1>1, <1>2, <1>3 DEF Spend, Shared
<1>5. Sound([j EXCEPT !.pc = "attempt", !.endpoint = 0, !.retries = 0,
                      !.accountsTried = @ + 1, !.credit = c])
  BY <1>1, SpendIsSound
<1> QED BY <1>4, <1>5, LoopStep DEF Spend

LEMMA AttemptStep ==
    ASSUME DispatchInv, NEW r \in Requests, Attempt(r)
    PROVE  DispatchInv'
<1> DEFINE j == req[r]
<1>1. Shared /\ Sound(j) /\ j.pc = "attempt"
  BY ResourceTypes DEF Attempt
<1>2. Shared'
  BY <1>1 DEF Attempt, Shared
<1>3. Sound(NextAccount(j))
  BY <1>1, NextAccountIsSound DEF Dispatching
<1>4. Sound([j EXCEPT !.pc = "sent", !.sends = @ + 1,
                      !.reached = IF FirstSend(j) THEN @ + 1 ELSE @])
  BY <1>1, SendIsSound
<1> QED BY <1>2, <1>3, <1>4, LoopStep DEF Attempt

\* What persist and apply_failure store is a state an account may have.
LEMMA PersistIsTyped ==
    ASSUME Shared, NEW a \in Accounts, NEW new \in AccountStates, Persist(a, new)
    PROVE  known' \in SUBSET Accounts /\ acct' \in [Accounts -> AccountStates]
BY DEF Persist, Shared

LEMMA MarksAreTyped ==
    ASSUME NEW s \in AccountStates
    PROVE  /\ \A st \in Statuses : [s EXCEPT !.status = st] \in AccountStates
           /\ \A w \in Backoffs : [s EXCEPT !.limitIn = Larger(@, w)] \in AccountStates
           /\ [s EXCEPT !.coolIn = Cooldown] \in AccountStates
           /\ \A st \in Statuses : [s EXCEPT !.status = st, !.coolIn = 0] \in AccountStates
           /\ \A st \in Statuses : [s EXCEPT !.limitIn = 0, !.status = st] \in AccountStates
           /\ \A st \in Statuses : [s EXCEPT !.status = st, !.limitIn = 0] \in AccountStates
           /\ [s EXCEPT !.limitIn = Less(@), !.coolIn = Less(@)] \in AccountStates
           /\ NewAccount \in AccountStates
<1>1. s.limitIn \in 0 .. MaxLimit /\ s.coolIn \in 0 .. MaxLimit /\ s.status \in Statuses
  BY DEF AccountStates
<1>2. \A w \in Backoffs : Larger(s.limitIn, w) \in 0 .. MaxLimit
  BY <1>1, DispatchAssumption DEF Larger
<1>3. Cooldown \in 0 .. MaxLimit /\ 0 \in 0 .. MaxLimit
  BY DispatchAssumption
<1>4. Less(s.limitIn) \in 0 .. MaxLimit /\ Less(s.coolIn) \in 0 .. MaxLimit
  BY <1>1, DispatchAssumption DEF Less
<1>5. "ok" \in Statuses
  BY DEF Statuses
<1> QED BY <1>1, <1>2, <1>3, <1>4, <1>5 DEF AccountStates, NewAccount

LEMMA BlameIsTyped ==
    ASSUME Shared, NEW a \in Accounts, NEW f \in Answers, Blame(a, f), UNCHANGED pool
    PROVE  Shared'
<1> DEFINE count == Capped(failures[a] + 1, MaxFailures)
           Failed == failures' = [failures EXCEPT ![a] = count]
<1>1. /\ acct[a] \in AccountStates /\ tokens[a] \in 0 .. Full
      /\ failures[a] \in 0 .. MaxFailures /\ {"held", "out"} \subseteq Statuses
  BY DEF Shared, Statuses
<1>2. count \in 0 .. MaxFailures
  BY <1>1, DispatchAssumption DEF Capped
<1>3. Failed => failures' \in [Accounts -> 0 .. MaxFailures]
  BY <1>2 DEF Shared
<1>4. CASE f \in {"capacity", "refused"}
  BY <1>4 DEF Blame, Shared
<1>5. CASE f = "limited"
  <2>1. /\ \E wait \in Backoffs : Persist(a, [acct[a] EXCEPT !.limitIn = Larger(@, wait)])
        /\ UNCHANGED <<tokens, failures>>
    BY <1>5 DEF Blame
  <2>2. known' \in SUBSET Accounts /\ acct' \in [Accounts -> AccountStates]
    BY <1>1, <2>1, MarksAreTyped, PersistIsTyped
  <2> QED BY <2>1, <2>2 DEF Shared
<1>6. CASE f \in {"auth", "problem"}
  <2>1. /\ Failed /\ UNCHANGED tokens
        /\ \E s \in Statuses : Persist(a, [acct[a] EXCEPT !.status = s])
    BY <1>1, <1>6 DEF Blame
  <2>2. known' \in SUBSET Accounts /\ acct' \in [Accounts -> AccountStates]
    BY <1>1, <2>1, MarksAreTyped, PersistIsTyped
  <2> QED BY <1>3, <2>1, <2>2 DEF Shared
<1>7. CASE f \in {"server", "network"}
  <2>1. /\ Failed
        /\ tokens' = IF f = "network"
                     THEN [tokens EXCEPT ![a] = Capped(@ + TokenParts, Full)] ELSE tokens
        /\ \/ Persist(a, [acct[a] EXCEPT !.coolIn = Cooldown])
           \/ UNCHANGED <<known, acct>>
    BY <1>7 DEF Blame
  <2>2. known' \in SUBSET Accounts /\ acct' \in [Accounts -> AccountStates]
    BY <1>1, <2>1, MarksAreTyped, PersistIsTyped DEF Shared
  <2>3. Capped(tokens[a] + TokenParts, Full) \in 0 .. Full
    BY <1>1, Buckets
  <2>4. tokens' \in [Accounts -> 0 .. Full]
    BY <2>1, <2>3 DEF Shared
  <2> QED BY <1>3, <2>1, <2>2, <2>4 DEF Shared
<1> QED BY <1>4, <1>5, <1>6, <1>7 DEF Answers

LEMMA AnswerStep ==
    ASSUME DispatchInv, NEW r \in Requests, NEW f \in Answers,
           Failure(r, f) \/ Success(r)
    PROVE  DispatchInv'
<1> DEFINE j == req[r]
           a == j.chosen
<1>1. Shared /\ Sound(j) /\ j \in Loops /\ j.pc = "sent" /\ Sound(Ended)
  BY ResourceTypes, EndedIsSound DEF Failure, Success
<1>2. a \in Accounts /\ acct[a] \in AccountStates
  BY <1>1 DEF Sound, Rotates, Shared
<1>3. CASE Failure(r, f)
  <2> DEFINE k == [j EXCEPT !.credit = IF f = "network" THEN Larger(@ - 1, -1) ELSE @]
  <2>1. Shared'
    BY <1>1, <1>2, <1>3, BlameIsTyped DEF Failure
  <2>2. k \in Loops
    <3>1. (IF f = "network" THEN Larger(j.credit - 1, -1) ELSE j.credit) \in -1 .. 1
      BY <1>1 DEF Loops, Larger
    <3> QED BY <1>1, <3>1 DEF Loops
  <2>3. /\ k.pc = j.pc /\ k.tried = j.tried /\ k.chosen = j.chosen
        /\ k.endpoint = j.endpoint /\ k.retries = j.retries
        /\ k.accountsTried = j.accountsTried /\ k.reached = j.reached /\ k.sends = j.sends
    BY <1>1 DEF Loops
  <2>4. Sound(k)
    BY <1>1, <2>2, <2>3, SameAttemptIsSound
  <2>5. Sound(AfterFailure(k, f))
    BY <1>1, <2>3, <2>4, AfterFailureIsSound
  <2> QED BY <1>3, <2>1, <2>5, LoopStep DEF Failure
<1>4. CASE Success(r)
  <2>1. /\ \E s \in Statuses : Persist(a, [acct[a] EXCEPT !.limitIn = 0, !.status = s])
        /\ failures' = [failures EXCEPT ![a] = 0] /\ UNCHANGED <<pool, tokens>>
        /\ Becomes(r, Ended)
    <3>1. acct[a].status \in Statuses /\ "ok" \in Statuses
      BY <1>2 DEF AccountStates, Statuses
    <3> QED BY <1>4, <3>1 DEF Success
  <2>2. known' \in SUBSET Accounts /\ acct' \in [Accounts -> AccountStates]
    BY <1>1, <1>2, <2>1, MarksAreTyped, PersistIsTyped
  <2>3. failures' \in [Accounts -> 0 .. MaxFailures]
    <3>1. 0 \in 0 .. MaxFailures
      BY DispatchAssumption
    <3> QED BY <1>1, <2>1, <3>1 DEF Shared
  <2>4. UNCHANGED <<pool, tokens>>
    BY <2>1
  <2>5. Shared'
    BY <1>1, <2>2, <2>3, <2>4 DEF Shared
  <2> QED BY <1>1, <2>1, <2>5, LoopStep
<1> QED BY <1>3, <1>4

LEMMA ArriveOrAbortStep ==
    ASSUME DispatchInv, NEW r \in Requests, NEW t \in Accounts \cup {AnyAccount},
           Arrive(r, t) \/ Abort(r)
    PROVE  DispatchInv'
<1>1. Shared /\ Sound(Ended)
  BY ResourceTypes, EndedIsSound
<1>2. Shared'
  BY <1>1 DEF Arrive, Abort, Shared
<1>3. CASE Arrive(r, t)
  <2> DEFINE k == [Ended EXCEPT !.pc = "look", !.target = t]
  <2>1. k \in Loops /\ k.pc = "look" /\ k.tried = Ended.tried
        /\ k.accountsTried = Ended.accountsTried
        /\ k.reached = Ended.reached /\ k.sends = Ended.sends
    <3>1. Ended \in Loops
      BY <1>1 DEF Sound
    <3> QED BY <3>1 DEF Loops
  <2>2. ~Dispatching(Ended) /\ ~Dispatching(k) /\ k.pc # "spend"
    BY <2>1 DEF Dispatching, Ended
  <2>3. Sound(k)
    BY <1>1, <2>1, <2>2, RestingIsSound
  <2> QED BY <1>2, <1>3, <2>3, LoopStep DEF Arrive
<1>4. CASE Abort(r)
  BY <1>1, <1>2, <1>4, LoopStep DEF Abort
<1> QED BY <1>3, <1>4

LEMMA AccountStep ==
    ASSUME DispatchInv, NEW a \in Accounts,
           \/ Remove(a) \/ Upsert(a) \/ Operate(a)
           \/ HoldOpens(a) \/ Probe(a) \/ Judge(a)
    PROVE  DispatchInv'
<1>1. /\ Shared /\ acct[a] \in AccountStates /\ tokens[a] \in 0 .. Full
      /\ {"ok", "held", "due", "out"} = Statuses
  BY ResourceTypes DEF Shared, Statuses
<1>2. CASE Remove(a)
  BY <1>1, <1>2, MarksAreTyped, SharedStep DEF Remove, Shared
<1>3. CASE Upsert(a)
  <2>1. acct' = [acct EXCEPT ![a] = [acct[a] EXCEPT !.status = "ok", !.coolIn = 0]]
    BY <1>1, <1>3 DEF Upsert, Shared
  <2> QED BY <1>1, <1>3, <2>1, MarksAreTyped, SharedStep DEF Upsert, Shared
<1>4. CASE Operate(a)
  <2>1. \E s \in AccountStates : acct' = [acct EXCEPT ![a] = s]
    <3>1. \A st \in Statuses : [acct EXCEPT ![a].status = st]
                              = [acct EXCEPT ![a] = [acct[a] EXCEPT !.status = st]]
      BY <1>1 DEF Shared
    <3> QED BY <1>1, <1>4, <3>1, MarksAreTyped DEF Operate
  <2> QED BY <1>1, <1>4, <2>1, SharedStep DEF Operate, Shared
<1>5. CASE HoldOpens(a)
  <2>1. acct' = [acct EXCEPT ![a] = [acct[a] EXCEPT !.status = "due"]]
    BY <1>1, <1>5 DEF HoldOpens, Shared
  <2> QED BY <1>1, <1>5, <2>1, MarksAreTyped, SharedStep DEF HoldOpens, Shared
<1>6. CASE Probe(a)
  <2>1. tokens[a] - TokenParts \in 0 .. Full
    BY <1>1, <1>6, Buckets DEF Probe, HasToken
  <2> QED BY <1>1, <1>6, <2>1, SharedStep DEF Probe, Shared
<1>7. CASE Judge(a)
  <2>1. failures' \in [Accounts -> 0 .. MaxFailures]
    BY <1>1, <1>7, DispatchAssumption DEF Judge, Shared
  <2>2. \E s \in AccountStates : acct' = [acct EXCEPT ![a] = s]
    <3>1. \/ acct' = [acct EXCEPT ![a].status = "ok", ![a].limitIn = 0]
          \/ \E s \in {"held", "out"} : acct' = [acct EXCEPT ![a].status = s]
          \/ \E wait \in Backoffs : acct' = [acct EXCEPT ![a].limitIn = Larger(@, wait)]
      BY <1>7 DEF Judge
    <3>2. CASE acct' = [acct EXCEPT ![a].status = "ok", ![a].limitIn = 0]
      <4>1. acct' = [acct EXCEPT ![a] = [acct[a] EXCEPT !.status = "ok", !.limitIn = 0]]
        BY <1>1, <3>2 DEF Shared
      <4> QED BY <1>1, <4>1, MarksAreTyped
    <3>3. CASE \E s \in {"held", "out"} : acct' = [acct EXCEPT ![a].status = s]
      <4>1. \E s \in Statuses : acct' = [acct EXCEPT ![a] = [acct[a] EXCEPT !.status = s]]
        BY <1>1, <3>3 DEF Shared
      <4> QED BY <1>1, <4>1, MarksAreTyped
    <3>4. CASE \E wait \in Backoffs : acct' = [acct EXCEPT ![a].limitIn = Larger(@, wait)]
      <4>1. \E w \in Backoffs :
               acct' = [acct EXCEPT ![a] = [acct[a] EXCEPT !.limitIn = Larger(@, w)]]
        BY <1>1, <3>4 DEF Shared
      <4> QED BY <1>1, <4>1, MarksAreTyped
    <3> QED BY <3>1, <3>2, <3>3, <3>4
  <2> QED BY <1>1, <1>7, <2>1, <2>2, SharedStep DEF Judge, Shared
<1> QED BY <1>2, <1>3, <1>4, <1>5, <1>6, <1>7

LEMMA TickStep ==
    ASSUME DispatchInv, Tick
    PROVE  DispatchInv'
<1>1. Shared'
  <2>1. acct' \in [Accounts -> AccountStates]
    BY ResourceTypes, MarksAreTyped DEF Tick
  <2>2. tokens' \in [Accounts -> 0 .. Full]
    <3>1. \A a \in Accounts : Capped(tokens[a] + 1, Full) \in 0 .. Full
      <4>1. \A a \in Accounts : tokens[a] + 1 \in Nat
        BY ResourceTypes, Buckets
      <4> QED BY <4>1, Buckets
    <3> QED BY <3>1 DEF Tick
  <2> QED BY <2>1, <2>2, ResourceTypes DEF Tick, Shared
<1>2. ASSUME NEW r \in Requests
      PROVE  Sound([req[r] EXCEPT !.wakeIn = Less(@)])
  <2> DEFINE k == [req[r] EXCEPT !.wakeIn = Less(@)]
  <2>1. req[r] \in Loops /\ Sound(req[r])
    BY ResourceTypes
  <2>2. Less(req[r].wakeIn) \in 0 .. MaxWait
    BY <2>1, DispatchAssumption DEF Loops, Less
  <2>3. /\ k \in Loops
        /\ k.pc = req[r].pc /\ k.tried = req[r].tried /\ k.chosen = req[r].chosen
        /\ k.endpoint = req[r].endpoint /\ k.retries = req[r].retries
        /\ k.accountsTried = req[r].accountsTried
        /\ k.reached = req[r].reached /\ k.sends = req[r].sends
    BY <2>1, <2>2 DEF Loops
  <2> QED BY <2>1, <2>3, SameAttemptIsSound
<1>3. /\ req' \in [Requests -> Loops]
      /\ \A r \in Requests : Sound(req'[r])
  BY <1>2 DEF Tick, Sound
<1> QED BY <1>1, <1>3 DEF DispatchInv, TypeOK, Shared

-----------------------------------------------------------------------------
(* The theorems *)

LEMMA InitSatisfiesInv == Init => DispatchInv
<1> SUFFICES ASSUME Init PROVE DispatchInv
  OBVIOUS
<1>1. /\ Full \in 0 .. Full /\ 0 \in 0 .. MaxFailures /\ NewAccount \in AccountStates
  BY Buckets, DispatchAssumption DEF NewAccount, AccountStates, Statuses
<1>2. Ended \in Loops
  BY EndedIsSound DEF Sound
<1> QED BY <1>1, <1>2, EndedIsSound DEF Init, DispatchInv, TypeOK

LEMMA NextKeepsInv == DispatchInv /\ [Next]_vars => DispatchInv'
<1> SUFFICES ASSUME DispatchInv, [Next]_vars PROVE DispatchInv'
  OBVIOUS
<1>1. ASSUME NEW r \in Requests, Run(r) PROVE DispatchInv'
  BY <1>1, AcquireStep, SpendStep, AttemptStep, AnswerStep DEF Run, Acquire, Answers
<1>2. ASSUME NEW r \in Requests, NEW t \in Accounts \cup {AnyAccount}, Arrive(r, t) \/ Abort(r)
      PROVE  DispatchInv'
  BY <1>2, ArriveOrAbortStep
<1>3. ASSUME NEW a \in Accounts, \/ Remove(a) \/ Upsert(a) \/ Operate(a)
                                \/ HoldOpens(a) \/ Probe(a) \/ Judge(a)
      PROVE  DispatchInv'
  BY <1>3, AccountStep
<1>4. CASE Tick
  BY <1>4, TickStep
<1>5. CASE UNCHANGED vars
  BY <1>5 DEF vars, DispatchInv, TypeOK
<1> QED BY <1>1, <1>2, <1>3, <1>4, <1>5 DEF Next

LEMMA InvHolds == Spec => []DispatchInv
BY InitSatisfiesInv, NextKeepsInv, PTL DEF Spec

\* For any pool, any number of requests and any budgets, every reachable state
\* is well typed; in particular buckets stay between empty and full, whatever
\* requests and checks take and give back, and no loop counts more accounts
\* than there are.
THEOREM TypeCorrect == Spec => []TypeOK
<1>1. DispatchInv => TypeOK
  BY DEF DispatchInv
<1> QED BY <1>1, InvHolds, PTL

\* Rotation never returns to an account and counts each it takes (NextAccount,
\* begin_next_account), whatever happens to the pool between two attempts.
THEOREM NeverReturns == Spec => []TriesEachAccountOnce
<1>1. DispatchInv => TriesEachAccountOnce
  BY DEF DispatchInv, TriesEachAccountOnce, Sound, Rotates, Dispatching
<1> QED BY <1>1, InvHolds, PTL

\* A request sends at most endpoints * (retries + 1) times to each account it
\* reaches, for every mixture of answers (decide, advance_endpoint).
THEOREM BoundedSends == Spec => []BoundedAttempts
<1>1. DispatchInv => BoundedAttempts
  <2> SUFFICES ASSUME DispatchInv, NEW r \in Requests
               PROVE  /\ req[r].sends <= req[r].reached * Quota
                      /\ req[r].reached <= req[r].accountsTried
    BY DEF BoundedAttempts, Quota
  <2> DEFINE j == req[r]
  <2>1. Sound(j) /\ j \in Loops /\ j.reached \in Nat /\ j.sends \in Nat /\ j.accountsTried \in Nat
    BY ResourceTypes, DispatchAssumption, FS_CardinalityType DEF Loops
  <2>2. j.reached * Quota \in Nat /\ Quota \in Nat /\ Used(j) \in Nat /\ Used(j) + 1 <= Quota
    BY <2>1, Budgets
  <2> QED BY <2>1, <2>2 DEF Sound, Counts, Unreached
<1> QED BY <1>1, InvHolds, PTL
=============================================================================
