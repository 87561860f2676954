-------------------------------- MODULE Selection --------------------------------
(***************************************************************************)
(* How the router chooses among the accounts of the pool                   *)
(* (accounts/router.rs): scores from health, tokens and rest, and the four *)
(* strategies.  One request at a time; Dispatch has several, with the      *)
(* choice left open.  Time is in ticks of half an hour, the shortest that  *)
(* gives a point of health back; every tick fills the buckets.  Scores are *)
(* in tenths.                                                              *)
(***************************************************************************)
EXTENDS Integers, FiniteSets

CONSTANTS
    PoolSize,        \* the accounts are 1 .. PoolSize, in pool order
    TokenMax,        \* token_bucket_max
    MaxAttempts,     \* bound: attempts made
    LastTick         \* bound: the clock stops there

ASSUME SelectionAssumption ==
    PoolSize \in Nat \ {0} /\ TokenMax \in Nat \ {0} /\ MaxAttempts \in Nat /\ LastTick \in Nat

VARIABLES
    strategy,
    tick,            \* the clock
    health,          \* Inner::health: score and time of each account
    bucket,          \* Inner::buckets: tokens and time of each account
    used,            \* when each account last served: the tick, and the place in the order
    cursor,          \* Inner::cursors of this family: the last account that served
    request,         \* the account chosen, those tried, and those able at each attempt and passed over
    attempts,        \* attempts made
    passed           \* history: how often in a row each account was passed over

selectionVars == <<strategy, tick, health, bucket, used, cursor, request, attempts, passed>>

Pooled == 1 .. PoolSize
Nobody == 0
NewRequest == [chosen |-> Nobody, tried |-> {}, over |-> Pooled]
Strategies == {"hybrid", "sticky", "round-robin", "least-recently-used"}

\* The defaults of ScoringConfig.
Initial == 70
MinUsable == 50
HealthMax == 100
SwitchThreshold == 1000

SelectionInit ==
    /\ strategy = "unset" /\ tick = 0 /\ attempts = 0 /\ cursor = Nobody /\ request = NewRequest
    /\ health = [a \in Pooled |-> [score |-> Initial, at |-> 0]]
    /\ bucket = [a \in Pooled |-> [tokens |-> TokenMax, at |-> 0]]
    /\ used = [a \in Pooled |-> [tick |-> 0, order |-> 0]]
    /\ passed = [a \in Pooled |-> 0]

Configure ==
    /\ strategy = "unset"
    /\ strategy' \in Strategies
    /\ UNCHANGED <<tick, health, bucket, used, cursor, request, attempts, passed>>

AtMost(n, bound) == IF n < bound THEN n ELSE bound

\* health_of: a point comes back each half hour.
HealthOf(a) == AtMost(health[a].score + (tick - health[a].at), HealthMax)

\* tokens_of: six a minute fill any bucket in half an hour.
TokensOf(a) == IF tick > bucket[a].at THEN TokenMax ELSE bucket[a].tokens

\* score_all, in tenths: rest counts for an hour at most.
Total(a) ==
    20 * HealthOf(a) + (5000 * TokensOf(a)) \div TokenMax + AtMost(1800 * (tick - used[a].tick), 3600)

Healthy(a) == HealthOf(a) >= MinUsable

\* max_by takes the last of equals.
Best(able) ==
    CHOOSE a \in able : \A b \in able : Total(b) < Total(a) \/ (Total(b) = Total(a) /\ b <= a)

\* The incumbent stays until a rival beats it by a clear margin.
Hybrid(able) ==
    IF cursor \in able /\ Total(Best(able)) - Total(cursor) < SwitchThreshold THEN cursor ELSE Best(able)

Sticky(able) == IF cursor \in able THEN cursor ELSE Best(able)

\* The distance of an account from the first place to look at.
Distance(candidates, start, a) == IF a >= start THEN a - start ELSE a - start + PoolSize

\* Mutant of RoundRobin: the search begins at the cursor.
RoundRobinFromCursor(candidates, able) ==
    CHOOSE a \in able : \A b \in able :
        Distance(candidates, AtMost(cursor, PoolSize), a) <= Distance(candidates, AtMost(cursor, PoolSize), b)

\* The first one able after the cursor, from the first of all when the cursor is
\* not among the candidates.
RoundRobin(candidates, able) ==
    LET start == IF cursor \in candidates THEN cursor + 1 ELSE 1
    IN CHOOSE a \in able : \A b \in able : Distance(candidates, start, a) <= Distance(candidates, start, b)

\* Oldest first, then the healthier, then the first.
LeastRecentlyUsed(able) ==
    CHOOSE a \in able : \A b \in able :
        \/ used[a].order < used[b].order
        \/ used[a].order = used[b].order /\ HealthOf(a) > HealthOf(b)
        \/ used[a].order = used[b].order /\ HealthOf(a) = HealthOf(b) /\ a <= b

Chosen(candidates, able) ==
    CASE strategy = "hybrid"              -> Hybrid(able)
      [] strategy = "sticky"              -> Sticky(able)
      [] strategy = "round-robin"         -> RoundRobin(candidates, able)
      [] strategy = "least-recently-used" -> LeastRecentlyUsed(able)

\* select among the accounts not tried yet, some of which the store holds back;
\* an account without a token or below the least health is not chosen.  Without
\* one the request waits or fails.  What is chosen pays a token.
Select ==
    /\ strategy # "unset" /\ request.chosen = Nobody /\ attempts < MaxAttempts
    /\ \E available \in SUBSET (Pooled \ request.tried) :
         LET candidates == Pooled \ request.tried
             able == {a \in available : TokensOf(a) >= 1 /\ Healthy(a)}
         IN IF able = {}
            THEN request' = NewRequest /\ UNCHANGED bucket
            ELSE LET a == Chosen(candidates, able)
                 IN /\ request' = [request EXCEPT !.chosen = a, !.over = (@ \cap able) \ {a}]
                    /\ bucket' = [bucket EXCEPT ![a] = [tokens |-> TokensOf(a) - 1, at |-> tick]]
    /\ UNCHANGED <<strategy, tick, health, used, cursor, attempts, passed>>

\* adjust_health.
Adjusted(a, points) ==
    LET score == HealthOf(a) + points
    IN [health EXCEPT ![a] = [score |-> AtMost(IF score < 0 THEN 0 ELSE score, HealthMax), at |-> tick]]

\* record_success: health, cursor and last use.
Served ==
    /\ request.chosen # Nobody
    /\ LET a == request.chosen
       IN /\ health' = Adjusted(a, 1)
          /\ cursor' = a
          /\ used' = [used EXCEPT ![a] = [tick |-> tick, order |-> attempts + 1]]
          /\ passed' = [b \in Pooled |-> IF b \in request.over THEN passed[b] + 1 ELSE 0]
    /\ attempts' = attempts + 1
    /\ request' = NewRequest
    /\ UNCHANGED <<strategy, tick, bucket>>

\* refund_token.
Refunded(a) == [bucket EXCEPT ![a] = [tokens |-> AtMost(TokensOf(a) + 1, TokenMax), at |-> tick]]

\* record_failure takes 20 points, and gives the token back when the network failed;
\* capacity, spent quota and refusals leave the health.  The next account is tried.
Failed ==
    /\ request.chosen # Nobody
    /\ \/ UNCHANGED <<health, bucket>>
       \/ /\ health' = Adjusted(request.chosen, -20)
          /\ bucket' \in {bucket, Refunded(request.chosen)}
    /\ request' = [request EXCEPT !.chosen = Nobody, !.tried = @ \cup {request.chosen}]
    /\ attempts' = attempts + 1
    /\ UNCHANGED <<strategy, tick, used, cursor, passed>>

\* record_verification_recovery, after a check.
Recovered(a) ==
    /\ strategy # "unset" /\ HealthOf(a) < MinUsable
    /\ health' = [health EXCEPT ![a] = [score |-> HealthMax, at |-> tick]]
    /\ UNCHANGED <<strategy, tick, bucket, used, cursor, request, attempts, passed>>

HalfHour ==
    /\ strategy # "unset" /\ tick < LastTick
    /\ tick' = tick + 1
    /\ UNCHANGED <<strategy, health, bucket, used, cursor, request, attempts, passed>>

SelectionNext ==
    \/ Configure \/ Select \/ Served \/ Failed \/ HalfHour
    \/ \E a \in Pooled : Recovered(a)

SelectionSpec == SelectionInit /\ [][SelectionNext]_selectionVars

-----------------------------------------------------------------------------
(* Properties *)

\* Rotation reaches everyone: with round-robin or least-recently-used, an account
\* able at every attempt of the requests is passed over at most once by each of
\* the others before its turn comes, whichever of them fail, rest or are held.
RotationIsFair ==
    strategy \in {"round-robin", "least-recently-used"} => \A a \in Pooled : passed[a] < PoolSize
=============================================================================
