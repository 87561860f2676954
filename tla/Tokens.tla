--------------------------------- MODULE Tokens ---------------------------------
(***************************************************************************)
(* The cache of access tokens (engine/credentials.rs).  A request that     *)
(* finds no usable token waits at the refresh gate, a fair mutex shared by *)
(* all accounts, looks again, and asks the token endpoint.  An operator    *)
(* may drop the tokens at any time (/refresh-token).                       *)
(***************************************************************************)
EXTENDS Integers, Sequences, FiniteSets

CONSTANTS
    Tasks,           \* requests being prepared
    Owners,          \* accounts
    ExpiresIn,       \* what the token endpoint may say of a token's life
    DefaultLife,     \* DEFAULT_EXPIRES_IN_SECS
    Buffer,          \* TOKEN_EXPIRY_BUFFER_SECS
    LastTime,        \* bound: the clock stops there
    MaxClears        \* bound: calls of /refresh-token

ASSUME TokensAssumption ==
    /\ ExpiresIn \subseteq Int /\ DefaultLife \in Nat \ {0} /\ Buffer \in Nat
    /\ LastTime \in Nat /\ MaxClears \in Nat /\ Owners # {}

VARIABLES
    clock,
    tokens,      \* CredentialCache::tokens; history: the clears before each was asked for
    gate,        \* the task that holds refresh_gate, and those waiting for it in turn
    task,        \* where each task is
    clears       \* history: how often the tokens were dropped

tokenVars == <<clock, tokens, gate, task, clears>>

NoToken == [until |-> 0, clears |-> 0]

Steps == {"idle", "gate", "refresh", "ready", "failed"}

TokensInit ==
    /\ clock = 0 /\ clears = 0
    /\ tokens = [o \in Owners |-> NoToken]
    /\ gate = <<>>
    /\ task = [t \in Tasks |->
                  [pc |-> "idle", owner |-> CHOOSE o \in Owners : TRUE, asked |-> 0, clears |-> 0]]

\* CachedToken::is_valid.
Usable(token) == clock < token.until - Buffer

At(t, pc) == task[t].pc = pc

\* Where a task goes; asked and clears count only while it asks for a token.
Moves(t, pc, o, asked, c) ==
    task' = [task EXCEPT ![t] = [pc |-> pc, owner |-> o, asked |-> asked, clears |-> c]]

\* A task that has passed the gate leaves access_token and drops the guard.
Leave(t, pc) ==
    /\ Moves(t, pc, task[t].owner, 0, 0)
    /\ gate' = Tail(gate)

\* A request comes, for any account.  What was cached is returned; otherwise the
\* task waits for the gate.
Ask(t) ==
    /\ task[t].pc \in {"idle", "ready", "failed"}
    /\ \E o \in Owners :
         /\ Moves(t, IF Usable(tokens[o]) THEN "ready" ELSE "gate", o, 0, 0)
         /\ gate' = IF Usable(tokens[o]) THEN gate ELSE Append(gate, t)
    /\ UNCHANGED <<clock, tokens, clears>>

Request(t) ==
    /\ Moves(t, "refresh", task[t].owner, clock, clears)
    /\ UNCHANGED gate

\* Mutant of EnterGate: the cache is not read again behind the gate.
EnterGateBlindly(t) ==
    /\ At(t, "gate") /\ Head(gate) = t
    /\ Request(t)
    /\ UNCHANGED <<clock, tokens, clears>>

\* Mutant of EnterGate: nobody waits for the gate.
EnterBesideGate(t) ==
    /\ At(t, "gate")
    /\ IF Usable(tokens[task[t].owner]) THEN Leave(t, "ready") ELSE Request(t)
    /\ UNCHANGED <<clock, tokens, clears>>

\* Behind the gate: what an earlier task fetched is used, and the gate passed on.
EnterGate(t) ==
    /\ At(t, "gate") /\ Head(gate) = t
    /\ IF Usable(tokens[task[t].owner]) THEN Leave(t, "ready") ELSE Request(t)
    /\ UNCHANGED <<clock, tokens, clears>>

\* TokenResponse::expires_at counts from before the request was sent.
ExpiresAt(asked, life) == asked + IF life > 0 THEN life ELSE DefaultLife

Refreshed(t) ==
    /\ At(t, "refresh")
    /\ \E life \in ExpiresIn :
          tokens' = [tokens EXCEPT ![task[t].owner] =
                        [until |-> ExpiresAt(task[t].asked, life), clears |-> task[t].clears]]
    /\ Leave(t, "ready")
    /\ UNCHANGED <<clock, clears>>

\* Mutant of RefreshFails: an error leaves the gate locked.
RefreshFailsInside(t) ==
    /\ At(t, "refresh")
    /\ Moves(t, "failed", task[t].owner, 0, 0)
    /\ UNCHANGED <<clock, tokens, gate, clears>>

RefreshFails(t) ==
    /\ At(t, "refresh")
    /\ Leave(t, "failed")
    /\ UNCHANGED <<clock, tokens, clears>>

\* CredentialCache::clear, called by /refresh-token.
ClearTokens ==
    /\ clears < MaxClears
    /\ tokens' = [o \in Owners |-> NoToken]
    /\ clears' = clears + 1
    /\ UNCHANGED <<clock, gate, task>>

Advance ==
    /\ clock < LastTime
    /\ clock' = clock + 1
    /\ UNCHANGED <<tokens, gate, task, clears>>

TokensNext ==
    \/ \E t \in Tasks : Ask(t) \/ EnterGate(t) \/ Refreshed(t) \/ RefreshFails(t)
    \/ ClearTokens \/ Advance

TokensSpec == TokensInit /\ [][TokensNext]_tokenVars

\* The client of the token endpoint has a timeout, and the gate is fair.
TokensSteps(t) == Refreshed(t) \/ RefreshFails(t)

-----------------------------------------------------------------------------
(* Properties *)

TaskRecords ==
    [Tasks -> [pc : Steps, owner : Owners, asked : 0 .. LastTime, clears : 0 .. MaxClears]]

\* Types and bounds.
TokensTypeOK ==
    /\ clock \in 0 .. LastTime /\ clears \in 0 .. MaxClears
    /\ tokens \in [Owners -> [until : Nat, clears : 0 .. MaxClears]]
    /\ gate \in Seq(Tasks)
    /\ task \in TaskRecords

\* Clients that arrive at once with a cold cache produce one token request: no
\* task asks for a token of an account that has a usable one, and no two tasks
\* ask at once.
OneRefresh ==
    /\ \A t \in Tasks : At(t, "refresh") => ~Usable(tokens[task[t].owner])
    /\ \A t, u \in Tasks : At(t, "refresh") /\ At(u, "refresh") => t = u

Old(o) == tokens[o] # NoToken /\ tokens[o].clears < clears

\* /refresh-token answers that "access tokens ... will be refetched" (admin.rs:267).
\* That is not kept: clear does not stop a refresh under way, whose answer is
\* cached after the clear and used for the rest of its life.  What the gate bounds
\* is the breach: one refresh is under way at most, so whenever the clear comes,
\* one account at most keeps a token asked for before it.
ClearLeavesOneOldToken == \A o, p \in Owners : Old(o) /\ Old(p) => o = p

\* Whoever waits at the gate gets a token or an error, although a refresh of
\* any account, and any failure of one, goes before.
GateIsPassedOn == \A t \in Tasks : At(t, "gate") ~> task[t].pc \in {"ready", "failed"}
=============================================================================
