-------------------------------- MODULE Sessions --------------------------------
(***************************************************************************)
(* The conversations the gateway pretends to have with the upstream        *)
(* (upstream/metadata.rs): a bounded store by session key, touched by      *)
(* every request under a mutex.  Ids are fresh numbers.  The wall clock    *)
(* may be set back.                                                        *)
(***************************************************************************)
EXTENDS Integers, Sequences, FiniteSets

CONSTANTS
    SessionKeys,
    MaxSessions,     \* MAX_SESSIONS
    SessionLife,     \* SESSION_TTL
    LastWall,        \* bound of the wall clock
    MaxRequests      \* bound: calls of begin_request

ASSUME SessionsAssumption ==
    /\ MaxSessions \in Nat \ {0} /\ SessionLife \in Nat \ {0}
    /\ LastWall \in Nat /\ MaxRequests \in Nat

VARIABLES
    wall,            \* the wall clock
    sessions,        \* SessionStore::sessions
    issued,          \* history: the request ids and labels sent, in order
    conversations    \* how many conversation ids were drawn

sessionVars == <<wall, sessions, issued, conversations>>

NoSession == [conversation |-> 0, accessed |-> 0, last |-> 0, executed |-> FALSE, claude |-> FALSE]

SessionsInit ==
    /\ wall = 1 /\ conversations = 0 /\ issued = <<>>
    /\ sessions = [k \in SessionKeys |-> NoSession]

Open(store) == {k \in SessionKeys : store[k] # NoSession}

\* retain: an idle time below zero, after the clock was set back, keeps a session.
Live ==
    [k \in SessionKeys |-> IF wall - sessions[k].accessed < SessionLife THEN sessions[k] ELSE NoSession]

\* At the bound the least recently touched session makes room for another key.
Room(store, key) ==
    IF Cardinality(Open(store)) < MaxSessions \/ store[key] # NoSession
    THEN {store}
    ELSE {[store EXCEPT ![k] = NoSession] :
            k \in {k \in Open(store) : \A j \in Open(store) : store[k].accessed <= store[j].accessed}}

\* Mutant of Timestamp: the clock alone.
TimestampOfClock(session) == wall

Larger(a, b) == IF a < b THEN b ELSE a

\* Timestamps must strictly increase within a session.
Timestamp(session) == Larger(wall, session.last + 1)

\* begin_request, with the family of the model it is for.
BeginRequest(key, isClaude) ==
    /\ Len(issued) < MaxRequests
    /\ \E store \in Room(Live, key) :
         LET new == store[key] = NoSession
             session == IF new THEN [NoSession EXCEPT !.conversation = conversations + 1] ELSE store[key]
             at == Timestamp(session)
         IN /\ sessions' = [store EXCEPT ![key] =
                  [session EXCEPT !.accessed = wall, !.last = at, !.claude = @ \/ isClaude]]
            /\ conversations' = IF new THEN conversations + 1 ELSE conversations
            /\ issued' = Append(issued, [key |-> key, conversation |-> session.conversation, at |-> at,
                                         claude |-> session.claude \/ isClaude])
    /\ UNCHANGED wall

\* complete_execution: the next turn reports it; a session gone meanwhile stays gone.
CompleteExecution(key) ==
    /\ sessions[key] # NoSession
    /\ sessions' = [sessions EXCEPT ![key].executed = TRUE]
    /\ UNCHANGED <<wall, issued, conversations>>

\* clear, called by /refresh-token.
ForgetSessions ==
    /\ sessions' = [k \in SessionKeys |-> NoSession]
    /\ UNCHANGED <<wall, issued, conversations>>

SetClock ==
    /\ \E w \in {wall - 1, wall + 1} \cap 1 .. LastWall : wall' = w
    /\ UNCHANGED <<sessions, issued, conversations>>

SessionsNext ==
    \/ \E key \in SessionKeys, isClaude \in BOOLEAN : BeginRequest(key, isClaude)
    \/ \E key \in SessionKeys : CompleteExecution(key)
    \/ ForgetSessions \/ SetClock

SessionsSpec == SessionsInit /\ [][SessionsNext]_sessionVars

-----------------------------------------------------------------------------
(* Properties *)

\* No two requests carry the same id, although the clock may stand still or be
\* set back, and a session may be evicted, expire or be cleared in between; and
\* within a conversation the timestamps grow and a label once true stays true.
RequestIdsGrow ==
    \A i \in DOMAIN issued, j \in DOMAIN issued :
        /\ i < j /\ issued[i].conversation = issued[j].conversation
        => /\ issued[i].key = issued[j].key
           /\ issued[i].at < issued[j].at
           /\ issued[i].claude => issued[j].claude
=============================================================================
