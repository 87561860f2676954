------------------------------- MODULE Signatures -------------------------------
(***************************************************************************)
(* The thought signatures the gateway keeps for its clients                *)
(* (transform/signature_cache.rs): two bounded maps with expiry, one by    *)
(* tool call and one by conversation, under one mutex.  A writer reads the *)
(* clock before it takes the mutex, so entries arrive out of order.        *)
(***************************************************************************)
EXTENDS Integers, FiniteSets

CONSTANTS
    Writers,         \* requests that capture signatures
    Calls,           \* tool call ids handed to clients
    Conversations,   \* session keys
    Families,        \* ModelFamily
    MaxEntries,      \* MAX_ENTRIES
    SignatureLife,   \* TTL
    LastInstant      \* bound: the clock stops there

ASSUME SignaturesAssumption ==
    MaxEntries \in Nat \ {0} /\ SignatureLife \in Nat \ {0} /\ LastInstant \in Nat

VARIABLES
    instant,         \* the clock
    byToolCall,      \* Inner::by_tool_call
    bySession,       \* Inner::by_session
    writer,          \* the entry each writer is about to insert, or none
    latest,          \* history: the last entry inserted for each key since the last clear
    newest           \* history: the latest time inserted for each key since the last clear

signatureVars == <<instant, byToolCall, bySession, writer, latest, newest>>

Keys == Calls \cup Conversations
Never == -1
NoEntry == [family |-> "none", inserted |-> Never]
Empty(keys) == [k \in keys |-> NoEntry]

SignaturesInit ==
    /\ instant = 0
    /\ byToolCall = Empty(Calls) /\ bySession = Empty(Conversations)
    /\ writer = [w \in Writers |-> <<>>]
    /\ latest = Empty(Keys) /\ newest = [k \in Keys |-> Never]

Held(map) == {k \in DOMAIN map : map[k] # NoEntry}

Without(map, k) == [map EXCEPT ![k] = NoEntry]

\* Inner::prune, first half: retain.
Alive(map, now) ==
    [k \in DOMAIN map |-> IF now - map[k].inserted < SignatureLife THEN map[k] ELSE NoEntry]

\* Mutant of Evicted: the entry just inserted may be the one that goes.
EvictedAny(map) ==
    IF Cardinality(Held(map)) <= MaxEntries THEN {map} ELSE {Without(map, k) : k \in Held(map)}

\* Inner::prune, second half: an insertion puts a map at most one above the
\* bound, and a key with the least time goes, whichever the hash map yields first.
Evicted(map) ==
    IF Cardinality(Held(map)) <= MaxEntries
    THEN {map}
    ELSE {Without(map, k) : k \in {k \in Held(map) :
                                     \A j \in Held(map) : map[k].inserted <= map[j].inserted}}

Prune(toolCalls, sessions, now) ==
    /\ byToolCall' \in Evicted(Alive(toolCalls, now))
    /\ bySession' \in Evicted(Alive(sessions, now))

\* put, up to the lock: implausibly short signatures are refused before.
ReadClock(w) ==
    /\ writer[w] = <<>>
    /\ \E k \in Keys, f \in Families :
          writer' = [writer EXCEPT ![w] = <<k, [family |-> f, inserted |-> instant]>>]
    /\ UNCHANGED <<instant, byToolCall, bySession, latest, newest>>

Put(map, k, entry) == IF k \in DOMAIN map THEN [map EXCEPT ![k] = entry] ELSE map

\* put_tool, put_thinking: insert under the lock, then prune both maps.
Insert(w) ==
    /\ writer[w] # <<>>
    /\ LET k == writer[w][1]
           entry == writer[w][2]
       IN /\ Prune(Put(byToolCall, k, entry), Put(bySession, k, entry), entry.inserted)
          /\ latest' = [latest EXCEPT ![k] = entry]
          /\ newest' = [newest EXCEPT ![k] = IF @ < entry.inserted THEN entry.inserted ELSE @]
    /\ writer' = [writer EXCEPT ![w] = <<>>]
    /\ UNCHANGED instant

\* lookup prunes, then answers Usable, ForeignFamily or Missing.
LookUpSignature ==
    /\ Prune(byToolCall, bySession, instant)
    /\ UNCHANGED <<instant, writer, latest, newest>>

Answer(map, k, target) ==
    CASE Alive(map, instant)[k] = NoEntry -> "missing"
      [] map[k].family # target -> "foreign"
      [] OTHER -> "usable"

\* clear, called by /refresh-token.
ForgetSignatures ==
    /\ byToolCall' = Empty(Calls) /\ bySession' = Empty(Conversations)
    /\ latest' = Empty(Keys) /\ newest' = [k \in Keys |-> Never]
    /\ UNCHANGED <<instant, writer>>

InstantPasses ==
    /\ instant < LastInstant
    /\ instant' = instant + 1
    /\ UNCHANGED <<byToolCall, bySession, writer, latest, newest>>

SignaturesNext ==
    \/ \E w \in Writers : ReadClock(w) \/ Insert(w)
    \/ LookUpSignature \/ ForgetSignatures \/ InstantPasses

SignaturesSpec == SignaturesInit /\ [][SignaturesNext]_signatureVars

-----------------------------------------------------------------------------
(* Properties *)

Bounded(map) == Cardinality(Held(map)) <= MaxEntries

\* A signature comes back to the model family that made it until its life is
\* over, or as many other keys of the same map as fit in were written no earlier:
\* a client's tool loop does not lose its signature to the pruning of its own or
\* of another request's.
KeepsTheNewest(map) ==
    \A k \in DOMAIN map :
        /\ latest[k] # NoEntry /\ instant - latest[k].inserted < SignatureLife
        /\ Cardinality({j \in DOMAIN map \ {k} : newest[j] >= latest[k].inserted}) < MaxEntries
        => Answer(map, k, latest[k].family) = "usable"

\* Both maps keep the newest entries, and no more than the bound.
SignaturesComeBack ==
    \A map \in {byToolCall, bySession} : Bounded(map) /\ KeepsTheNewest(map)
=============================================================================
