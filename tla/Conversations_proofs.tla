------------------------ MODULE Conversations_proofs ------------------------
(***************************************************************************)
(* Proofs about conversations.  What is kept between requests: Signatures, *)
(* for any bound and life of the entries and any writers, tool calls and   *)
(* conversations, be they infinitely many; and Sessions, for any number of *)
(* sessions, any bound of the store, any life of a session and any         *)
(* behaviour of the wall clock; and Audit, for any number of records.      *)
(* What is sent: Requests, for any calls and schemas, any limits, and      *)
(* conversations of any length.                                            *)
(***************************************************************************)
EXTENDS Signatures, Sessions, Audit, Requests, TLAPS, SequenceTheorems, FiniteSetTheorems,
        WellFoundedInduction

-----------------------------------------------------------------------------
(* SIGNATURES *)

Entries == [family : Families, inserted : Nat]

Cached == Entries \cup {NoEntry}

\* The keys other than k written no earlier than its last entry, of those in `keys`.
NoEarlier(keys, l, n, k) == {j \in keys \ {k} : n[j] >= l[k].inserted}

\* One map, whose keys were last written as in l, and never later than n, at
\* time now: it holds nothing but the last entries, and all those that are alive
\* and among the newest.
Keeps(map, keys, l, n, now) ==
    /\ map \in [keys -> Cached] /\ IsFiniteSet(Held(map))
    /\ \A k \in keys : map[k] # NoEntry => map[k] = l[k]
    /\ \A k \in keys : /\ l[k] # NoEntry /\ now - l[k].inserted < SignatureLife
                       /\ Cardinality(NoEarlier(keys, l, n, k)) < MaxEntries
                       => map[k] = l[k]

Sound(map, keys, l, n, now) == Keeps(map, keys, l, n, now) /\ Bounded(map)

\* Between an insertion and the pruning there may be one entry more.
Full(map, keys, l, n, now) ==
    Keeps(map, keys, l, n, now) /\ Cardinality(Held(map)) <= MaxEntries + 1

\* What the history says of itself; only finitely many keys were ever written.
Recorded(l, n) ==
    /\ l \in [Keys -> Cached] /\ n \in [Keys -> Nat \cup {Never}]
    /\ \A k \in Keys : l[k].inserted <= n[k]
    /\ IsFiniteSet({k \in Keys : n[k] # Never})

\* A writer's entry carries the time it read, which is past by now.
WritersInv ==
    /\ instant \in Nat
    /\ writer \in [Writers -> {<<>>} \cup (Keys \X Entries)]
    /\ \A w \in Writers : writer[w] # <<>> => writer[w][2].inserted <= instant

SignaturesInv ==
    /\ WritersInv
    /\ Recorded(latest, newest)
    /\ Sound(byToolCall, Calls, latest, newest, instant)
    /\ Sound(bySession, Conversations, latest, newest, instant)

-----------------------------------------------------------------------------
(* Entries and histories *)

LEMMA EntryTimes ==
    /\ NoEntry \notin Entries
    /\ \A e \in Cached : e.inserted \in Int /\ e.inserted >= Never
    /\ \A e \in Cached : e # NoEntry => e \in Entries /\ e.inserted \in Nat
BY DEF Entries, Cached, NoEntry, Never

\* No more keys count than were written, so they can be counted.
LEMMA NoEarlierIsFinite ==
    ASSUME NEW l, NEW n, Recorded(l, n), NEW keys \in SUBSET Keys,
           NEW k \in Keys, l[k] # NoEntry
    PROVE  IsFiniteSet(NoEarlier(keys, l, n, k))
<1>1. l[k].inserted \in Nat
  BY EntryTimes DEF Recorded
<1>2. NoEarlier(keys, l, n, k) \subseteq {j \in Keys : n[j] # Never}
  BY <1>1 DEF NoEarlier, Recorded, Never
<1> QED BY <1>2, FS_Subset DEF Recorded

-----------------------------------------------------------------------------
(* Pruning *)

\* The other entries of a map that are no older than that of k.
NoOlder(map, k) == {j \in Held(map) \ {k} : map[j].inserted >= map[k].inserted}

\* An entry goes from a map because it is too old, or because the map was full
\* of others no older.
LEMMA PruneKeeps ==
    ASSUME NEW keys, NEW map \in [keys -> Cached], NEW now \in Nat,
           IsFiniteSet(Held(map)), Cardinality(Held(map)) <= MaxEntries + 1,
           NEW kept \in Evicted(Alive(map, now))
    PROVE  /\ kept \in [keys -> Cached]
           /\ \A k \in keys : kept[k] = map[k] \/ kept[k] = NoEntry
           /\ IsFiniteSet(Held(kept)) /\ Bounded(kept)
           /\ \A k \in keys :
                 /\ map[k] # NoEntry /\ kept[k] = NoEntry
                 /\ now - map[k].inserted < SignatureLife
                 => Cardinality(NoOlder(map, k)) >= MaxEntries
<1> DEFINE alive == Alive(map, now)
<1>1. DOMAIN map = keys /\ MaxEntries \in Nat
  BY SignaturesAssumption
<1>2. /\ alive \in [keys -> Cached]
      /\ \A k \in keys : alive[k] = map[k] \/ alive[k] = NoEntry
      /\ \A k \in keys : now - map[k].inserted < SignatureLife => alive[k] = map[k]
  BY <1>1 DEF Alive, Cached
<1>3. Held(alive) \subseteq Held(map) /\ Held(map) \subseteq keys
  BY <1>1, <1>2 DEF Held
<1>4. /\ IsFiniteSet(Held(alive)) /\ Cardinality(Held(alive)) \in Nat
      /\ Cardinality(Held(map)) \in Nat
      /\ Cardinality(Held(alive)) <= Cardinality(Held(map))
  BY <1>3, FS_Subset, FS_CardinalityType
<1> HIDE DEF alive
<1>5. CASE Cardinality(Held(alive)) <= MaxEntries
  <2>1. kept = alive
    BY <1>5 DEF Evicted, alive
  <2> QED BY <1>2, <1>4, <1>5, <2>1 DEF Bounded
<1>6. CASE Cardinality(Held(alive)) > MaxEntries
  <2>1. ~(Cardinality(Held(alive)) <= MaxEntries)
    BY <1>1, <1>4, <1>6
  <2>2. PICK e \in Held(alive) : /\ \A j \in Held(alive) : alive[e].inserted <= alive[j].inserted
                                 /\ kept = [alive EXCEPT ![e] = NoEntry]
    BY <2>1 DEF Evicted, Without, alive
  <2>3. e \in keys /\ kept \in [keys -> Cached]
    BY <1>2, <1>3, <2>2 DEF Cached
  <2>4. Held(kept) = Held(alive) \ {e}
    BY <1>2, <2>2, <2>3 DEF Held
  <2>5. IsFiniteSet(Held(kept)) /\ Cardinality(Held(kept)) = MaxEntries
    <3>1. Cardinality(Held(alive)) = MaxEntries + 1
      BY <1>1, <1>4, <1>6
    <3>2. /\ IsFiniteSet(Held(alive) \ {e})
          /\ Cardinality(Held(alive) \ {e}) = Cardinality(Held(alive)) - 1
      BY <1>4, <2>2, FS_RemoveElement
    <3> QED BY <1>1, <2>4, <3>1, <3>2
  <2>6. \A k \in keys : kept[k] = map[k] \/ kept[k] = NoEntry
    BY <1>2, <2>2, <2>3
  <2>7. ASSUME NEW k \in keys, map[k] # NoEntry, kept[k] = NoEntry,
               now - map[k].inserted < SignatureLife
        PROVE  Cardinality(NoOlder(map, k)) >= MaxEntries
    <3>1. alive[k] = map[k] /\ k = e
      BY <1>2, <2>2, <2>3, <2>7
    <3>2. ASSUME NEW j \in Held(kept) PROVE j \in NoOlder(map, k)
      <4>1. j \in keys /\ j # k /\ j \in Held(map) /\ alive[j] = map[j]
        BY <1>2, <1>3, <2>4, <3>1 DEF Held
      <4>2. map[k].inserted <= map[j].inserted
        BY <2>2, <2>4, <3>1, <3>2, <4>1
      <4>3. map[k].inserted \in Int /\ map[j].inserted \in Int
        BY <4>1, EntryTimes
      <4> QED BY <4>1, <4>2, <4>3 DEF NoOlder
    <3>3. NoOlder(map, k) \subseteq Held(map) /\ Held(kept) \subseteq NoOlder(map, k)
      BY <3>2 DEF NoOlder
    <3>4. IsFiniteSet(NoOlder(map, k))
      BY <3>3, FS_Subset
    <3>5. Cardinality(NoOlder(map, k)) \in Nat
      BY <3>4, FS_CardinalityType
    <3>6. Cardinality(Held(kept)) <= Cardinality(NoOlder(map, k))
      BY <3>3, <3>4, FS_Subset
    <3> QED BY <1>1, <1>4, <2>5, <3>5, <3>6
  <2> QED BY <1>1, <2>3, <2>5, <2>6, <2>7 DEF Bounded
<1> QED BY <1>1, <1>4, <1>5, <1>6

\* Pruning at a time that is past by now.
LEMMA PruneSound ==
    ASSUME NEW keys \in SUBSET Keys, NEW l, NEW n, Recorded(l, n), NEW now \in Nat,
           NEW map, Full(map, keys, l, n, now),
           NEW t \in Nat, t <= now, NEW kept \in Evicted(Alive(map, t))
    PROVE  Sound(kept, keys, l, n, now)
<1>1. map \in [keys -> Cached] /\ IsFiniteSet(Held(map)) /\ Cardinality(Held(map)) <= MaxEntries + 1
  BY DEF Full, Keeps
<1>2. /\ kept \in [keys -> Cached]
      /\ \A k \in keys : kept[k] = map[k] \/ kept[k] = NoEntry
      /\ IsFiniteSet(Held(kept)) /\ Bounded(kept)
  BY <1>1, PruneKeeps
<1>3. \A k \in keys : map[k] # NoEntry /\ kept[k] = NoEntry /\ t - map[k].inserted < SignatureLife
                         => Cardinality(NoOlder(map, k)) >= MaxEntries
  BY <1>1, PruneKeeps
<1>4. ASSUME NEW k \in keys, l[k] # NoEntry, now - l[k].inserted < SignatureLife,
             Cardinality(NoEarlier(keys, l, n, k)) < MaxEntries
      PROVE  kept[k] = l[k]
  <2>1. map[k] = l[k] /\ l[k].inserted \in Nat /\ k \in Keys
    BY <1>4, EntryTimes DEF Full, Keeps, Recorded
  <2>2. t - map[k].inserted < SignatureLife
    BY <1>4, <2>1, SignaturesAssumption
  <2>3. NoOlder(map, k) \subseteq NoEarlier(keys, l, n, k)
    <3> SUFFICES ASSUME NEW j \in NoOlder(map, k) PROVE j \in NoEarlier(keys, l, n, k)
      OBVIOUS
    <3>1. j \in keys \ {k} /\ map[j] # NoEntry /\ map[j].inserted >= map[k].inserted
      BY <1>1 DEF NoOlder, Held
    <3>2. map[j] = l[j] /\ l[j].inserted <= n[j] /\ l[j].inserted \in Nat /\ n[j] \in Int
      BY <3>1, EntryTimes DEF Full, Keeps, Recorded, Never
    <3> QED BY <2>1, <3>1, <3>2 DEF NoEarlier
  <2>4. IsFiniteSet(NoEarlier(keys, l, n, k))
    BY <1>4, <2>1, NoEarlierIsFinite
  <2>5. /\ Cardinality(NoOlder(map, k)) <= Cardinality(NoEarlier(keys, l, n, k))
        /\ Cardinality(NoEarlier(keys, l, n, k)) \in Nat /\ Cardinality(NoOlder(map, k)) \in Nat
    BY <2>3, <2>4, FS_Subset, FS_CardinalityType
  <2>6. ~(Cardinality(NoOlder(map, k)) >= MaxEntries)
    BY <1>4, <2>5, SignaturesAssumption
  <2> QED BY <1>2, <1>3, <1>4, <2>1, <2>2, <2>6
<1>5. \A k \in keys : kept[k] # NoEntry => kept[k] = l[k]
  BY <1>2 DEF Full, Keeps
<1> QED BY <1>2, <1>4, <1>5 DEF Sound, Keeps

-----------------------------------------------------------------------------
(* Insertion *)

LastIs(l, k, e) == [l EXCEPT ![k] = e]

NewestIs(n, k, e) == [n EXCEPT ![k] = IF @ < e.inserted THEN e.inserted ELSE @]

LEMMA InsertRecorded ==
    ASSUME NEW l, NEW n, Recorded(l, n), NEW k0 \in Keys, NEW e \in Entries
    PROVE  /\ Recorded(LastIs(l, k0, e), NewestIs(n, k0, e))
           /\ \A k \in Keys : NewestIs(n, k0, e)[k] \in Int /\ NewestIs(n, k0, e)[k] >= n[k]
<1>1. e.inserted \in Nat /\ e \in Cached /\ \A k \in Keys : n[k] \in Int
  BY DEF Entries, Cached, Recorded, Never
<1>2. LastIs(l, k0, e) \in [Keys -> Cached] /\ NewestIs(n, k0, e) \in [Keys -> Nat \cup {Never}]
  BY <1>1 DEF LastIs, NewestIs, Recorded
<1>3. \A k \in Keys : /\ NewestIs(n, k0, e)[k] \in Int /\ NewestIs(n, k0, e)[k] >= n[k]
                      /\ LastIs(l, k0, e)[k].inserted <= NewestIs(n, k0, e)[k]
  BY <1>1 DEF LastIs, NewestIs, Recorded
<1>4. {k \in Keys : NewestIs(n, k0, e)[k] # Never} \subseteq {k \in Keys : n[k] # Never} \cup {k0}
  BY DEF NewestIs, Recorded
<1>5. IsFiniteSet({k \in Keys : n[k] # Never} \cup {k0})
  BY FS_AddElement DEF Recorded
<1>6. IsFiniteSet({k \in Keys : NewestIs(n, k0, e)[k] # Never})
  BY <1>4, <1>5, FS_Subset
<1> QED BY <1>2, <1>3, <1>6 DEF Recorded

\* The newest entry of a key is in its map, and pushes the others down by one.
LEMMA InsertFull ==
    ASSUME NEW keys \in SUBSET Keys, NEW l, NEW n, Recorded(l, n), NEW now \in Nat,
           NEW map, Sound(map, keys, l, n, now), NEW k0 \in Keys, NEW e \in Entries
    PROVE  Full(Put(map, k0, e), keys, LastIs(l, k0, e), NewestIs(n, k0, e), now)
<1>1. /\ map \in [keys -> Cached] /\ IsFiniteSet(Held(map))
      /\ Cardinality(Held(map)) \in Nat /\ Cardinality(Held(map)) <= MaxEntries
  BY FS_CardinalityType DEF Sound, Keeps, Bounded
<1>2. /\ Put(map, k0, e) \in [keys -> Cached]
      /\ k0 \in keys => Put(map, k0, e)[k0] = e
      /\ \A k \in keys \ {k0} : Put(map, k0, e)[k] = map[k]
  BY <1>1 DEF Put, Cached
<1>3. Held(Put(map, k0, e)) \subseteq Held(map) \cup {k0}
  BY <1>1, <1>2 DEF Held
<1>4. /\ IsFiniteSet(Held(map) \cup {k0})
      /\ Cardinality(Held(map) \cup {k0}) \in Nat
      /\ Cardinality(Held(map) \cup {k0}) <= Cardinality(Held(map)) + 1
  <2>1. /\ IsFiniteSet(Held(map) \cup {k0})
        /\ Cardinality(Held(map) \cup {k0}) =
              IF k0 \in Held(map) THEN Cardinality(Held(map)) ELSE Cardinality(Held(map)) + 1
    BY <1>1, FS_AddElement
  <2> QED BY <1>1, <2>1
<1>5. /\ IsFiniteSet(Held(Put(map, k0, e)))
      /\ Cardinality(Held(Put(map, k0, e))) \in Nat
      /\ Cardinality(Held(Put(map, k0, e))) <= Cardinality(Held(map) \cup {k0})
  BY <1>3, <1>4, FS_Subset, FS_CardinalityType
<1>6. Cardinality(Held(Put(map, k0, e))) <= MaxEntries + 1
  BY <1>1, <1>4, <1>5, SignaturesAssumption
<1>7. LastIs(l, k0, e)[k0] = e /\ \A k \in keys \ {k0} : LastIs(l, k0, e)[k] = l[k]
  BY DEF LastIs, Recorded
<1>8. ASSUME NEW k \in keys \ {k0}, l[k] # NoEntry,
             Cardinality(NoEarlier(keys, LastIs(l, k0, e), NewestIs(n, k0, e), k)) < MaxEntries
      PROVE  Cardinality(NoEarlier(keys, l, n, k)) < MaxEntries
  <2>1. k \in Keys /\ l[k].inserted \in Nat
    BY <1>8, EntryTimes DEF Recorded
  <2>2. \A j \in keys : /\ n[j] \in Int /\ NewestIs(n, k0, e)[j] \in Int
                        /\ NewestIs(n, k0, e)[j] >= n[j]
    <3>1. \A j \in Keys : n[j] \in Int
      BY DEF Recorded, Never
    <3>2. \A j \in Keys : NewestIs(n, k0, e)[j] \in Int /\ NewestIs(n, k0, e)[j] >= n[j]
      BY InsertRecorded
    <3> QED BY <3>1, <3>2
  <2>3. NoEarlier(keys, l, n, k) \subseteq NoEarlier(keys, LastIs(l, k0, e), NewestIs(n, k0, e), k)
    BY <1>7, <2>1, <2>2 DEF NoEarlier
  <2>4. LastIs(l, k0, e)[k] # NoEntry /\ Recorded(LastIs(l, k0, e), NewestIs(n, k0, e))
    BY <1>7, <1>8, InsertRecorded
  <2>5. IsFiniteSet(NoEarlier(keys, LastIs(l, k0, e), NewestIs(n, k0, e), k))
    BY <2>1, <2>4, NoEarlierIsFinite
  <2>6. IsFiniteSet(NoEarlier(keys, l, n, k))
    BY <2>3, <2>5, FS_Subset
  <2>7. /\ Cardinality(NoEarlier(keys, l, n, k))
             <= Cardinality(NoEarlier(keys, LastIs(l, k0, e), NewestIs(n, k0, e), k))
        /\ Cardinality(NoEarlier(keys, l, n, k)) \in Nat
        /\ Cardinality(NoEarlier(keys, LastIs(l, k0, e), NewestIs(n, k0, e), k)) \in Nat
    BY <2>3, <2>5, <2>6, FS_Subset, FS_CardinalityType
  <2> QED BY <1>8, <2>7, SignaturesAssumption
<1>9. ASSUME NEW k \in keys, LastIs(l, k0, e)[k] # NoEntry,
             now - LastIs(l, k0, e)[k].inserted < SignatureLife,
             Cardinality(NoEarlier(keys, LastIs(l, k0, e), NewestIs(n, k0, e), k)) < MaxEntries
      PROVE  Put(map, k0, e)[k] = LastIs(l, k0, e)[k]
  <2>1. CASE k = k0
    BY <1>2, <1>7, <2>1
  <2>2. CASE k # k0
    BY <1>2, <1>7, <1>8, <1>9, <2>2 DEF Sound, Keeps
  <2> QED BY <2>1, <2>2
<1>10. \A k \in keys : Put(map, k0, e)[k] # NoEntry => Put(map, k0, e)[k] = LastIs(l, k0, e)[k]
  BY <1>2, <1>7 DEF Sound, Keeps
<1> QED BY <1>2, <1>5, <1>6, <1>9, <1>10 DEF Full, Keeps

-----------------------------------------------------------------------------
(* The steps *)

LEMMA KeysAreKeys == Calls \in SUBSET Keys /\ Conversations \in SUBSET Keys
BY DEF Keys

\* A map of which nothing was forgotten, all of it being forgotten.
LEMMA EmptySound ==
    ASSUME NEW keys \in SUBSET Keys, NEW now
    PROVE  /\ Sound(Empty(keys), keys, Empty(Keys), [k \in Keys |-> Never], now)
           /\ Recorded(Empty(Keys), [k \in Keys |-> Never])
<1>1. Held(Empty(keys)) = {} /\ {k \in Keys : [j \in Keys |-> Never][k] # Never} = {}
  BY DEF Held, Empty
<1>2. Empty(keys) \in [keys -> Cached] /\ Empty(Keys) \in [Keys -> Cached]
  BY DEF Empty, Cached
<1>3. \A k \in Keys : Empty(Keys)[k] = NoEntry /\ NoEntry.inserted = Never
  BY DEF Empty, NoEntry
<1>4. \A k \in keys : Empty(keys)[k] = NoEntry
  BY DEF Empty
<1>5. Never \in Int
  BY DEF Never
<1>6. Cardinality(Held(Empty(keys))) = 0 /\ IsFiniteSet(Held(Empty(keys)))
  BY <1>1, FS_EmptySet
<1>7. Sound(Empty(keys), keys, Empty(Keys), [k \in Keys |-> Never], now)
  BY <1>2, <1>3, <1>4, <1>6, SignaturesAssumption DEF Sound, Keeps, Bounded
<1>8. Recorded(Empty(Keys), [k \in Keys |-> Never])
  BY <1>1, <1>2, <1>3, <1>5, FS_EmptySet DEF Recorded
<1> QED BY <1>7, <1>8

LEMMA InitSignatures == SignaturesInit => SignaturesInv
<1> SUFFICES ASSUME SignaturesInit PROVE SignaturesInv OBVIOUS
<1>1. WritersInv
  BY DEF SignaturesInit, WritersInv
<1> QED BY <1>1, EmptySound, KeysAreKeys DEF SignaturesInit, SignaturesInv

\* As time passes, entries only die: a sound map stays sound.
LEMMA TimeKeepsSound ==
    ASSUME NEW keys \in SUBSET Keys, NEW l, NEW n, Recorded(l, n), NEW now \in Nat, NEW map,
           Sound(map, keys, l, n, now)
    PROVE  Sound(map, keys, l, n, now + 1)
<1>1. \A k \in keys : l[k].inserted \in Int
  BY EntryTimes DEF Recorded
<1>2. ASSUME NEW k \in keys, l[k] # NoEntry, (now + 1) - l[k].inserted < SignatureLife,
             Cardinality(NoEarlier(keys, l, n, k)) < MaxEntries
      PROVE  map[k] = l[k]
  <2>1. now - l[k].inserted < SignatureLife
    BY <1>1, <1>2, SignaturesAssumption
  <2> QED BY <1>2, <2>1 DEF Sound, Keeps
<1>3. /\ map \in [keys -> Cached] /\ IsFiniteSet(Held(map)) /\ Bounded(map)
      /\ \A k \in keys : map[k] # NoEntry => map[k] = l[k]
  BY DEF Sound, Keeps
<1>4. \A k \in keys : /\ l[k] # NoEntry /\ (now + 1) - l[k].inserted < SignatureLife
                      /\ Cardinality(NoEarlier(keys, l, n, k)) < MaxEntries
                      => map[k] = l[k]
  BY <1>2
<1> QED BY <1>3, <1>4 DEF Sound, Keeps

\* A sound map is not fuller than before an insertion.
LEMMA SoundIsFull ==
    ASSUME NEW keys, NEW l, NEW n, NEW now, NEW map, Sound(map, keys, l, n, now)
    PROVE  Full(map, keys, l, n, now)
BY FS_CardinalityType, SignaturesAssumption DEF Sound, Full, Keeps, Bounded

LEMMA NextSignatures == SignaturesInv /\ [SignaturesNext]_signatureVars => SignaturesInv'
<1> SUFFICES ASSUME SignaturesInv, [SignaturesNext]_signatureVars PROVE SignaturesInv' OBVIOUS
<1>0. instant \in Nat /\ Recorded(latest, newest) /\ WritersInv
  BY DEF SignaturesInv, WritersInv
<1>1. ASSUME NEW w \in Writers, ReadClock(w) PROVE SignaturesInv'
  <2>1. PICK k \in Keys, f \in Families :
           writer' = [writer EXCEPT ![w] = <<k, [family |-> f, inserted |-> instant]>>]
    BY <1>1 DEF ReadClock
  <2>2. [family |-> f, inserted |-> instant] \in Entries
    BY <1>0 DEF Entries
  <2>3. UNCHANGED <<instant, byToolCall, bySession, latest, newest>>
    BY <1>1 DEF ReadClock
  <2>4. WritersInv'
    BY <1>0, <2>1, <2>2, <2>3 DEF WritersInv
  <2> QED BY <2>3, <2>4 DEF SignaturesInv
\* An insertion fills one map by one, and prunes both at its own time.
<1>2. ASSUME NEW w \in Writers, Insert(w) PROVE SignaturesInv'
  <2> DEFINE k == writer[w][1]
             entry == writer[w][2]
  <2>1. k \in Keys /\ entry \in Entries /\ entry.inserted \in Nat /\ entry.inserted <= instant
    BY <1>0, <1>2 DEF Insert, WritersInv, Entries
  <2>2. /\ byToolCall' \in Evicted(Alive(Put(byToolCall, k, entry), entry.inserted))
        /\ bySession' \in Evicted(Alive(Put(bySession, k, entry), entry.inserted))
        /\ latest' = LastIs(latest, k, entry) /\ newest' = NewestIs(newest, k, entry)
        /\ instant' = instant /\ writer' = [writer EXCEPT ![w] = <<>>]
    BY <1>2 DEF Insert, Prune, LastIs, NewestIs
  <2> HIDE DEF k, entry
  <2>3. Recorded(latest', newest')
    BY <1>0, <2>1, <2>2, InsertRecorded
  <2>4. /\ Full(Put(byToolCall, k, entry), Calls, latest', newest', instant)
        /\ Full(Put(bySession, k, entry), Conversations, latest', newest', instant)
    BY <1>0, <2>1, <2>2, InsertFull, KeysAreKeys DEF SignaturesInv
  <2>5. Sound(byToolCall', Calls, latest', newest', instant)
    BY <1>0, <2>1, <2>2, <2>3, <2>4, PruneSound, KeysAreKeys
  <2>6. Sound(bySession', Conversations, latest', newest', instant)
    BY <1>0, <2>1, <2>2, <2>3, <2>4, PruneSound, KeysAreKeys
  <2>7. WritersInv'
    BY <1>0, <2>2 DEF WritersInv
  <2> QED BY <2>2, <2>3, <2>5, <2>6, <2>7 DEF SignaturesInv
<1>3. CASE LookUpSignature
  <2>1. /\ byToolCall' \in Evicted(Alive(byToolCall, instant))
        /\ bySession' \in Evicted(Alive(bySession, instant))
        /\ UNCHANGED <<instant, writer, latest, newest>>
    BY <1>3 DEF LookUpSignature, Prune
  <2>2. /\ Full(byToolCall, Calls, latest, newest, instant)
        /\ Full(bySession, Conversations, latest, newest, instant)
    BY SoundIsFull DEF SignaturesInv
  <2>3. /\ Sound(byToolCall', Calls, latest, newest, instant)
        /\ Sound(bySession', Conversations, latest, newest, instant)
    BY <1>0, <2>1, <2>2, PruneSound, KeysAreKeys
  <2>4. WritersInv'
    BY <1>0, <2>1 DEF WritersInv
  <2> QED BY <1>0, <2>1, <2>3, <2>4 DEF SignaturesInv
<1>4. CASE ForgetSignatures
  <2>1. WritersInv'
    BY <1>0, <1>4 DEF ForgetSignatures, WritersInv
  <2> QED BY <1>4, <2>1, EmptySound, KeysAreKeys DEF ForgetSignatures, SignaturesInv
<1>5. CASE InstantPasses
  <2>1. instant' = instant + 1 /\ UNCHANGED <<byToolCall, bySession, writer, latest, newest>>
    BY <1>5 DEF InstantPasses
  <2>2. /\ Sound(byToolCall, Calls, latest, newest, instant + 1)
        /\ Sound(bySession, Conversations, latest, newest, instant + 1)
    BY <1>0, TimeKeepsSound, KeysAreKeys DEF SignaturesInv
  <2>3. WritersInv'
    <3>1. \A w \in Writers : writer[w] # <<>> => writer[w][2].inserted \in Nat
      BY <1>0 DEF WritersInv, Entries
    <3> QED BY <1>0, <2>1, <3>1 DEF WritersInv
  <2> QED BY <1>0, <2>1, <2>2, <2>3 DEF SignaturesInv
<1>6. CASE UNCHANGED signatureVars
  BY <1>6 DEF signatureVars, SignaturesInv, WritersInv
<1> QED BY <1>1, <1>2, <1>3, <1>4, <1>5, <1>6 DEF SignaturesNext

\* An entry that is the last of its key, and alive, is what a request gets.
LEMMA SoundAnswers ==
    ASSUME NEW keys \in SUBSET Keys, NEW map, Sound(map, keys, latest, newest, instant),
           Recorded(latest, newest)
    PROVE  Bounded(map) /\ KeepsTheNewest(map)
<1>1. DOMAIN map = keys
  BY DEF Sound, Keeps
<1>2. ASSUME NEW k \in keys, latest[k] # NoEntry, instant - latest[k].inserted < SignatureLife,
             Cardinality({j \in keys \ {k} : newest[j] >= latest[k].inserted}) < MaxEntries
      PROVE  Answer(map, k, latest[k].family) = "usable"
  <2>1. map[k] = latest[k]
    BY <1>2 DEF Sound, Keeps, NoEarlier
  <2>2. Alive(map, instant)[k] = latest[k]
    BY <1>1, <1>2, <2>1 DEF Alive
  <2> QED BY <1>2, <2>1, <2>2 DEF Answer
<1> QED BY <1>1, <1>2 DEF KeepsTheNewest, Sound

\* A signature comes back to the model family that made it until its life is over,
\* or as many other keys of its map as fit in were written no earlier; and neither
\* map outgrows its bound, however late the writers reach the lock.
THEOREM SignaturesKept == SignaturesSpec => []SignaturesComeBack
<1>1. SignaturesInv => SignaturesComeBack
  <2> SUFFICES ASSUME SignaturesInv,
                      NEW map \in {byToolCall, bySession}
               PROVE  Bounded(map) /\ KeepsTheNewest(map)
    BY DEF SignaturesComeBack
  <2>1. CASE map = byToolCall
    BY <2>1, SoundAnswers, KeysAreKeys DEF SignaturesInv
  <2>2. CASE map = bySession
    BY <2>2, SoundAnswers, KeysAreKeys DEF SignaturesInv
  <2> QED BY <2>1, <2>2
<1> QED BY <1>1, InitSignatures, NextSignatures, PTL DEF SignaturesSpec

-----------------------------------------------------------------------------
(* SESSIONS *)

\* A session that is open, or was never.
SessionRecords ==
    [conversation : Nat, accessed : Int, last : Int, executed : BOOLEAN, claude : BOOLEAN]

RequestRecords == [key : SessionKeys, conversation : Nat, at : Int, claude : BOOLEAN]

SessionsTypeOK ==
    /\ wall \in Nat /\ conversations \in Nat
    /\ sessions \in [SessionKeys -> SessionRecords]
    /\ issued \in Seq(RequestRecords)

\* Conversation ids are drawn once each, and no two sessions have the same.
Drawn ==
    /\ \A k \in SessionKeys : sessions[k] # NoSession => sessions[k].conversation \in 1 .. conversations
    /\ \A k, l \in SessionKeys :
          /\ sessions[k] # NoSession /\ sessions[l] # NoSession
          /\ sessions[k].conversation = sessions[l].conversation
          => k = l
    /\ \A i \in 1 .. Len(issued) : issued[i].conversation \in 1 .. conversations

\* An open session remembers the newest request of its conversation, and whether
\* one of them was for Claude.
Remembers ==
    \A k \in SessionKeys, i \in 1 .. Len(issued) :
        sessions[k] # NoSession /\ issued[i].conversation = sessions[k].conversation =>
            /\ issued[i].key = k
            /\ issued[i].at <= sessions[k].last
            /\ issued[i].claude => sessions[k].claude

SessionsInv == SessionsTypeOK /\ Drawn /\ Remembers /\ RequestIdsGrow

-----------------------------------------------------------------------------
(* The steps *)

LEMMA NoSessionType == NoSession \in SessionRecords
BY DEF NoSession, SessionRecords

\* Pruning and eviction only close sessions.
LEMMA RoomCloses ==
    ASSUME SessionsTypeOK, NEW key \in SessionKeys, NEW store \in Room(Live, key)
    PROVE  /\ store \in [SessionKeys -> SessionRecords]
           /\ \A k \in SessionKeys : store[k] \in {sessions[k], NoSession}
<1>1. /\ Live \in [SessionKeys -> SessionRecords]
      /\ \A k \in SessionKeys : Live[k] \in {sessions[k], NoSession}
  BY NoSessionType DEF Live, SessionsTypeOK
<1>2. store = Live \/ \E k \in SessionKeys : store = [Live EXCEPT ![k] = NoSession]
  BY DEF Room, Open
<1> QED BY <1>1, <1>2, NoSessionType

\* A store some of whose sessions were closed keeps what holds of the others.
LEMMA ClosingKeeps ==
    ASSUME SessionsInv, NEW store \in [SessionKeys -> SessionRecords],
           \A k \in SessionKeys : store[k] \in {sessions[k], NoSession}
    PROVE  /\ \A k \in SessionKeys : store[k] # NoSession => store[k].conversation \in 1 .. conversations
           /\ \A k, l \in SessionKeys :
                 /\ store[k] # NoSession /\ store[l] # NoSession
                 /\ store[k].conversation = store[l].conversation
                 => k = l
           /\ \A k \in SessionKeys, i \in 1 .. Len(issued) :
                 store[k] # NoSession /\ issued[i].conversation = store[k].conversation =>
                     /\ issued[i].key = k
                     /\ issued[i].at <= store[k].last
                     /\ issued[i].claude => store[k].claude
BY DEF SessionsInv, Drawn, Remembers

LEMMA BeginPreserves ==
    ASSUME SessionsInv, NEW key \in SessionKeys, NEW isClaude \in BOOLEAN, BeginRequest(key, isClaude)
    PROVE  SessionsInv'
<1> USE DEF SessionsInv
<1>1. PICK store \in Room(Live, key) :
         LET new == store[key] = NoSession
             session == IF new THEN [NoSession EXCEPT !.conversation = conversations + 1] ELSE store[key]
             at == Timestamp(session)
         IN /\ sessions' = [store EXCEPT ![key] =
                  [session EXCEPT !.accessed = wall, !.last = at, !.claude = @ \/ isClaude]]
            /\ conversations' = IF new THEN conversations + 1 ELSE conversations
            /\ issued' = Append(issued, [key |-> key, conversation |-> session.conversation, at |-> at,
                                         claude |-> session.claude \/ isClaude])
  BY DEF BeginRequest
<1> DEFINE new == store[key] = NoSession
           session == IF new THEN [NoSession EXCEPT !.conversation = conversations + 1] ELSE store[key]
           at == Timestamp(session)
           kept == [session EXCEPT !.accessed = wall, !.last = at, !.claude = @ \/ isClaude]
           sent == [key |-> key, conversation |-> session.conversation, at |-> at,
                    claude |-> session.claude \/ isClaude]
<1>2. /\ sessions' = [store EXCEPT ![key] = kept] /\ issued' = Append(issued, sent)
      /\ conversations' = IF new THEN conversations + 1 ELSE conversations
      /\ wall' = wall
  BY <1>1 DEF BeginRequest
<1>3. /\ wall \in Nat /\ conversations \in Nat /\ issued \in Seq(RequestRecords) /\ Len(issued) \in Nat
      /\ \A i \in 1 .. Len(issued) : issued[i] \in RequestRecords
  BY LenProperties, ElementOfSeq DEF SessionsTypeOK
<1>4. /\ store \in [SessionKeys -> SessionRecords]
      /\ \A k \in SessionKeys : store[k] \in {sessions[k], NoSession}
  BY RoomCloses
<1>5. /\ \A k \in SessionKeys : store[k] # NoSession => store[k].conversation \in 1 .. conversations
      /\ \A k, l \in SessionKeys :
            /\ store[k] # NoSession /\ store[l] # NoSession
            /\ store[k].conversation = store[l].conversation
            => k = l
      /\ \A k \in SessionKeys, i \in 1 .. Len(issued) :
            store[k] # NoSession /\ issued[i].conversation = store[k].conversation =>
                /\ issued[i].key = k
                /\ issued[i].at <= store[k].last
                /\ issued[i].claude => store[k].claude
  BY <1>4, ClosingKeeps
<1>6. /\ session \in SessionRecords
      /\ new => session.conversation = conversations + 1
      /\ ~new => session = store[key] /\ session.conversation \in 1 .. conversations
  <2>1. CASE new
    <3>1. session = [NoSession EXCEPT !.conversation = conversations + 1] /\ conversations + 1 \in Nat
      BY <1>3, <2>1
    <3>2. session \in SessionRecords
      BY <3>1, NoSessionType DEF SessionRecords
    <3>3. session.conversation = conversations + 1
      BY <3>1 DEF NoSession
    <3> QED BY <2>1, <3>2, <3>3
  <2>2. CASE ~new
    BY <1>4, <1>5, <2>2
  <2> QED BY <2>1, <2>2
<1>7. at \in Int /\ session.last < at
  <2>1. session.last \in Int /\ wall \in Int
    BY <1>3, <1>6 DEF SessionRecords
  <2> QED BY <2>1 DEF Timestamp, Larger
<1>8. session.conversation \in 1 .. conversations' /\ conversations' \in Nat /\ conversations <= conversations'
  BY <1>2, <1>3, <1>6
\* The requests of this conversation so far are older, and the session knows them.
<1>9. \A i \in 1 .. Len(issued) : issued[i].conversation = session.conversation =>
          issued[i].key = key /\ issued[i].at < at /\ (issued[i].claude => session.claude)
  <2> SUFFICES ASSUME NEW i \in 1 .. Len(issued), issued[i].conversation = session.conversation
               PROVE  issued[i].key = key /\ issued[i].at < at /\ (issued[i].claude => session.claude)
    OBVIOUS
  <2>1. ~new
    BY <1>3, <1>6 DEF Drawn
  <2>2. issued[i].key = key /\ issued[i].at <= session.last /\ (issued[i].claude => session.claude)
    BY <1>5, <1>6, <2>1
  <2>3. issued[i].at \in Int /\ session.last \in Int
    BY <1>3, <1>6 DEF RequestRecords, SessionRecords
  <2> QED BY <1>7, <2>2, <2>3
<1>10. /\ kept \in SessionRecords /\ kept.conversation = session.conversation /\ kept.last = at
       /\ kept.claude = (session.claude \/ isClaude)
  <2>1. wall \in Int /\ at \in Int /\ session \in SessionRecords
    BY <1>3, <1>6, <1>7
  <2> HIDE DEF session, at
  <2>2. kept \in SessionRecords
    BY <2>1 DEF SessionRecords
  <2>3. kept.conversation = session.conversation /\ kept.last = at
    BY <2>1 DEF SessionRecords
  <2>4. kept.claude = (session.claude \/ isClaude)
    BY <2>1 DEF SessionRecords
  <2> QED BY <2>2, <2>3, <2>4
<1>11. /\ sent \in RequestRecords /\ sent.key = key /\ sent.conversation = session.conversation
       /\ sent.at = at /\ sent.claude = (session.claude \/ isClaude)
  BY <1>6, <1>7 DEF RequestRecords, SessionRecords
<1> HIDE DEF new, session, at, kept, sent
<1>12. /\ issued' \in Seq(RequestRecords) /\ Len(issued') = Len(issued) + 1
       /\ \A i \in 1 .. Len(issued) : issued'[i] = issued[i]
       /\ issued'[Len(issued) + 1] = sent
  BY <1>2, <1>3, <1>11, AppendProperties
<1>13. /\ sessions' \in [SessionKeys -> SessionRecords] /\ sessions'[key] = kept
       /\ \A k \in SessionKeys : k # key => sessions'[k] = store[k]
  BY <1>2, <1>4, <1>10
<1>14. SessionsTypeOK'
  BY <1>2, <1>3, <1>8, <1>12, <1>13 DEF SessionsTypeOK
\* No other session has the conversation of this one.
<1>15. \A k \in SessionKeys : k # key /\ store[k] # NoSession => store[k].conversation # session.conversation
  <2> SUFFICES ASSUME NEW k \in SessionKeys, k # key, store[k] # NoSession,
                      store[k].conversation = session.conversation
               PROVE  FALSE
    OBVIOUS
  <2>1. ~new
    BY <1>3, <1>5, <1>6
  <2>2. session = store[key] /\ store[key] # NoSession
    BY <1>6, <2>1 DEF new
  <2> QED BY <1>5, <2>2
<1>16. Drawn'
  <2>1. \A k \in SessionKeys : sessions'[k] # NoSession => sessions'[k].conversation \in 1 .. conversations'
    BY <1>3, <1>5, <1>8, <1>10, <1>13
  <2>2. \A k, l \in SessionKeys :
            /\ sessions'[k] # NoSession /\ sessions'[l] # NoSession
            /\ sessions'[k].conversation = sessions'[l].conversation
            => k = l
    BY <1>5, <1>10, <1>13, <1>15
  <2>3. \A i \in 1 .. Len(issued') : issued'[i].conversation \in 1 .. conversations'
    <3> TAKE i \in 1 .. Len(issued')
    <3>1. CASE i = Len(issued) + 1
      BY <1>8, <1>11, <1>12, <3>1
    <3>2. CASE i # Len(issued) + 1
      <4>1. i \in 1 .. Len(issued)
        BY <1>3, <1>12, <3>2
      <4> QED BY <1>3, <1>8, <1>12, <4>1 DEF Drawn
    <3> QED BY <3>1, <3>2
  <2> QED BY <2>1, <2>2, <2>3 DEF Drawn
<1>17. Remembers'
  <2> SUFFICES ASSUME NEW k \in SessionKeys, NEW i \in 1 .. Len(issued'), sessions'[k] # NoSession,
                      issued'[i].conversation = sessions'[k].conversation
               PROVE  /\ issued'[i].key = k
                      /\ issued'[i].at <= sessions'[k].last
                      /\ issued'[i].claude => sessions'[k].claude
    BY DEF Remembers
  <2>1. CASE i = Len(issued) + 1
    <3>1. issued'[i] = sent
      BY <1>12, <2>1
    <3>2. k = key
      BY <1>11, <1>13, <1>15, <3>1
    <3> QED BY <1>7, <1>10, <1>11, <1>13, <3>1, <3>2
  <2>2. CASE i # Len(issued) + 1
    <3>1. i \in 1 .. Len(issued) /\ issued'[i] = issued[i]
      BY <1>3, <1>12, <2>2
    <3>2. CASE k = key
      <4>1. issued[i].key = key /\ issued[i].at < at /\ (issued[i].claude => session.claude)
        BY <1>9, <1>10, <1>13, <3>1, <3>2
      <4>2. issued[i].at \in Int
        BY <1>3, <3>1 DEF RequestRecords
      <4>3. issued[i].at <= at
        BY <1>7, <4>1, <4>2
      <4>4. sessions'[k].last = at /\ sessions'[k].claude = (session.claude \/ isClaude)
        BY <1>10, <1>13, <3>2
      <4> QED BY <3>1, <3>2, <4>1, <4>3, <4>4
    <3>3. CASE k # key
      BY <1>5, <1>13, <3>1, <3>3
    <3> QED BY <3>2, <3>3
  <2> QED BY <2>1, <2>2
<1>18. RequestIdsGrow'
  <2>1. DOMAIN issued = 1 .. Len(issued) /\ DOMAIN issued' = 1 .. Len(issued) + 1
    BY <1>3, <1>12, LenProperties
  <2> SUFFICES ASSUME NEW i \in 1 .. Len(issued) + 1, NEW j \in 1 .. Len(issued) + 1, i < j,
                      issued'[i].conversation = issued'[j].conversation
               PROVE  /\ issued'[i].key = issued'[j].key
                      /\ issued'[i].at < issued'[j].at
                      /\ issued'[i].claude => issued'[j].claude
    BY <2>1 DEF RequestIdsGrow
  <2>2. i \in 1 .. Len(issued) /\ issued'[i] = issued[i]
    BY <1>3, <1>12
  <2>3. CASE j = Len(issued) + 1
    <3>1. issued'[j] = sent
      BY <1>12, <2>3
    <3> QED BY <1>9, <1>11, <2>2, <3>1
  <2>4. CASE j # Len(issued) + 1
    <3>1. j \in 1 .. Len(issued) /\ issued'[j] = issued[j]
      BY <1>3, <1>12, <2>4
    <3> QED BY <2>1, <2>2, <3>1 DEF RequestIdsGrow
  <2> QED BY <2>3, <2>4
<1> QED BY <1>14, <1>16, <1>17, <1>18

LEMMA CompletePreserves ==
    ASSUME SessionsInv, NEW key \in SessionKeys, CompleteExecution(key)
    PROVE  SessionsInv'
<1> USE DEF SessionsInv
<1>1. /\ sessions' = [sessions EXCEPT ![key].executed = TRUE] /\ sessions[key] # NoSession
      /\ UNCHANGED <<wall, issued, conversations>>
  BY DEF CompleteExecution
<1>2. /\ sessions' \in [SessionKeys -> SessionRecords]
      /\ \A k \in SessionKeys :
            /\ sessions'[k].conversation = sessions[k].conversation
            /\ sessions'[k].last = sessions[k].last /\ sessions'[k].claude = sessions[k].claude
            /\ sessions'[k] # NoSession => sessions[k] # NoSession
  BY <1>1 DEF SessionsTypeOK, SessionRecords
<1>3. SessionsTypeOK'
  BY <1>1, <1>2 DEF SessionsTypeOK
<1>4. Drawn' /\ Remembers'
  BY <1>1, <1>2 DEF Drawn, Remembers
<1> QED BY <1>1, <1>3, <1>4 DEF RequestIdsGrow

LEMMA ForgetPreserves == ASSUME SessionsInv, ForgetSessions PROVE SessionsInv'
<1>1. sessions' \in [SessionKeys -> SessionRecords] /\ \A k \in SessionKeys : sessions'[k] = NoSession
  BY NoSessionType DEF ForgetSessions
<1> QED BY <1>1 DEF ForgetSessions, SessionsInv, SessionsTypeOK, Drawn, Remembers, RequestIdsGrow

LEMMA SetClockPreserves == ASSUME SessionsInv, SetClock PROVE SessionsInv'
<1>1. wall' \in Nat
  BY SessionsAssumption DEF SetClock
<1> QED BY <1>1 DEF SetClock, SessionsInv, SessionsTypeOK, Drawn, Remembers, RequestIdsGrow

LEMMA InitSessionsInv == SessionsInit => SessionsInv
<1> SUFFICES ASSUME SessionsInit PROVE SessionsInv
  OBVIOUS
<1>1. issued \in Seq(RequestRecords) /\ Len(issued) = 0 /\ DOMAIN issued = {}
  BY EmptySeq DEF SessionsInit
<1> QED BY <1>1, NoSessionType DEF SessionsInit, SessionsInv, SessionsTypeOK, Drawn, Remembers, RequestIdsGrow

LEMMA NextSessionsInv == SessionsInv /\ [SessionsNext]_sessionVars => SessionsInv'
<1> SUFFICES ASSUME SessionsInv, [SessionsNext]_sessionVars PROVE SessionsInv'
  OBVIOUS
<1>1. CASE UNCHANGED sessionVars
  BY <1>1 DEF sessionVars, SessionsInv, SessionsTypeOK, Drawn, Remembers, RequestIdsGrow
<1>2. CASE SessionsNext
  BY <1>2, BeginPreserves, CompletePreserves, ForgetPreserves, SetClockPreserves DEF SessionsNext
<1> QED BY <1>1, <1>2

-----------------------------------------------------------------------------
(* Theorem *)

\* Within a conversation request ids grow and the label of its family sticks, and
\* no conversation is shared, whatever the clock and the store do (begin_request).
THEOREM IdsGrow == SessionsSpec => []RequestIdsGrow
<1>1. SessionsInv => RequestIdsGrow
  BY DEF SessionsInv
<1> QED BY <1>1, InitSessionsInv, NextSessionsInv, PTL DEF SessionsSpec

-----------------------------------------------------------------------------
(* AUDIT *)

\* The rows come in the order of the records, each record has one at most and none
\* that failed has one; only rows are pruned; and the log is closed only when it is
\* drained.
LogIsTrue ==
    /\ \A i, j \in DOMAIN table : i < j => table[i] < table[j]
    /\ \A i \in DOMAIN table : table[i] \notin lost
    /\ pruned \subseteq Inserted
    /\ closing = "done" => Drained

\* The records whose insert is over.
Tried == recorded - Len(queue) - (IF thread.state = "writing" THEN 1 ELSE 0)

AuditTypeOK ==
    /\ recorded \in Nat /\ queue \in Seq(Nat) /\ sender \in BOOLEAN /\ table \in Seq(Nat)
    /\ thread \in [state : {"waiting", "writing", "gone"}, record : Nat]
    /\ closing \in {"no", "joining", "done"}

\* What is queued follows what is being written, which follows what was tried.
InLine ==
    /\ Tried \in Nat
    /\ \A i \in 1 .. Len(queue) : queue[i] = recorded - Len(queue) + i
    /\ thread.state = "writing" => thread.record = Tried + 1
    /\ Inserted \cup lost = 1 .. Tried

Rows ==
    /\ \A i, j \in DOMAIN table : i < j => table[i] < table[j]
    /\ \A i \in DOMAIN table : table[i] \notin lost
    /\ pruned \subseteq Inserted

\* The writer is gone only from a channel that is closed and empty.
Closes ==
    /\ ~sender <=> closing # "no"
    /\ thread.state = "gone" => ~sender /\ queue = <<>>
    /\ closing = "done" => thread.state = "gone"

AuditInv == AuditTypeOK /\ InLine /\ Rows /\ Closes

LEMMA InitAuditInv == AuditInit => AuditInv
<1> SUFFICES ASSUME AuditInit PROVE AuditInv
  OBVIOUS
<1>1. /\ recorded = 0 /\ Len(queue) = 0 /\ Len(table) = 0 /\ queue \in Seq(Nat) /\ table \in Seq(Nat)
      /\ DOMAIN table = {} /\ thread = Listening
      /\ sender = TRUE /\ lost = {} /\ pruned = {} /\ closing = "no"
  BY DEF AuditInit
<1>2. thread.state = "waiting" /\ thread \in [state : {"waiting", "writing", "gone"}, record : Nat]
  BY <1>1 DEF Listening
<1>3. Tried = 0
  BY <1>1, <1>2 DEF Tried
<1>4. AuditTypeOK
  BY <1>1, <1>2 DEF AuditTypeOK
<1>5. InLine
  BY <1>1, <1>2, <1>3 DEF InLine, Inserted
<1>6. Rows
  BY <1>1 DEF Rows
<1>7. Closes
  BY <1>1, <1>2 DEF Closes
<1> QED BY <1>4, <1>5, <1>6, <1>7 DEF AuditInv

LEMMA RecordKeeps == AuditInv /\ Record => AuditInv'
<1> SUFFICES ASSUME AuditInv, Record PROVE AuditInv'
  OBVIOUS
<1>1. /\ recorded \in Nat /\ queue \in Seq(Nat) /\ Len(queue) \in Nat /\ closing = "no"
      /\ recorded' = recorded + 1 /\ queue' = Append(queue, recorded + 1)
      /\ UNCHANGED <<sender, thread, table, lost, pruned, closing>>
  BY DEF AuditInv, AuditTypeOK, Record
<1>2. /\ queue' \in Seq(Nat) /\ Len(queue') = Len(queue) + 1 /\ queue'[Len(queue) + 1] = recorded + 1
      /\ \A i \in 1 .. Len(queue) : queue'[i] = queue[i]
  BY <1>1
<1>3. Tried' = Tried
  BY <1>1, <1>2 DEF Tried
<1>4. AuditTypeOK'
  BY <1>1, <1>2 DEF AuditInv, AuditTypeOK
<1>5. InLine'
  <2>1. \A i \in 1 .. Len(queue) : queue[i] = recorded - Len(queue) + i
    BY DEF AuditInv, InLine
  <2>2. ASSUME NEW i \in 1 .. Len(queue') PROVE queue'[i] = recorded' - Len(queue') + i
    <3>1. CASE i = Len(queue) + 1
      BY <1>1, <1>2, <3>1
    <3>2. CASE i # Len(queue) + 1
      BY <1>1, <1>2, <2>1, <3>2
    <3> QED BY <3>1, <3>2
  <2>3. Inserted' = Inserted
    BY <1>1 DEF Inserted
  <2> QED BY <1>1, <1>3, <2>2, <2>3 DEF AuditInv, InLine
<1>6. Rows'
  BY <1>1 DEF AuditInv, Rows, Inserted
<1>7. Closes'
  BY <1>1 DEF AuditInv, Closes
<1> QED BY <1>4, <1>5, <1>6, <1>7 DEF AuditInv

LEMMA ReceiveKeeps == AuditInv /\ Receive => AuditInv'
<1> SUFFICES ASSUME AuditInv, Receive PROVE AuditInv'
  OBVIOUS
<1>1. /\ recorded \in Nat /\ queue \in Seq(Nat) /\ queue # <<>> /\ thread.state = "waiting"
      /\ thread' = [state |-> "writing", record |-> Head(queue)] /\ queue' = Tail(queue)
      /\ UNCHANGED <<recorded, sender, table, lost, pruned, closing>>
  BY DEF AuditInv, AuditTypeOK, Receive
<1>2. /\ queue' \in Seq(Nat) /\ Len(queue) \in Nat \ {0} /\ Len(queue') = Len(queue) - 1
      /\ \A i \in 1 .. Len(queue') : queue'[i] = queue[i + 1]
      /\ Head(queue) = queue[1] /\ Head(queue) \in Nat
  BY <1>1, HeadTailProperties, EmptySeq
<1>3. thread'.state = "writing" /\ thread'.record = queue[1]
  BY <1>1, <1>2
<1>4. Tried' = Tried
  BY <1>1, <1>2, <1>3 DEF Tried
<1>5. AuditTypeOK'
  BY <1>1, <1>2 DEF AuditInv, AuditTypeOK
<1>6. InLine'
  <2>1. \A i \in 1 .. Len(queue) : queue[i] = recorded - Len(queue) + i
    BY DEF AuditInv, InLine
  <2>2. ASSUME NEW i \in 1 .. Len(queue') PROVE queue'[i] = recorded' - Len(queue') + i
    <3>1. i + 1 \in 1 .. Len(queue)
      BY <1>2
    <3> QED BY <1>1, <1>2, <2>1, <3>1
  <2>3. thread'.record = Tried + 1
    <3>1. 1 \in 1 .. Len(queue)
      BY <1>2
    <3>2. queue[1] = recorded - Len(queue) + 1
      BY <2>1, <3>1
    <3> QED BY <1>1, <1>3, <3>2 DEF Tried
  <2>4. Inserted' = Inserted
    BY <1>1 DEF Inserted
  <2> QED BY <1>1, <1>4, <2>2, <2>3, <2>4 DEF AuditInv, InLine
<1>7. Rows'
  BY <1>1 DEF AuditInv, Rows, Inserted
<1>8. Closes'
  BY <1>1, <1>3 DEF AuditInv, Closes
<1> QED BY <1>5, <1>6, <1>7, <1>8 DEF AuditInv

\* What is written follows all that was tried before.
LEMMA InsertKeeps == AuditInv /\ InsertRecord => AuditInv'
<1> SUFFICES ASSUME AuditInv, InsertRecord PROVE AuditInv'
  OBVIOUS
<1> DEFINE r == thread.record
<1>1. /\ recorded \in Nat /\ queue \in Seq(Nat) /\ Len(queue) \in Nat /\ table \in Seq(Nat)
      /\ r \in Nat /\ r = Tried + 1 /\ Tried \in Nat
      /\ thread.state = "writing" /\ thread' = Listening /\ Inserted \cup lost = 1 .. Tried
      /\ UNCHANGED <<recorded, queue, sender, pruned, closing>>
  BY DEF AuditInv, AuditTypeOK, InLine, InsertRecord
<1>2. thread'.state = "waiting" /\ thread' \in [state : {"waiting", "writing", "gone"}, record : Nat]
  BY <1>1 DEF Listening
<1>3. Tried' = Tried + 1
  BY <1>1, <1>2 DEF Tried
<1>4. \A x \in Inserted \cup lost : x \in Nat /\ x < r
  BY <1>1
<1>5. Closes'
  BY <1>1, <1>2 DEF AuditInv, Closes
<1>6. /\ \A i, j \in DOMAIN table : i < j => table[i] < table[j]
      /\ \A i \in DOMAIN table : table[i] \notin lost
      /\ pruned \subseteq Inserted
  BY DEF AuditInv, Rows
<1>7. \A i \in 1 .. Len(queue) : queue[i] = recorded - Len(queue) + i
  BY DEF AuditInv, InLine
<1> HIDE DEF r
<1>8. CASE table' = Append(table, thread.record) /\ lost' = lost
  <2> DEFINE n == Len(table)
  <2>1. /\ table' \in Seq(Nat) /\ n \in Nat /\ DOMAIN table = 1 .. n /\ DOMAIN table' = 1 .. n + 1
        /\ table'[n + 1] = r /\ \A i \in 1 .. n : table'[i] = table[i]
    BY <1>1, <1>8 DEF r
  <2>2. \A i \in 1 .. n : table[i] \in Inserted
    BY <2>1 DEF Inserted
  <2>3. \A i \in 1 .. n + 1 : i \in 1 .. n \/ i = n + 1
    BY <2>1
  <2>4. Inserted' = Inserted \cup {r}
    <3>1. \A x : x \in Inserted' <=> \E i \in 1 .. n + 1 : x = table'[i]
      BY <2>1 DEF Inserted
    <3>2. \A x : x \in Inserted <=> \E i \in 1 .. n : x = table[i]
      BY <2>1 DEF Inserted
    <3>3. n + 1 \in 1 .. n + 1 /\ \A i \in 1 .. n : i \in 1 .. n + 1
      BY <2>1
    <3> HIDE DEF n
    <3>4. \A x : x \in Inserted' <=> x \in Inserted \/ x = r
      BY <2>1, <2>3, <3>1, <3>2, <3>3
    <3> QED BY <3>4
  <2>5. AuditTypeOK'
    BY <1>1, <1>2, <2>1 DEF AuditInv, AuditTypeOK
  <2>6. InLine'
    <3>1. (Inserted \cup lost)' = 1 .. Tried'
      BY <1>1, <1>3, <1>8, <2>4
    <3> QED BY <1>1, <1>2, <1>3, <1>7, <3>1 DEF InLine
  <2>7. Rows'
    <3>1. ASSUME NEW i \in 1 .. n + 1, NEW j \in 1 .. n + 1, i < j PROVE table'[i] < table'[j]
      <4>1. i \in 1 .. n
        BY <2>1, <3>1
      <4>2. CASE j = n + 1
        BY <1>4, <2>1, <2>2, <4>1, <4>2
      <4>3. CASE j \in 1 .. n
        BY <1>6, <2>1, <3>1, <4>1, <4>3
      <4> QED BY <2>3, <4>2, <4>3
    <3>2. ASSUME NEW i \in 1 .. n + 1 PROVE table'[i] \notin lost
      <4>1. CASE i = n + 1
        <5>1. r \notin lost
          BY <1>4
        <5> QED BY <2>1, <4>1, <5>1
      <4>2. CASE i \in 1 .. n
        BY <1>6, <2>1, <4>2
      <4> QED BY <2>3, <4>1, <4>2
    <3>3. pruned' \subseteq Inserted'
      BY <1>1, <1>6, <2>4
    <3> QED BY <1>1, <1>8, <2>1, <3>1, <3>2, <3>3 DEF Rows
  <2> QED BY <1>5, <2>5, <2>6, <2>7 DEF AuditInv
<1>9. CASE lost' = lost \cup {thread.record} /\ table' = table
  <2>1. AuditTypeOK'
    BY <1>1, <1>2, <1>9 DEF AuditInv, AuditTypeOK
  <2>2. Inserted' = Inserted
    BY <1>9 DEF Inserted
  <2>3. InLine'
    <3>1. (Inserted \cup lost)' = 1 .. Tried'
      BY <1>1, <1>3, <1>9, <2>2 DEF r
    <3> QED BY <1>1, <1>2, <1>3, <1>7, <3>1 DEF InLine
  <2>4. Rows'
    <3>1. ASSUME NEW i \in DOMAIN table PROVE table[i] # r
      BY <1>4, <3>1 DEF Inserted
    <3>2. \A i \in DOMAIN table' : table'[i] \notin lost'
      BY <1>6, <1>9, <3>1 DEF r
    <3>3. pruned' \subseteq Inserted'
      BY <1>1, <1>6, <2>2
    <3> QED BY <1>6, <1>9, <3>2, <3>3 DEF Rows
  <2> QED BY <1>5, <2>1, <2>3, <2>4 DEF AuditInv
<1> QED BY <1>8, <1>9 DEF InsertRecord

\* Rows go, but what was inserted stays in line.
LEMMA PruneKeepsRows == AuditInv /\ PruneTable => AuditInv'
<1> SUFFICES ASSUME AuditInv, PruneTable PROVE AuditInv'
  OBVIOUS
<1>1. /\ pruned' \subseteq Inserted
      /\ UNCHANGED <<recorded, queue, sender, thread, table, lost, closing>>
  BY DEF AuditInv, Rows, PruneTable
<1>2. Tried' = Tried /\ Inserted' = Inserted
  BY <1>1 DEF Tried, Inserted
<1>3. AuditTypeOK'
  BY <1>1 DEF AuditInv, AuditTypeOK
<1>4. InLine'
  BY <1>1, <1>2 DEF AuditInv, InLine
<1>5. Rows'
  BY <1>1, <1>2 DEF AuditInv, Rows
<1>6. Closes'
  BY <1>1 DEF AuditInv, Closes
<1> QED BY <1>3, <1>4, <1>5, <1>6 DEF AuditInv

LEMMA EndingKeeps == AuditInv /\ (WriterEnds \/ Close \/ Join) => AuditInv'
<1> SUFFICES ASSUME AuditInv, WriterEnds \/ Close \/ Join PROVE AuditInv'
  OBVIOUS
<1>1. /\ UNCHANGED <<recorded, queue, table, lost, pruned>>
      /\ thread' = thread \/ (thread' = [state |-> "gone", record |-> 0] /\ thread.state = "waiting")
  BY DEF WriterEnds, Close, Join
<1>2. /\ thread' \in [state : {"waiting", "writing", "gone"}, record : Nat]
      /\ thread'.state = "writing" <=> thread.state = "writing"
      /\ thread'.state = "writing" => thread'.record = thread.record
  BY <1>1 DEF AuditInv, AuditTypeOK
<1>3. AuditTypeOK'
  BY <1>1, <1>2 DEF AuditInv, AuditTypeOK, WriterEnds, Close, Join
<1>4. InLine'
  BY <1>1, <1>2 DEF AuditInv, InLine, Tried, Inserted
<1>5. Rows'
  BY <1>1 DEF AuditInv, Rows, Inserted
<1>6. Closes'
  BY <1>1 DEF AuditInv, AuditTypeOK, Closes, WriterEnds, Close, Join
<1> QED BY <1>3, <1>4, <1>5, <1>6 DEF AuditInv

LEMMA NextAuditInv == AuditInv /\ [AuditNext]_auditVars => AuditInv'
<1>1. CASE UNCHANGED auditVars
  BY <1>1 DEF auditVars, AuditInv, AuditTypeOK, InLine, Tried, Inserted, Rows, Closes
<1> QED BY <1>1, RecordKeeps, ReceiveKeeps, InsertKeeps, PruneKeepsRows, EndingKeeps DEF AuditNext

LEMMA InvIsTrue == AuditInv => LogIsTrue
<1> SUFFICES ASSUME AuditInv PROVE LogIsTrue
  OBVIOUS
<1>1. ASSUME closing = "done" PROVE Drained
  <2>1. thread.state = "gone" /\ queue = <<>>
    BY <1>1 DEF AuditInv, Closes
  <2>2. Len(queue) = 0 /\ recorded \in Nat
    BY <2>1 DEF AuditInv, AuditTypeOK
  <2>3. Tried = recorded
    BY <2>1, <2>2 DEF Tried
  <2> QED BY <2>3 DEF AuditInv, InLine, Inserted, Drained
<1> QED BY <1>1 DEF AuditInv, Rows, LogIsTrue

\* However the writer, pruning, failing inserts and the close interleave, the log tells
\* each request once, in order, and closing it waits for every record there is.
THEOREM AuditIsTrue == AuditSpec => []LogIsTrue
<1> QED BY InitAuditInv, NextAuditInv, InvIsTrue, PTL DEF AuditSpec

-----------------------------------------------------------------------------
(* REQUESTS: numbers *)

\* A set of numbers that is not empty has a least one.
LEMMA LeastIsThere ==
    ASSUME NEW S, S \subseteq Nat, S # {}
    PROVE  \E i \in S : \A j \in S : i <= j
<1>1. PICK i \in S : \A j \in S : ~(<<j, i>> \in OpToRel(<, Nat))
  BY NatLessThanWellFounded, WFMin
<1>2. ASSUME NEW j \in S PROVE i <= j
  <2>1. ~(j < i)
    BY <1>1 DEF OpToRel
  <2> QED BY <2>1
<1> QED BY <1>2

\* Induction up to a number, over the numbers of which something holds.
LEMMA Climb ==
    ASSUME NEW n \in Nat, NEW Good, 0 \in Good, \A m \in 1 .. n : m - 1 \in Good => m \in Good
    PROVE  \A m \in 0 .. n : m \in Good
<1> DEFINE Bad == {m \in 0 .. n : m \notin Good}
<1>1. SUFFICES ASSUME Bad # {} PROVE FALSE
  OBVIOUS
<1>2. Bad \subseteq Nat
  OBVIOUS
<1>3. PICK m \in Bad : \A j \in Bad : m <= j
  BY <1>1, <1>2, LeastIsThere
<1>4. m \in 1 .. n /\ m \notin Good
  BY <1>3
<1>5. m - 1 \in 0 .. n /\ ~(m <= m - 1)
  BY <1>4
<1>6. m - 1 \in Good
  BY <1>3, <1>5
<1> QED BY <1>4, <1>6

-----------------------------------------------------------------------------
(* REQUESTS: schemas *)

\* A set of places of a sequence that is not empty has a last one.
LEMMA GreatestIsThere ==
    ASSUME NEW n \in Nat, NEW S, S \subseteq 1 .. n, S # {}
    PROVE  \E i \in S : \A j \in S : j <= i
<1> DEFINE backs == {n - i : i \in S}
<1>1. backs # {} /\ backs \subseteq Nat
  <2>1. PICK i \in S : TRUE
    OBVIOUS
  <2>2. n - i \in backs
    OBVIOUS
  <2>3. ASSUME NEW j \in S PROVE n - j \in Nat
    OBVIOUS
  <2> QED BY <2>2, <2>3
<1>2. PICK back \in backs : \A x \in backs : back <= x
  BY <1>1, LeastIsThere
<1>3. PICK i \in S : back = n - i
  BY <1>2
<1>4. \A j \in S : n - i <= n - j
  BY <1>2, <1>3
<1> QED BY <1>3, <1>4

\* Of finitely many scored places some place is the best, and the last of those.
LEMMA BestIsThere ==
    ASSUME NEW n \in Nat, NEW places, places \subseteq 1 .. n, places # {},
           NEW score, \A i \in places : score[i] \in 0 .. 3
    PROVE  BestOf(places, score) \in places
<1> DEFINE misses == {3 - score[i] : i \in places}
<1>1. misses # {} /\ misses \subseteq Nat
  <2>1. PICK i \in places : TRUE
    OBVIOUS
  <2>2. 3 - score[i] \in misses
    OBVIOUS
  <2>3. ASSUME NEW j \in places PROVE 3 - score[j] \in Nat
    OBVIOUS
  <2> QED BY <2>2, <2>3
<1>2. PICK least \in misses : \A x \in misses : least <= x
  BY <1>1, LeastIsThere
<1> DEFINE tops == {i \in places : 3 - score[i] = least}
<1>3. tops # {} /\ tops \subseteq 1 .. n
  BY <1>2
<1>4. PICK i \in tops : \A j \in tops : j <= i
  BY <1>3, GreatestIsThere
<1>5. ASSUME NEW j \in places
      PROVE  score[j] < score[i] \/ (score[j] = score[i] /\ j <= i)
  <2>1. least = 3 - score[i] /\ least <= 3 - score[j]
    BY <1>2, <1>4
  <2>2. score[i] \in 0 .. 3 /\ score[j] \in 0 .. 3 /\ i \in 1 .. n /\ j \in 1 .. n
    BY <1>4
  <2>3. CASE score[j] = score[i]
    <3>1. j \in tops
      BY <2>1, <2>3
    <3>2. j <= i
      BY <3>1, <1>4
    <3> QED BY <2>2, <2>3, <3>2
  <2> QED BY <2>1, <2>2, <2>3
<1>6. i \in places
  BY <1>4
<1> QED BY <1>5, <1>6 DEF BestOf

\* The best option is one of the options.
LEMMA BestOptionIsOne ==
    ASSUME NEW S, NEW options \in Seq(S), options # <<>>
    PROVE  BestOption(options) \in S
<1> DEFINE score == [i \in DOMAIN options |-> ScoreOption(options[i])]
<1>1. Len(options) \in Nat /\ DOMAIN options = 1 .. Len(options) /\ DOMAIN options # {}
  OBVIOUS
<1>2. \A i \in DOMAIN options : score[i] \in 0 .. 3
  BY DEF ScoreOption
<1>3. BestOf(DOMAIN options, score) \in DOMAIN options
  BY <1>1, <1>2, BestIsThere
<1> QED BY <1>3 DEF BestOption

\* Of the types of a schema one is taken that the upstream has a name for.
LEMMA TypeNameIsKnown ==
    ASSUME NEW types \in Seq(DOMAIN UpperCase)
    PROVE  TypeName(types) \in DOMAIN UpperCase
<1> DEFINE named == {i \in DOMAIN types : types[i] # "null"}
           score == [i \in named |-> ScoreTypeName(types[i])]
<1>1. CASE named = {}
  BY <1>1 DEF TypeName, UpperCase
<1>2. CASE named # {}
  <2>1. Len(types) \in Nat /\ named \subseteq 1 .. Len(types)
    OBVIOUS
  <2>2. \A i \in named : score[i] \in 0 .. 3
    BY DEF ScoreTypeName
  <2>3. BestOf(named, score) \in named
    BY <1>2, <2>1, <2>2, BestIsThere
  <2>4. TypeName(types) = types[BestOf(named, score)]
    BY <1>2 DEF TypeName
  <2> QED BY <2>3, <2>4
<1> QED BY <1>1, <1>2

\* What comes first of a field comes from one of the schemas, if any has it.
LEMMA EarliestIsOne ==
    ASSUME NEW S, NEW schemas \in Seq(S), NEW field
    PROVE  Earliest(schemas, field) = <<>> \/ \E t \in S : Earliest(schemas, field) = t[field]
<1> DEFINE given == {i \in DOMAIN schemas : schemas[i][field] # <<>>}
           first == CHOOSE i \in given : \A j \in given : i <= j
<1>1. CASE given = {}
  BY <1>1 DEF Earliest
<1>2. CASE given # {}
  <2>1. given \subseteq Nat
    OBVIOUS
  <2>2. first \in given
    BY <1>2, <2>1, LeastIsThere
  <2>3. Earliest(schemas, field) = schemas[first][field]
    BY <1>2 DEF Earliest
  <2>4. schemas[first] \in S
    BY <2>2
  <2> QED BY <2>3, <2>4
<1> QED BY <1>1, <1>2

\* A schema with what it takes from others is made of schemas still, as those were.
WellMade(s) ==
    /\ s.type \in Seq(DOMAIN UpperCase)
    /\ s.items \in Seq(JsonSchemas)
    /\ \A p \in DOMAIN PropsOf(s) : PropsOf(s)[p] \in JsonSchemas

LEMMA SchemasAreWellMade == \A s \in JsonSchemas : WellMade(s)
BY SchemasAssumption DEF WellMade

LEMMA FilledIn ==
    ASSUME NEW s, WellMade(s), NEW others \in Seq(JsonSchemas), NEW props
    PROVE  /\ FillIn(s, others, props).type \in Seq(DOMAIN UpperCase)
           /\ FillIn(s, others, props).items \in Seq(JsonSchemas)
           /\ FillIn(s, others, props).props = props
<1> DEFINE type == Earliest(others, "type")
           items == Earliest(others, "items")
<1>1. type \in Seq(DOMAIN UpperCase)
  <2>1. type = <<>> \/ \E t \in JsonSchemas : type = t["type"]
    BY EarliestIsOne
  <2>2. \A t \in JsonSchemas : t.type \in Seq(DOMAIN UpperCase)
    BY SchemasAssumption
  <2> HIDE DEF type
  <2>3. CASE type = <<>>
    BY <2>3
  <2>4. CASE \E t \in JsonSchemas : type = t["type"]
    BY <2>2, <2>4
  <2> QED BY <2>1, <2>3, <2>4
<1>2. items \in Seq(JsonSchemas)
  <2>1. items = <<>> \/ \E t \in JsonSchemas : items = t["items"]
    BY EarliestIsOne
  <2>2. \A t \in JsonSchemas : t.items \in Seq(JsonSchemas)
    BY SchemasAssumption
  <2> HIDE DEF items
  <2>3. CASE items = <<>>
    BY <2>3
  <2>4. CASE \E t \in JsonSchemas : items = t["items"]
    BY <2>2, <2>4
  <2> QED BY <2>1, <2>3, <2>4
<1>3. /\ FillIn(s, others, props).type = OrElse(s.type, type)
      /\ FillIn(s, others, props).items = OrElse(s.items, items)
      /\ FillIn(s, others, props).props = props
  BY DEF FillIn, Schema
<1> HIDE DEF type, items
<1> QED BY <1>1, <1>2, <1>3 DEF OrElse, WellMade

\* The members of allOf add all their properties, and lose none.
LEMMA MergeAllKeeps ==
    ASSUME NEW s \in JsonSchemas
    PROVE  /\ WellMade(MergeAll(s))
           /\ Declared(s) # {} => MergeAll(s).props # <<>>
           /\ DOMAIN PropsOf(MergeAll(s)) = Declared(s)
<1> DEFINE props == IF Declared(s) = {} THEN s.props ELSE <<Gathered(s)>>
<1>1. WellMade(s) /\ s.allOf \in Seq(JsonSchemas)
  BY SchemasAssumption, SchemasAreWellMade
<1>2. /\ MergeAll(s).type \in Seq(DOMAIN UpperCase)
      /\ MergeAll(s).items \in Seq(JsonSchemas)
      /\ MergeAll(s).props = props
  BY <1>1, FilledIn DEF MergeAll
<1>3. CASE Declared(s) = {}
  <2>1. PropsOf(MergeAll(s)) = PropsOf(s)
    BY <1>2, <1>3 DEF PropsOf
  <2>2. DOMAIN PropsOf(s) = {}
    BY <1>3 DEF Declared
  <2> QED BY <1>1, <1>2, <1>3, <2>1, <2>2 DEF WellMade
<1>4. CASE Declared(s) # {}
  <2>1. MergeAll(s).props = <<Gathered(s)>>
    BY <1>2, <1>4
  <2>2. PropsOf(MergeAll(s)) = Gathered(s) /\ MergeAll(s).props # <<>>
    BY <2>1 DEF PropsOf
  <2>3. DOMAIN Gathered(s) = Declared(s)
    BY DEF Gathered
  <2>4. ASSUME NEW p \in Declared(s) PROVE Gathered(s)[p] \in JsonSchemas
    <3>1. CASE p \in DOMAIN PropsOf(s)
      BY <1>1, <3>1 DEF Gathered, WellMade
    <3>2. CASE p \notin DOMAIN PropsOf(s)
      <4> DEFINE members == {i \in DOMAIN s.allOf : p \in DOMAIN PropsOf(s.allOf[i])}
                 last == CHOOSE i \in members : \A j \in members : j <= i
      <4>1. members # {} /\ members \subseteq 1 .. Len(s.allOf) /\ Len(s.allOf) \in Nat
        BY <1>1, <3>2 DEF Declared
      <4>2. last \in members
        <5> HIDE DEF members
        <5>1. \E k \in members : \A j \in members : j <= k
          BY <4>1, GreatestIsThere
        <5> QED BY <5>1, Zenon
      <4>3. Gathered(s)[p] = PropsOf(s.allOf[last])[p]
        BY <3>2 DEF Gathered, Declarer
      <4> HIDE DEF last
      <4>4. s.allOf[last] \in JsonSchemas /\ p \in DOMAIN PropsOf(s.allOf[last])
        BY <1>1, <4>2
      <4> QED BY <4>3, <4>4, SchemasAreWellMade DEF WellMade
    <3> QED BY <3>1, <3>2
  <2> QED BY <1>2, <2>2, <2>3, <2>4 DEF WellMade
<1> QED BY <1>3, <1>4

\* So does the best option, and it takes the place of no property.
LEMMA MergedKeeps ==
    ASSUME NEW s \in JsonSchemas
    PROVE  /\ WellMade(MergeBest(MergeAll(s), s.anyOf))
           /\ Declared(s) \subseteq DOMAIN PropsOf(MergeBest(MergeAll(s), s.anyOf))
<1> DEFINE all == MergeAll(s)
           best == BestOption(s.anyOf)
           props == OrElse(all.props, best.props)
<1>1. /\ WellMade(all) /\ DOMAIN PropsOf(all) = Declared(s)
      /\ Declared(s) # {} => all.props # <<>>
  BY MergeAllKeeps
<1> HIDE DEF all
<1>2. CASE s.anyOf = <<>>
  BY <1>1, <1>2 DEF MergeBest, all
<1>3. CASE s.anyOf # <<>>
  <2>1. best \in JsonSchemas
    BY <1>3, SchemasAssumption, BestOptionIsOne
  <2>2. <<best>> \in Seq(JsonSchemas) /\ WellMade(best)
    BY <2>1, SchemasAreWellMade
  <2> DEFINE merged == MergeBest(all, s.anyOf)
  <2>3. merged = FillIn(all, <<best>>, props)
    BY <1>3 DEF MergeBest
  <2> HIDE DEF best, props, merged
  <2>4. /\ merged.type \in Seq(DOMAIN UpperCase)
        /\ merged.items \in Seq(JsonSchemas)
        /\ merged.props = props
    BY <1>1, <2>2, <2>3, FilledIn
  <2>5. PropsOf(merged) = PropsOf(all) \/ (PropsOf(merged) = PropsOf(best) /\ all.props = <<>>)
    BY <2>4 DEF props, PropsOf, OrElse
  <2>6. WellMade(merged)
    BY <1>1, <2>2, <2>4, <2>5 DEF WellMade
  <2>7. Declared(s) \subseteq DOMAIN PropsOf(merged)
    BY <1>1, <2>5
  <2> QED BY <2>6, <2>7 DEF merged, all
<1> QED BY <1>2, <1>3

\* A type that is given stays, and that of an object is known.
LEMMA TypeIsKept ==
    ASSUME NEW s \in JsonSchemas, s.type # <<>>
    PROVE  MergeBest(MergeAll(s), s.anyOf).type = s.type
<1> DEFINE all == MergeAll(s)
<1>1. all.type = s.type
  BY DEF MergeAll, FillIn, Schema, OrElse
<1> HIDE DEF all
<1>2. MergeBest(all, s.anyOf).type = all.type
  BY <1>1 DEF MergeBest, FillIn, Schema, OrElse
<1> QED BY <1>1, <1>2 DEF all

LEMMA ObjectIsNamed == TypeName(<<"object">>) = "object"
<1> DEFINE types == <<"object">>
           named == {i \in DOMAIN types : types[i] # "null"}
           score == [i \in named |-> ScoreTypeName(types[i])]
<1>1. DOMAIN types = {1} /\ types[1] = "object"
  OBVIOUS
<1>2. named = {1}
  BY <1>1
<1>3. BestOf(named, score) \in named
  <2>1. \E i \in named : \A j \in named : score[j] < score[i] \/ (score[j] = score[i] /\ j <= i)
    BY <1>2
  <2> QED BY <2>1 DEF BestOf
<1>4. TypeName(types) = types[BestOf(named, score)]
  BY <1>2 DEF TypeName
<1> QED BY <1>1, <1>2, <1>3, <1>4

\* What one schema becomes is acceptable, whatever those inside it become: they are
\* all that is inside it, beside the placeholder, and no declared property is lost.
LEMMA TransformedIsAcceptable ==
    ASSUME NEW s \in JsonSchemas, NEW inside
    PROVE  /\ Acceptable(Transformed(s, inside))
           /\ \A t \in Within(Transformed(s, inside)) :
                 t = StringSchema \/ \E u \in JsonSchemas : t = inside[u]
           /\ KeepsProperties(s, Transformed(s, inside))
<1> DEFINE merged == MergeBest(MergeAll(s), s.anyOf)
           type   == UpperCase[TypeName(merged.type)]
           named  == PropsOf(merged)
           props  == IF DOMAIN named = {} THEN Placeholder ELSE [p \in DOMAIN named |-> inside[named[p]]]
           wanted == IF merged.required = <<>> THEN {} ELSE merged.required[1] \cap DOMAIN props
           items  == IF merged.items = <<>> THEN <<>> ELSE <<inside[BestOption(merged.items)]>>
           result == Transformed(s, inside)
           Inside(t) == t = StringSchema \/ \E u \in JsonSchemas : t = inside[u]
<1>1. WellMade(merged) /\ Declared(s) \subseteq DOMAIN named
  BY MergedKeeps
<1>2. TypeName(merged.type) \in DOMAIN UpperCase
  BY <1>1, TypeNameIsKnown DEF WellMade
<1>3. /\ type = "OBJECT" =>
            result = Schema(<<type>>, <<props>>, IF wanted = {} THEN <<>> ELSE <<wanted>>, items, <<>>, <<>>)
      /\ type = "ARRAY" =>
            result = Schema(<<type>>, <<>>, <<>>, OrElse(items, <<StringSchema>>), <<>>, <<>>)
      /\ type # "OBJECT" /\ type # "ARRAY" => result = TypeOnly(<<type>>)
  BY DEF Transformed
<1>4. /\ DOMAIN props # {} /\ Declared(s) \subseteq DOMAIN props
      /\ \A p \in DOMAIN props : Inside(props[p])
  <2>1. CASE DOMAIN named = {}
    <3>1. props = Placeholder
      BY <2>1
    <3>2. DOMAIN Placeholder = {"reason"} /\ Placeholder["reason"] = StringSchema
      BY DEF Placeholder
    <3> HIDE DEF props, named, merged
    <3> QED BY <1>1, <2>1, <3>1, <3>2
  <2>2. CASE DOMAIN named # {}
    <3>1. DOMAIN props = DOMAIN named /\ \A p \in DOMAIN named : props[p] = inside[named[p]]
      BY <2>2
    <3>2. \A p \in DOMAIN named : named[p] \in JsonSchemas
      BY <1>1 DEF WellMade
    <3> HIDE DEF props, named, merged
    <3> QED BY <1>1, <2>2, <3>1, <3>2
  <2> QED BY <2>1, <2>2
<1>5. items = <<>> \/ \E u \in JsonSchemas : items = <<inside[u]>>
  <2>1. CASE merged.items # <<>>
    <3>1. merged.items \in Seq(JsonSchemas)
      BY <1>1 DEF WellMade
    <3>2. BestOption(merged.items) \in JsonSchemas
      BY <2>1, <3>1, BestOptionIsOne
    <3> QED BY <2>1, <3>2
  <2> QED BY <2>1
<1>6. wanted \subseteq DOMAIN props
  OBVIOUS
<1>7. \E name \in DOMAIN UpperCase : <<type>> = <<UpperCase[name]>>
  BY <1>2
<1>o. s.type = <<"object">> => type = "OBJECT"
  <2>1. SUFFICES ASSUME s.type = <<"object">> PROVE TypeName(merged.type) = "object"
    BY DEF UpperCase
  <2>2. merged.type = <<"object">>
    BY <2>1, TypeIsKept
  <2> QED BY <2>2, ObjectIsNamed
<1> HIDE DEF merged, type, named, props, wanted, items, result
<1>8. CASE type = "OBJECT"
  <2> DEFINE required == IF wanted = {} THEN <<>> ELSE <<wanted>>
  <2>1. /\ result.type = <<type>> /\ result.props = <<props>> /\ result.required = required
        /\ result.items = items /\ result.allOf = <<>> /\ result.anyOf = <<>>
    BY <1>3, <1>8 DEF Schema
  <2>2. PropsOf(result) = props /\ result.props[1] = props
    BY <2>1 DEF PropsOf
  <2>3. required # <<>> => required[1] # {} /\ required[1] \subseteq DOMAIN props
    BY <1>6
  <2>4. <<type>> = <<"OBJECT">> /\ <<type>> # <<"ARRAY">>
    BY <1>8
  <2> HIDE DEF required
  <2>5. Acceptable(result)
    BY <1>4, <1>7, <2>1, <2>2, <2>3, <2>4 DEF Acceptable
  <2>6. \A t \in Within(result) : Inside(t)
    <3>1. \A i \in DOMAIN items : Inside(items[i])
      BY <1>5
    <3> QED BY <1>4, <2>1, <2>2, <3>1 DEF Within
  <2>7. KeepsProperties(s, result)
    BY <1>4, <2>1, <2>2, <2>4 DEF KeepsProperties
  <2> QED BY <2>5, <2>6, <2>7 DEF result
<1>9. CASE type = "ARRAY"
  <2> DEFINE each == OrElse(items, <<StringSchema>>)
  <2>1. /\ result.type = <<type>> /\ result.props = <<>> /\ result.required = <<>>
        /\ result.items = each /\ result.allOf = <<>> /\ result.anyOf = <<>>
    BY <1>3, <1>9 DEF Schema
  <2>2. each # <<>> /\ \A i \in DOMAIN each : Inside(each[i])
    BY <1>5 DEF OrElse
  <2>3. <<type>> # <<"OBJECT">>
    BY <1>9
  <2> HIDE DEF each
  <2>4. Acceptable(result)
    BY <1>7, <2>1, <2>2, <2>3 DEF Acceptable
  <2>5. \A t \in Within(result) : Inside(t)
    BY <2>1, <2>2 DEF Within, PropsOf
  <2>6. KeepsProperties(s, result)
    BY <1>9, <1>o, <2>1, <2>3 DEF KeepsProperties
  <2> QED BY <2>4, <2>5, <2>6 DEF result
<1>10. CASE type # "OBJECT" /\ type # "ARRAY"
  <2>1. /\ result.type = <<type>> /\ result.props = <<>> /\ result.required = <<>>
        /\ result.items = <<>> /\ result.allOf = <<>> /\ result.anyOf = <<>>
    BY <1>3, <1>10 DEF TypeOnly, Schema
  <2>2. <<type>> # <<"OBJECT">> /\ <<type>> # <<"ARRAY">>
    BY <1>10
  <2>3. Acceptable(result)
    BY <1>7, <2>1, <2>2 DEF Acceptable
  <2>4. \A t \in Within(result) : Inside(t)
    BY <2>1 DEF Within, PropsOf
  <2>5. KeepsProperties(s, result)
    BY <1>10, <1>o, <2>1, <2>2 DEF KeepsProperties
  <2> QED BY <2>3, <2>4, <2>5 DEF result
<1> QED BY <1>8, <1>9, <1>10

\* So is the schema there is beyond the greatest depth, and it holds nothing.
LEMMA StringIsAcceptable == Acceptable(StringSchema) /\ Within(StringSchema) = {}
<1>1. /\ StringSchema.type = <<"STRING">> /\ StringSchema.props = <<>> /\ StringSchema.required = <<>>
      /\ StringSchema.items = <<>> /\ StringSchema.allOf = <<>> /\ StringSchema.anyOf = <<>>
  BY DEF StringSchema, TypeOnly, Schema
<1>2. "string" \in DOMAIN UpperCase /\ UpperCase["string"] = "STRING"
  BY DEF UpperCase
<1>3. <<"STRING">> # <<"OBJECT">> /\ <<"STRING">> # <<"ARRAY">>
  OBVIOUS
<1>4. Acceptable(StringSchema)
  BY <1>1, <1>2, <1>3 DEF Acceptable
<1>5. Within(StringSchema) = {}
  BY <1>1 DEF Within, PropsOf
<1> QED BY <1>4, <1>5

\* What Transform computes on the way to a number of levels.
Transforms(n, f) ==
    f = [left \in 0 .. n |->
            [s \in JsonSchemas |-> IF left = 0 THEN StringSchema ELSE Transformed(s, f[left - 1])]]

LEMMA TransformsExists ==
    ASSUME NEW n \in Nat
    PROVE  \E f : Transforms(n, f)
<1> DEFINE Good == {m \in 0 .. n : \E f : Transforms(m, f)}
<1>1. 0 \in Good
  <2>1. Transforms(0, [left \in 0 .. 0 |-> [s \in JsonSchemas |-> StringSchema]])
    BY DEF Transforms
  <2> QED BY <2>1
<1>2. ASSUME NEW m \in 1 .. n, m - 1 \in Good PROVE m \in Good
  <2>1. PICK f : Transforms(m - 1, f)
    BY <1>2
  <2> DEFINE last == [s \in JsonSchemas |-> Transformed(s, f[m - 1])]
             g == [left \in 0 .. m |-> IF left = m THEN last ELSE f[left]]
             All(h, left) == [s \in JsonSchemas |-> IF left = 0 THEN StringSchema ELSE Transformed(s, h[left - 1])]
  <2>2. \A left \in 0 .. m - 1 : f[left] = All(f, left)
    BY <2>1 DEF Transforms
  <2> HIDE DEF last
  <2>3. /\ \A left \in 0 .. m - 1 : g[left] = f[left]
        /\ g[m] = last
    OBVIOUS
  <2>4. g = [left \in 0 .. m |-> g[left]]
    OBVIOUS
  <2> HIDE DEF g
  <2>5. ASSUME NEW left \in 0 .. m PROVE g[left] = All(g, left)
    <3>1. CASE left = 0
      <4>1. 0 \in 0 .. m - 1
        OBVIOUS
      <4>2. g[0] = f[0] /\ f[0] = All(f, 0)
        BY <2>2, <2>3, <4>1
      <4>3. All(f, 0) = All(g, 0)
        OBVIOUS
      <4> QED BY <3>1, <4>2, <4>3
    <3>2. CASE left # 0
      <4>1. left - 1 \in 0 .. m - 1 /\ (left # m => left \in 0 .. m - 1)
        BY <3>2
      <4>2. g[left - 1] = f[left - 1]
        BY <4>1, <2>3
      <4>3. g[left] = [s \in JsonSchemas |-> Transformed(s, f[left - 1])]
        <5>1. CASE left = m
          BY <5>1, <2>3 DEF last
        <5>2. CASE left # m
          BY <5>2, <3>2, <4>1, <2>2, <2>3
        <5> QED BY <5>1, <5>2
      <4> QED BY <3>2, <4>2, <4>3
    <3> QED BY <3>1, <3>2
  <2>6. Transforms(m, g)
    BY <2>4, <2>5 DEF Transforms
  <2> QED BY <2>6
<1>3. \A m \in 0 .. n : m \in Good
  <2> HIDE DEF Good
  <2> QED BY <1>1, <1>2, Climb
<1> QED BY <1>3

LEMMA TransformIs ==
    \A left \in 0 .. MaxDepth + 1, s \in JsonSchemas :
        Transform[left][s] = IF left = 0 THEN StringSchema ELSE Transformed(s, Transform[left - 1])
<1>1. MaxDepth + 1 \in Nat
  BY DEF MaxDepth
<1> DEFINE f == CHOOSE f : Transforms(MaxDepth + 1, f)
<1>2. Transforms(MaxDepth + 1, f)
  BY <1>1, TransformsExists
<1>3. Transform = f
  BY DEF Transform, Transforms
<1> HIDE DEF f
<1>4. ASSUME NEW left \in 0 .. MaxDepth + 1
      PROVE  f[left] = [s \in JsonSchemas |-> IF left = 0 THEN StringSchema ELSE Transformed(s, f[left - 1])]
  BY <1>2 DEF Transforms
<1> QED BY <1>3, <1>4

\* All that Transform makes at a depth.
Made(left) == {Transform[left][s] : s \in JsonSchemas} \cup {StringSchema}

\* Each is acceptable, and what is inside it was made one level deeper.
LEMMA MadeIsAcceptable ==
    ASSUME NEW left \in 0 .. MaxDepth + 1, NEW t \in Made(left)
    PROVE  /\ Acceptable(t)
           /\ left = 0 => Within(t) = {}
           /\ left > 0 => Within(t) \subseteq Made(left - 1)
<1>1. CASE t = StringSchema
  BY <1>1, StringIsAcceptable
<1>2. CASE t # StringSchema
  <2>1. PICK s \in JsonSchemas : t = Transform[left][s]
    BY <1>2 DEF Made
  <2>2. left # 0 /\ t = Transformed(s, Transform[left - 1])
    BY <1>2, <2>1, TransformIs
  <2> DEFINE inside == Transform[left - 1]
  <2>3. Acceptable(t) /\ \A u \in Within(t) : u = StringSchema \/ \E v \in JsonSchemas : u = inside[v]
    BY <2>2, TransformedIsAcceptable
  <2>4. Within(t) \subseteq Made(left - 1)
    BY <2>3 DEF Made
  <2> QED BY <2>2, <2>3, <2>4
<1> QED BY <1>1, <1>2

\* What UpstreamTakes computes on the way to a depth.
Levels(s, n, f) ==
    f = [m \in 0 .. n |-> IF m = 0 THEN {s} ELSE UNION {Within(t) : t \in f[m - 1]}]

LEMMA LevelsExists ==
    ASSUME NEW s, NEW n \in Nat
    PROVE  \E f : Levels(s, n, f)
<1> DEFINE Good == {m \in 0 .. n : \E f : Levels(s, m, f)}
<1>1. 0 \in Good
  <2>1. Levels(s, 0, [m \in 0 .. 0 |-> {s}])
    BY DEF Levels
  <2> QED BY <2>1
<1>2. ASSUME NEW m \in 1 .. n, m - 1 \in Good PROVE m \in Good
  <2>1. PICK f : Levels(s, m - 1, f)
    BY <1>2
  <2> DEFINE Next(level) == UNION {Within(t) : t \in level}
             g == [k \in 0 .. m |-> IF k = m THEN Next(f[m - 1]) ELSE f[k]]
  <2>2. \A k \in 0 .. m - 1 : f[k] = IF k = 0 THEN {s} ELSE Next(f[k - 1])
    BY <2>1 DEF Levels
  <2> HIDE DEF Next
  <2>3. /\ \A k \in 0 .. m - 1 : g[k] = f[k]
        /\ g[m] = Next(f[m - 1])
    OBVIOUS
  <2>4. g = [k \in 0 .. m |-> g[k]]
    OBVIOUS
  <2> HIDE DEF g
  <2>5. ASSUME NEW k \in 0 .. m PROVE g[k] = IF k = 0 THEN {s} ELSE Next(g[k - 1])
    <3>1. CASE k = 0
      BY <3>1, <2>2, <2>3
    <3>2. CASE k # 0
      <4>1. k - 1 \in 0 .. m - 1 /\ (k # m => k \in 0 .. m - 1)
        BY <3>2
      <4>2. g[k - 1] = f[k - 1]
        BY <4>1, <2>3
      <4>3. g[k] = Next(f[k - 1])
        <5>1. CASE k = m
          BY <5>1, <2>3
        <5>2. CASE k # m
          BY <5>2, <3>2, <4>1, <2>2, <2>3
        <5> QED BY <5>1, <5>2
      <4> QED BY <3>2, <4>2, <4>3
    <3> QED BY <3>1, <3>2
  <2>6. Levels(s, m, g)
    BY <2>4, <2>5 DEF Levels, Next
  <2> QED BY <2>6
<1>3. \A m \in 0 .. n : m \in Good
  <2> HIDE DEF Good
  <2> QED BY <1>1, <1>2, Climb
<1> QED BY <1>3

\* So every schema is taken once it is transformed, at every depth it may have.
LEMMA TransformIsTaken ==
    ASSUME NEW s \in JsonSchemas
    PROVE  UpstreamTakes(Transform[MaxDepth + 1][s])
<1> DEFINE n    == MaxDepth + 2
           root == Transform[MaxDepth + 1][s]
           level == CHOOSE f : Levels(root, n, f)
<1>1. n \in Nat /\ n = MaxDepth + 2 /\ MaxDepth \in Nat
  BY DEF MaxDepth
<1> HIDE DEF n, root
<1>2. Levels(root, n, level)
  BY <1>1, LevelsExists
<1>3. UpstreamTakes(root) <=>
         /\ \A m \in 0 .. MaxDepth + 1 : \A t \in level[m] : Acceptable(t)
         /\ level[MaxDepth + 2] = {}
  BY DEF UpstreamTakes, Levels, n
<1> HIDE DEF level
<1>4. \A m \in 0 .. n : level[m] = IF m = 0 THEN {root} ELSE UNION {Within(t) : t \in level[m - 1]}
  BY <1>2 DEF Levels
<1> DEFINE Good == {m \in 0 .. MaxDepth + 1 : level[m] \subseteq Made(MaxDepth + 1 - m)}
<1>5. 0 \in Good
  <2>1. level[0] = {root} /\ MaxDepth + 1 - 0 = MaxDepth + 1
    <3>1. 0 \in 0 .. n
      BY <1>1
    <3>2. level[0] = {root}
      BY <1>4, <3>1
    <3> QED BY <1>1, <3>2
  <2>2. root \in Made(MaxDepth + 1)
    BY DEF Made, root
  <2> QED BY <1>1, <2>1, <2>2
<1>6. ASSUME NEW m \in 1 .. MaxDepth + 1, m - 1 \in Good PROVE m \in Good
  <2> DEFINE left == MaxDepth + 1 - (m - 1)
  <2>1. /\ left \in 0 .. MaxDepth + 1 /\ left > 0 /\ left - 1 = MaxDepth + 1 - m
        /\ m \in 0 .. n /\ m # 0
    BY <1>1
  <2>2. level[m - 1] \subseteq Made(left)
    BY <1>6
  <2> HIDE DEF left
  <2>3. \A t \in level[m - 1] : Within(t) \subseteq Made(left - 1)
    BY <2>1, <2>2, MadeIsAcceptable
  <2>4. level[m] = UNION {Within(t) : t \in level[m - 1]}
    BY <1>4, <2>1
  <2>5. level[m] \subseteq Made(MaxDepth + 1 - m)
    BY <2>1, <2>3, <2>4
  <2> QED BY <2>5
<1>7. \A m \in 0 .. MaxDepth + 1 : m \in Good
  <2> HIDE DEF Good
  <2> QED BY <1>1, <1>5, <1>6, Climb
<1>8. \A m \in 0 .. MaxDepth + 1 : level[m] \subseteq Made(MaxDepth + 1 - m)
  BY <1>7
<1>9. ASSUME NEW m \in 0 .. MaxDepth + 1, NEW t \in level[m] PROVE Acceptable(t)
  <2>1. MaxDepth + 1 - m \in 0 .. MaxDepth + 1 /\ t \in Made(MaxDepth + 1 - m)
    BY <1>1, <1>8
  <2> QED BY <2>1, MadeIsAcceptable
<1>10. level[MaxDepth + 2] = {}
  <2>1. /\ MaxDepth + 1 \in 0 .. MaxDepth + 1 /\ MaxDepth + 1 - (MaxDepth + 1) = 0
        /\ MaxDepth + 2 \in 0 .. n /\ MaxDepth + 2 # 0 /\ (MaxDepth + 2) - 1 = MaxDepth + 1
        /\ 0 \in 0 .. MaxDepth + 1
    BY <1>1
  <2>2. level[MaxDepth + 1] \subseteq Made(0)
    BY <1>8, <2>1
  <2>3. \A t \in Made(0) : Within(t) = {}
    BY <2>1, MadeIsAcceptable
  <2>4. level[MaxDepth + 2] = UNION {Within(t) : t \in level[MaxDepth + 1]}
    BY <1>4, <2>1
  <2> QED BY <2>2, <2>3, <2>4
<1> QED BY <1>3, <1>9, <1>10 DEF root

-----------------------------------------------------------------------------
(* REQUESTS: what turns are *)

\* Every call a model turn may make, and the names and ids there are.
CallRecords == UNION {{calls[i] : i \in DOMAIN calls} : calls \in ToolCalls}

Words == {""} \cup {c.id : c \in CallRecords} \cup {c.name : c \in CallRecords}

PartsSaid == [kind : {"text", "call", "result"}, name : Words, id : Words]

TurnsSaid == [role : {"user", "model"}, parts : Seq(PartsSaid)]

NoResults(turn) == \A j \in DOMAIN turn.parts : turn.parts[j].kind # "result"

\* A turn says something, results only by themselves and by the user.
Spoken(turn) ==
    /\ turn.parts # <<>>
    /\ turn.role = "model" => NoResults(turn)
    /\ OnlyResults(turn) \/ NoResults(turn)

NameAt(turns, place) == turns[place[1]].parts[place[2]].name

\* Each call at a place has a result or is open, one only, and under its name.
Matched(turns, calls, results, open) ==
    \E r \in [DOMAIN results -> calls], o \in [open -> calls] :
       /\ \A j, k \in DOMAIN results : r[j] = r[k] => j = k
       /\ \A c, d \in open : o[c] = o[d] => c = d
       /\ \A j \in DOMAIN results, c \in open : r[j] # o[c]
       /\ \A place \in calls : (\E j \in DOMAIN results : r[j] = place) \/ (\E c \in open : o[c] = place)
       /\ \A j \in DOMAIN results : results[j].kind = "result" /\ results[j].name = NameAt(turns, r[j])
       /\ \A c \in open : c.name = NameAt(turns, o[c])

\* Open calls are those of the last model turns, if of any.
OpenAfter(turns, i, open) == IF i + 1 = Len(turns) THEN open ELSE {}

\* While there are open calls the last turn is the model's or holds results of its calls.
CallsWait(turns, open) ==
    open # {} =>
        /\ turns # <<>>
        /\ \/ Last(turns).role = "model"
           \/ /\ Len(turns) > 1 /\ turns[Len(turns) - 1].role = "model"
              /\ Last(turns).role = "user" /\ OnlyResults(Last(turns))

LastMatched(turns, open) ==
    turns # <<>> /\ Last(turns).role = "model" => Matched(turns, CallsUpTo(turns, Len(turns)), <<>>, open)

MatchedAt(turns, i, open) ==
    /\ turns[i].role = "model" /\ turns[i + 1].role = "user"
    /\ CallsUpTo(turns, i) # {} \/ OpenAfter(turns, i, open) # {}
    => Matched(turns, CallsUpTo(turns, i), turns[i + 1].parts, OpenAfter(turns, i, open))

Sensible(turns, open) ==
    /\ turns \in Seq(TurnsSaid) /\ open \subseteq CallRecords
    /\ \A i \in 1 .. Len(turns) : Spoken(turns[i])
    /\ CallsWait(turns, open)
    /\ LastMatched(turns, open)
    /\ \A i \in 1 .. Len(turns) - 1 : MatchedAt(turns, i, open)

-----------------------------------------------------------------------------
(* REQUESTS: places of calls *)

CallsIn(turns, k) == {<<k, j>> : j \in {j \in DOMAIN turns[k].parts : turns[k].parts[j].kind = "call"}}

LEMMA CallsUpToIs ==
    ASSUME NEW turns, NEW i \in Nat
    PROVE  \A place : place \in CallsUpTo(turns, i) <=>
              \E k \in 1 .. i : /\ \A j \in k .. i : turns[j].role = "model"
                                /\ place \in CallsIn(turns, k)
BY DEF CallsUpTo, CallsIn

\* Only the turns up to i matter for the calls up to i and their names.
LEMMA CallsUpToSame ==
    ASSUME NEW turns, NEW others, NEW i \in Nat, \A k \in 1 .. i : others[k] = turns[k]
    PROVE  CallsUpTo(others, i) = CallsUpTo(turns, i)
<1>1. \A k \in 1 .. i : CallsIn(others, k) = CallsIn(turns, k)
  BY DEF CallsIn
<1>2. \A k \in 1 .. i : \A j \in k .. i : others[j] = turns[j]
  OBVIOUS
<1>3. \A place : place \in CallsUpTo(others, i) <=> place \in CallsUpTo(turns, i)
  BY <1>1, <1>2, CallsUpToIs
<1> QED BY <1>3

LEMMA NamesUpToSame ==
    ASSUME NEW turns, NEW others, NEW i \in Nat, \A k \in 1 .. i : others[k] = turns[k],
           NEW place \in CallsUpTo(turns, i)
    PROVE  NameAt(others, place) = NameAt(turns, place)
<1>1. PICK k \in 1 .. i : place \in CallsIn(turns, k)
  BY CallsUpToIs
<1>2. place[1] = k
  BY <1>1 DEF CallsIn
<1> QED BY <1>2 DEF NameAt

\* A model turn adds its calls to those of the model turns just before it.
LEMMA CallsUpToNext ==
    ASSUME NEW turns, NEW i \in Nat, turns[i + 1].role = "model"
    PROVE  /\ i > 0 /\ turns[i].role = "model" =>
                 CallsUpTo(turns, i + 1) = CallsUpTo(turns, i) \cup CallsIn(turns, i + 1)
           /\ ~(i > 0 /\ turns[i].role = "model") => CallsUpTo(turns, i + 1) = CallsIn(turns, i + 1)
<1>1. i + 1 \in Nat /\ i + 1 \in 1 .. i + 1
  OBVIOUS
<1>2. \A place \in CallsIn(turns, i + 1) : place \in CallsUpTo(turns, i + 1)
  <2>1. \A j \in (i + 1) .. (i + 1) : turns[j].role = "model"
    OBVIOUS
  <2> QED BY <1>1, <2>1, CallsUpToIs
<1>3. CASE i > 0 /\ turns[i].role = "model"
  <2>1. ASSUME NEW place \in CallsUpTo(turns, i) PROVE place \in CallsUpTo(turns, i + 1)
    <3>1. PICK k \in 1 .. i : /\ \A j \in k .. i : turns[j].role = "model"
                              /\ place \in CallsIn(turns, k)
      BY <2>1, CallsUpToIs
    <3>2. k \in 1 .. i + 1 /\ \A j \in k .. i + 1 : turns[j].role = "model"
      BY <3>1
    <3> QED BY <1>1, <3>1, <3>2, CallsUpToIs
  <2>2. ASSUME NEW place \in CallsUpTo(turns, i + 1), place \notin CallsIn(turns, i + 1)
        PROVE  place \in CallsUpTo(turns, i)
    <3>1. PICK k \in 1 .. i + 1 : /\ \A j \in k .. i + 1 : turns[j].role = "model"
                                  /\ place \in CallsIn(turns, k)
      BY <1>1, <2>2, CallsUpToIs
    <3>2. k \in 1 .. i /\ \A j \in k .. i : turns[j].role = "model"
      BY <2>2, <3>1
    <3> QED BY <3>1, <3>2, CallsUpToIs
  <2> QED BY <1>2, <1>3, <2>1, <2>2
<1>4. CASE ~(i > 0 /\ turns[i].role = "model")
  <2>1. ASSUME NEW place \in CallsUpTo(turns, i + 1) PROVE place \in CallsIn(turns, i + 1)
    <3>1. PICK k \in 1 .. i + 1 : /\ \A j \in k .. i + 1 : turns[j].role = "model"
                                  /\ place \in CallsIn(turns, k)
      BY <1>1, <2>1, CallsUpToIs
    <3>2. CASE k = i + 1
      BY <3>1, <3>2
    <3>3. CASE k # i + 1
      <4>1. i > 0 /\ i \in k .. i + 1
        BY <3>3
      <4> QED BY <1>4, <3>1, <4>1
    <3> QED BY <3>2, <3>3
  <2> QED BY <1>2, <1>4, <2>1
<1> QED BY <1>3, <1>4

\* Of the turns a matching reads only the names of the calls.
LEMMA NamesAreAllThatMatters ==
    ASSUME NEW turns, NEW others, NEW calls, NEW results, NEW open,
           \A place \in calls : NameAt(others, place) = NameAt(turns, place),
           Matched(turns, calls, results, open)
    PROVE  Matched(others, calls, results, open)
<1>1. PICK r \in [DOMAIN results -> calls], o \in [open -> calls] :
       /\ \A j, k \in DOMAIN results : r[j] = r[k] => j = k
       /\ \A c, d \in open : o[c] = o[d] => c = d
       /\ \A j \in DOMAIN results, c \in open : r[j] # o[c]
       /\ \A place \in calls : (\E j \in DOMAIN results : r[j] = place) \/ (\E c \in open : o[c] = place)
       /\ \A j \in DOMAIN results : results[j].kind = "result" /\ results[j].name = NameAt(turns, r[j])
       /\ \A c \in open : c.name = NameAt(turns, o[c])
  BY DEF Matched
<1>2. /\ \A j \in DOMAIN results : NameAt(others, r[j]) = NameAt(turns, r[j])
      /\ \A c \in open : NameAt(others, o[c]) = NameAt(turns, o[c])
  OBVIOUS
<1> QED BY <1>1, <1>2 DEF Matched

-----------------------------------------------------------------------------
(* REQUESTS: calls matched with results *)

LEMMA NothingIsMatched ==
    ASSUME NEW turns
    PROVE  Matched(turns, {}, <<>>, {})
<1> DEFINE none == [x \in {} |-> x]
<1>1. none \in [{} -> {}] /\ DOMAIN <<>> = {}
  OBVIOUS
<1> HIDE DEF none
<1> QED BY <1>1 DEF Matched

\* Without results or open calls there are no calls.
LEMMA MatchedNothing ==
    ASSUME NEW turns, NEW calls, Matched(turns, calls, <<>>, {})
    PROVE  calls = {}
<1>1. DOMAIN <<>> = {}
  OBVIOUS
<1> QED BY <1>1 DEF Matched

\* With every call answered, the matching is what CallsAnswered asks for.
LEMMA MatchedAnswers ==
    ASSUME NEW turns, NEW calls, NEW results, Matched(turns, calls, results, {})
    PROVE  \E call \in [DOMAIN results -> calls] :
              /\ \A j, k \in DOMAIN results : call[j] = call[k] => j = k
              /\ \A c \in calls : \E j \in DOMAIN results : call[j] = c
              /\ \A j \in DOMAIN results : results[j].name = turns[call[j][1]].parts[call[j][2]].name
BY DEF Matched, NameAt

\* The result of an open call takes the place of the call among the open ones.
LEMMA MatchedResult ==
    ASSUME NEW turns, NEW calls, NEW results \in Seq(PartsSaid), NEW open, NEW c \in open,
           NEW part \in PartsSaid, part.kind = "result", part.name = c.name,
           Matched(turns, calls, results, open)
    PROVE  Matched(turns, calls, Append(results, part), open \ {c})
<1> DEFINE n    == Len(results)
           more == Append(results, part)
           rest == open \ {c}
<1>1. /\ n \in Nat /\ DOMAIN results = 1 .. n /\ DOMAIN more = 1 .. n + 1
      /\ \A j \in 1 .. n : more[j] = results[j]
      /\ more[n + 1] = part
  OBVIOUS
<1>2. PICK r \in [DOMAIN results -> calls], o \in [open -> calls] :
         /\ \A j, k \in DOMAIN results : r[j] = r[k] => j = k
         /\ \A a, b \in open : o[a] = o[b] => a = b
         /\ \A j \in DOMAIN results, a \in open : r[j] # o[a]
         /\ \A place \in calls : (\E j \in DOMAIN results : r[j] = place) \/ (\E a \in open : o[a] = place)
         /\ \A j \in DOMAIN results : results[j].kind = "result" /\ results[j].name = NameAt(turns, r[j])
         /\ \A a \in open : a.name = NameAt(turns, o[a])
  BY DEF Matched
<1> HIDE DEF n, more
<1> DEFINE s == [j \in 1 .. n + 1 |-> IF j = n + 1 THEN o[c] ELSE r[j]]
           q == [a \in rest |-> o[a]]
<1>3. /\ \A j \in 1 .. n : s[j] = r[j]
      /\ s[n + 1] = o[c]
      /\ \A a \in rest : q[a] = o[a] /\ a \in open /\ a # c
      /\ \A j \in 1 .. n + 1 : j \in 1 .. n \/ j = n + 1
      /\ \A j \in 1 .. n : j # n + 1
  BY <1>1
<1>4. s \in [DOMAIN more -> calls] /\ q \in [rest -> calls]
  BY <1>1, <1>2
<1> HIDE DEF s, q
<1>5. \A j, k \in DOMAIN more : s[j] = s[k] => j = k
  BY <1>1, <1>2, <1>3
<1>6. \A a, b \in rest : q[a] = q[b] => a = b
  BY <1>2, <1>3
<1>7. \A j \in DOMAIN more, a \in rest : s[j] # q[a]
  BY <1>1, <1>2, <1>3
<1>8. ASSUME NEW place \in calls
      PROVE  (\E j \in DOMAIN more : s[j] = place) \/ (\E a \in rest : q[a] = place)
  <2>1. CASE \E j \in DOMAIN results : r[j] = place
    BY <1>1, <1>3, <2>1
  <2>2. CASE \E a \in open : o[a] = place
    <3>1. PICK a \in open : o[a] = place
      BY <2>2
    <3>2. CASE a = c
      BY <1>1, <1>3, <3>1, <3>2
    <3>3. CASE a # c
      BY <1>3, <3>1, <3>3
    <3> QED BY <3>2, <3>3
  <2> QED BY <1>2, <2>1, <2>2
<1>9. \A j \in DOMAIN more : more[j].kind = "result" /\ more[j].name = NameAt(turns, s[j])
  BY <1>1, <1>2, <1>3
<1>10. \A a \in rest : a.name = NameAt(turns, q[a])
  BY <1>2, <1>3
<1> HIDE DEF rest
<1>11. Matched(turns, calls, more, rest)
  BY <1>4, <1>5, <1>6, <1>7, <1>8, <1>9, <1>10 DEF Matched
<1> QED BY <1>11 DEF more, rest

\* Calls at places of their own are open calls more.
LEMMA MatchedCalls ==
    ASSUME NEW turns, NEW calls, NEW open, Matched(turns, calls, <<>>, open),
           NEW places, places \cap calls = {}, NEW made, made \cap open = {},
           NEW at \in [made -> places],
           \A c, d \in made : at[c] = at[d] => c = d,
           \A place \in places : \E c \in made : at[c] = place,
           \A c \in made : c.name = NameAt(turns, at[c])
    PROVE  Matched(turns, calls \cup places, <<>>, open \cup made)
<1>1. DOMAIN <<>> = {}
  OBVIOUS
<1>2. PICK o \in [open -> calls] :
         /\ \A a, b \in open : o[a] = o[b] => a = b
         /\ \A place \in calls : \E a \in open : o[a] = place
         /\ \A a \in open : a.name = NameAt(turns, o[a])
  BY <1>1 DEF Matched
<1> DEFINE all  == calls \cup places
           wait == open \cup made
           q    == [a \in wait |-> IF a \in open THEN o[a] ELSE at[a]]
           none == [x \in {} |-> x]
<1>3. /\ \A a \in open : q[a] = o[a] /\ q[a] \in calls /\ a \in wait
      /\ \A a \in made : q[a] = at[a] /\ q[a] \in places /\ a \in wait
      /\ \A a \in wait : a \in open \/ a \in made
      /\ \A place \in all : place \in calls \/ place \in places
      /\ \A place \in calls : place \notin places
  BY <1>2
<1>4. none \in [DOMAIN <<>> -> all]
  BY <1>1
<1>5. q \in [wait -> all]
  <2>1. \A a \in wait : (IF a \in open THEN o[a] ELSE at[a]) \in all
    OBVIOUS
  <2> HIDE DEF wait, all
  <2> QED BY <2>1
<1> HIDE DEF all, wait, q, none
<1>6. \A a, b \in wait : q[a] = q[b] => a = b
  BY <1>2, <1>3
<1>7. \A place \in all : \E a \in wait : q[a] = place
  BY <1>2, <1>3
<1>8. \A a \in wait : a.name = NameAt(turns, q[a])
  BY <1>2, <1>3
<1> DEFINE nothing == <<>>
<1>9. DOMAIN nothing = {} /\ none \in [DOMAIN nothing -> all]
  BY <1>1, <1>4
<1> HIDE DEF nothing
<1>10. Matched(turns, all, nothing, wait)
  <2> SUFFICES
         \E r \in [DOMAIN nothing -> all], p \in [wait -> all] :
            /\ \A j, k \in DOMAIN nothing : r[j] = r[k] => j = k
            /\ \A c, d \in wait : p[c] = p[d] => c = d
            /\ \A j \in DOMAIN nothing, c \in wait : r[j] # p[c]
            /\ \A place \in all : (\E j \in DOMAIN nothing : r[j] = place) \/ (\E c \in wait : p[c] = place)
            /\ \A j \in DOMAIN nothing : nothing[j].kind = "result" /\ nothing[j].name = NameAt(turns, r[j])
            /\ \A c \in wait : c.name = NameAt(turns, p[c])
    BY DEF Matched
  <2> USE <1>5, <1>9
  <2> WITNESS none \in [DOMAIN nothing -> all], q \in [wait -> all]
  <2> QED BY <1>6, <1>7, <1>8, <1>9
<1> QED BY <1>10 DEF all, wait, nothing

-----------------------------------------------------------------------------
(* REQUESTS: one message more *)

\* What was matched stays so as long as the two turns, and what is open, do.
LEMMA MatchedStays ==
    ASSUME NEW turns, NEW others, NEW open, NEW wait, NEW i \in Nat, MatchedAt(turns, i, open),
           \A k \in 1 .. i + 1 : others[k] = turns[k], others[i] = turns[i],
           OpenAfter(others, i, wait) = OpenAfter(turns, i, open)
    PROVE  MatchedAt(others, i, wait)
<1>1. /\ CallsUpTo(others, i) = CallsUpTo(turns, i)
      /\ \A place \in CallsUpTo(turns, i) : NameAt(others, place) = NameAt(turns, place)
  <2>1. CallsUpTo(others, i) = CallsUpTo(turns, i)
    BY CallsUpToSame
  <2> QED BY <2>1, NamesUpToSame
<1>2. others[i + 1] = turns[i + 1]
  OBVIOUS
<1> DEFINE calls == CallsUpTo(turns, i)
           after == OpenAfter(turns, i, open)
           parts == turns[i + 1].parts
<1>3. Matched(turns, calls, parts, after) => Matched(others, calls, parts, after)
  BY <1>1, NamesAreAllThatMatters
<1> QED BY <1>1, <1>2, <1>3 DEF MatchedAt

LEMMA TurnIsSaid ==
    ASSUME NEW role \in {"user", "model"}, NEW parts \in Seq(PartsSaid)
    PROVE  Turn(role, parts) \in TurnsSaid /\ Turn(role, parts).role = role /\ Turn(role, parts).parts = parts
BY DEF Turn, TurnsSaid

LEMMA AppendIs ==
    ASSUME NEW S, NEW s \in Seq(S), NEW e \in S
    PROVE  /\ Append(s, e) \in Seq(S) /\ Len(s) \in Nat /\ Len(Append(s, e)) = Len(s) + 1
           /\ \A k \in 1 .. Len(s) : Append(s, e)[k] = s[k]
           /\ Append(s, e)[Len(s) + 1] = e
           /\ Append(s, e) # <<>>
OBVIOUS

\* A model turn appended adds its calls to the open ones.
LEMMA ModelSpeaks ==
    ASSUME NEW turns, NEW open, Sensible(turns, open),
           open # {} => Last(turns).role = "model",
           NEW parts \in Seq(PartsSaid), parts # <<>>,
           \A j \in 1 .. Len(parts) : parts[j].kind # "result",
           NEW made, made \subseteq CallRecords, made \cap open = {},
           NEW at \in [made -> 1 .. Len(parts)],
           \A c, d \in made : at[c] = at[d] => c = d,
           \A j \in 1 .. Len(parts) : parts[j].kind = "call" <=> \E c \in made : at[c] = j,
           \A c \in made : c.name = parts[at[c]].name
    PROVE  Sensible(Append(turns, Turn("model", parts)), open \cup made)
<1> DEFINE n      == Len(turns)
           turn   == Turn("model", parts)
           others == Append(turns, turn)
           wait   == open \cup made
<1>1. turns \in Seq(TurnsSaid) /\ open \subseteq CallRecords
  BY DEF Sensible
<1>2. turn \in TurnsSaid /\ turn.role = "model" /\ turn.parts = parts
  BY TurnIsSaid
<1> HIDE DEF turn
<1>3. /\ others \in Seq(TurnsSaid) /\ n \in Nat /\ Len(others) = n + 1
      /\ \A k \in 1 .. n : others[k] = turns[k]
      /\ others[n + 1] = turn /\ others # <<>>
  BY <1>1, <1>2, AppendIs
<1> HIDE DEF others, n
<1>4. Last(others) = turn
  BY <1>3 DEF Last
<1>5. \A i \in 1 .. Len(others) : Spoken(others[i])
  <2>1. NoResults(turn)
    BY <1>2 DEF NoResults
  <2>2. Spoken(turn)
    BY <1>2, <2>1 DEF Spoken
  <2> QED BY <1>3, <2>2 DEF Sensible, n
<1>6. CallsWait(others, wait)
  BY <1>2, <1>3, <1>4 DEF CallsWait
<1>7. LastMatched(others, wait)
  <2> DEFINE places == CallsIn(others, n + 1)
             put    == [c \in made |-> <<n + 1, at[c]>>]
  <2>1. others[n + 1].parts = parts /\ others[n + 1].role = "model"
    BY <1>2, <1>3
  <2>2. \A place : place \in places <=> \E j \in 1 .. Len(parts) : parts[j].kind = "call" /\ place = <<n + 1, j>>
    BY <2>1 DEF CallsIn
  <2> HIDE DEF places
  <2>3. put \in [made -> places]
    BY <2>2
  <2>4. /\ \A c, d \in made : put[c] = put[d] => c = d
        /\ \A place \in places : \E c \in made : put[c] = place
        /\ \A c \in made : c.name = NameAt(others, put[c])
    <3>1. \A c \in made : put[c] = <<n + 1, at[c]>> /\ put[c][1] = n + 1 /\ put[c][2] = at[c]
      OBVIOUS
    <3> HIDE DEF put
    <3>2. \A c, d \in made : put[c] = put[d] => c = d
      BY <3>1
    <3>3. ASSUME NEW place \in places PROVE \E c \in made : put[c] = place
      <4>1. PICK j \in 1 .. Len(parts) : parts[j].kind = "call" /\ place = <<n + 1, j>>
        BY <2>2
      <4>2. PICK c \in made : at[c] = j
        BY <4>1
      <4> QED BY <3>1, <4>1, <4>2
    <3>4. \A c \in made : c.name = NameAt(others, put[c])
      BY <2>1, <3>1 DEF NameAt
    <3> QED BY <3>2, <3>3, <3>4
  <2> HIDE DEF put
  <2>5. ASSUME NEW calls, Matched(others, calls, <<>>, open), places \cap calls = {}
        PROVE  Matched(others, calls \cup places, <<>>, wait)
    BY <2>3, <2>4, <2>5, MatchedCalls
  <2>6. CASE n > 0 /\ turns[n].role = "model"
    <3> DEFINE calls == CallsUpTo(turns, n)
    <3>1. Matched(turns, calls, <<>>, open)
      <4>1. turns # <<>> /\ Last(turns) = turns[n]
        BY <1>1, <2>6 DEF Last, n
      <4> QED BY <2>6, <4>1 DEF Sensible, LastMatched, n
    <3>2. CallsUpTo(others, n) = calls /\ \A place \in calls : NameAt(others, place) = NameAt(turns, place)
      <4>1. n \in Nat /\ \A k \in 1 .. n : others[k] = turns[k]
        BY <1>3
      <4>2. CallsUpTo(others, n) = CallsUpTo(turns, n)
        BY <4>1, CallsUpToSame
      <4>3. ASSUME NEW place \in CallsUpTo(turns, n) PROVE NameAt(others, place) = NameAt(turns, place)
        <5>1. PICK k \in 1 .. n : place \in CallsIn(turns, k)
          BY <4>1, CallsUpToIs
        <5>2. place[1] = k /\ others[k] = turns[k]
          BY <4>1, <5>1 DEF CallsIn
        <5> QED BY <5>2 DEF NameAt
      <4> QED BY <4>2, <4>3
    <3>3. Matched(others, calls, <<>>, open)
      BY <3>1, <3>2, NamesAreAllThatMatters
    <3>4. places \cap calls = {}
      <4>1. ASSUME NEW place \in calls PROVE place[1] \in 1 .. n
        BY <1>3, <4>1, CallsUpToIs DEF CallsIn
      <4>2. \A place \in places : place[1] = n + 1
        BY <2>2
      <4>3. n + 1 \notin 1 .. n
        BY <1>3
      <4> HIDE DEF calls
      <4> QED BY <4>1, <4>2, <4>3
    <3>5. others[n] = turns[n]
      BY <1>3, <2>6
    <3>6. CallsUpTo(others, n + 1) = calls \cup places
      BY <1>3, <2>1, <2>6, <3>2, <3>5, CallsUpToNext DEF places
    <3> HIDE DEF calls
    <3>7. Matched(others, calls \cup places, <<>>, wait)
      BY <2>5, <3>3, <3>4
    <3> QED BY <1>3, <3>6, <3>7 DEF LastMatched
  <2>7. CASE ~(n > 0 /\ turns[n].role = "model")
    <3>1. open = {}
      <4>1. turns # <<>> => n > 0 /\ Last(turns) = turns[n]
        BY <1>1 DEF Last, n
      <4> QED BY <2>7, <4>1 DEF Sensible, CallsWait
    <3>2. CallsUpTo(others, n + 1) = places
      <4>1. ~(n > 0 /\ others[n].role = "model")
        <5>1. n \in Nat /\ (n > 0 => n \in 1 .. n)
          BY <1>3
        <5> QED BY <1>3, <2>7, <5>1
      <4>2. n \in Nat /\ others[n + 1].role = "model"
        BY <1>3, <2>1
      <4> QED BY <4>1, <4>2, CallsUpToNext DEF places
    <3>3. Matched(others, {}, <<>>, open)
      BY <3>1, NothingIsMatched
    <3>4. Matched(others, {} \cup places, <<>>, wait)
      BY <2>5, <3>3
    <3>5. {} \cup places = places
      OBVIOUS
    <3> QED BY <1>3, <3>2, <3>4, <3>5 DEF LastMatched
  <2> QED BY <2>6, <2>7
<1>8. ASSUME NEW i \in 1 .. Len(others) - 1 PROVE MatchedAt(others, i, wait)
  <2>1. CASE i = n
    <3>1. others[i + 1].role = "model"
      BY <1>2, <1>3, <2>1
    <3> QED BY <3>1 DEF MatchedAt
  <2>2. CASE i # n /\ turns[i + 1].role # "user"
    <3>1. i + 1 \in 1 .. n
      BY <1>3, <2>2
    <3>2. others[i + 1] = turns[i + 1]
      BY <1>3, <3>1
    <3> QED BY <2>2, <3>2 DEF MatchedAt
  <2>3. CASE i # n /\ turns[i + 1].role = "user"
    <3>1. /\ i \in Nat /\ i \in 1 .. n - 1 /\ others[i] = turns[i]
          /\ \A k \in 1 .. i + 1 : others[k] = turns[k]
          /\ i + 1 # n + 1
      BY <1>3, <2>3
    <3>2. OpenAfter(others, i, wait) = {}
      BY <1>3, <3>1 DEF OpenAfter
    <3>3. OpenAfter(turns, i, open) = {}
      <4>1. CASE i + 1 = n
        <5>1. Last(turns) = turns[i + 1]
          BY <4>1 DEF Last, n
        <5> QED BY <2>3, <5>1 DEF OpenAfter
      <4>2. CASE i + 1 # n
        BY <4>2 DEF OpenAfter, n
      <4> QED BY <4>1, <4>2
    <3>4. MatchedAt(turns, i, open)
      BY <3>1 DEF Sensible, n
    <3> QED BY <3>1, <3>2, <3>3, <3>4, MatchedStays
  <2> QED BY <2>1, <2>2, <2>3
<1>9. wait \subseteq CallRecords
  BY <1>1
<1> HIDE DEF wait
<1>10. Sensible(others, wait)
  BY <1>3, <1>5, <1>6, <1>7, <1>8, <1>9 DEF Sensible
<1> QED BY <1>10 DEF others, wait, turn

LEMMA AddToLastIs ==
    ASSUME NEW turns \in Seq(TurnsSaid), turns # <<>>, NEW parts \in Seq(PartsSaid)
    PROVE  /\ AddToLast(turns, parts) \in Seq(TurnsSaid)
           /\ Len(turns) \in Nat \ {0} /\ Len(AddToLast(turns, parts)) = Len(turns)
           /\ \A k \in 1 .. Len(turns) - 1 : AddToLast(turns, parts)[k] = turns[k]
           /\ AddToLast(turns, parts)[Len(turns)].role = turns[Len(turns)].role
           /\ AddToLast(turns, parts)[Len(turns)].parts = turns[Len(turns)].parts \o parts
<1> DEFINE n    == Len(turns)
           turn == [turns[n] EXCEPT !.parts = turns[n].parts \o parts]
<1>1. n \in Nat \ {0} /\ n \in 1 .. n /\ turns[n] \in TurnsSaid
  BY EmptySeq, ElementOfSeq
<1>2. /\ turn \in TurnsSaid /\ turn.role = turns[n].role /\ turn.parts = turns[n].parts \o parts
  <2>1. turns[n].parts \o parts \in Seq(PartsSaid)
    BY <1>1, ConcatProperties DEF TurnsSaid
  <2> DEFINE both == turns[n].parts \o parts
  <2> HIDE DEF both, n
  <2> QED BY <1>1, <2>1 DEF TurnsSaid, both
<1>3. AddToLast(turns, parts) = [turns EXCEPT ![n] = turn]
  BY DEF AddToLast
<1> HIDE DEF turn
<1>4. /\ [turns EXCEPT ![n] = turn] \in Seq(TurnsSaid)
      /\ Len([turns EXCEPT ![n] = turn]) = n
      /\ \A j \in 1 .. n : [turns EXCEPT ![n] = turn][j] = IF j = n THEN turn ELSE turns[j]
  BY <1>1, <1>2, ExceptSeq
<1>5. \A k \in 1 .. n - 1 : k \in 1 .. n /\ k # n
  BY <1>1
<1> DEFINE others == AddToLast(turns, parts)
<1>6. /\ others \in Seq(TurnsSaid) /\ Len(others) = n /\ others[n] = turn
      /\ \A k \in 1 .. n - 1 : others[k] = turns[k]
  BY <1>1, <1>3, <1>4, <1>5
<1> HIDE DEF others
<1> QED BY <1>1, <1>2, <1>6 DEF others

\* A user turn beyond those there are: what the model asked for, it answers or nothing.
LEMMA UserTurnAppended ==
    ASSUME NEW turns, NEW open, Sensible(turns, open), NEW parts \in Seq(PartsSaid), NEW wait,
           Spoken(Turn("user", parts)), wait \subseteq CallRecords,
           CallsWait(Append(turns, Turn("user", parts)), wait),
           open = {} \/ Last(turns).role = "model",
           turns # <<>> =>
              \/ CallsUpTo(turns, Len(turns)) = {} /\ wait = {}
              \/ Matched(turns, CallsUpTo(turns, Len(turns)), parts, wait)
    PROVE  Sensible(Append(turns, Turn("user", parts)), wait)
<1> DEFINE n      == Len(turns)
           turn   == Turn("user", parts)
           others == Append(turns, turn)
<1>1. turns \in Seq(TurnsSaid)
  BY DEF Sensible
<1>2. turn \in TurnsSaid /\ turn.role = "user" /\ turn.parts = parts
  BY TurnIsSaid
<1> HIDE DEF turn
<1>3. /\ others \in Seq(TurnsSaid) /\ n \in Nat /\ Len(others) = n + 1
      /\ \A k \in 1 .. n : others[k] = turns[k]
      /\ others[n + 1] = turn /\ others # <<>>
  BY <1>1, <1>2, AppendIs
<1>4. CallsWait(others, wait)
  BY DEF turn
<1> HIDE DEF others, n
<1>5. \A i \in 1 .. Len(others) : Spoken(others[i])
  <2>1. Spoken(turn)
    BY DEF turn
  <2> QED BY <1>3, <2>1 DEF Sensible, n
<1>6. LastMatched(others, wait)
  BY <1>2, <1>3 DEF LastMatched, Last
<1>7. ASSUME NEW i \in 1 .. Len(others) - 1 PROVE MatchedAt(others, i, wait)
  <2>1. CASE i = n
    <3> DEFINE calls == CallsUpTo(turns, n)
    <3>1. /\ others[i + 1] = turn /\ OpenAfter(others, i, wait) = wait /\ turns # <<>>
          /\ n \in Nat /\ \A k \in 1 .. n : others[k] = turns[k]
      BY <1>1, <1>3, <2>1 DEF OpenAfter, n
    <3>2. CallsUpTo(others, n) = calls
      BY <3>1, CallsUpToSame
    <3>3. ASSUME NEW place \in calls PROVE NameAt(others, place) = NameAt(turns, place)
      <4>1. PICK k \in 1 .. n : place \in CallsIn(turns, k)
        BY <3>1, CallsUpToIs
      <4>2. place[1] = k /\ others[k] = turns[k]
        BY <3>1, <4>1 DEF CallsIn
      <4> QED BY <4>2 DEF NameAt
    <3>4. (calls = {} /\ wait = {}) \/ Matched(turns, calls, parts, wait)
      BY <3>1 DEF n
    <3> HIDE DEF calls
    <3>5. (calls = {} /\ wait = {}) \/ Matched(others, calls, parts, wait)
      BY <3>3, <3>4, NamesAreAllThatMatters
    <3> QED BY <1>2, <2>1, <3>1, <3>2, <3>5 DEF MatchedAt
  <2>2. CASE i # n /\ turns[i + 1].role # "user"
    <3>1. i + 1 \in 1 .. n
      BY <1>3, <2>2
    <3>2. others[i + 1] = turns[i + 1]
      BY <1>3, <3>1
    <3> QED BY <2>2, <3>2 DEF MatchedAt
  <2>3. CASE i # n /\ turns[i + 1].role = "user"
    <3>1. /\ i \in Nat /\ i \in 1 .. n - 1 /\ others[i] = turns[i]
          /\ \A k \in 1 .. i + 1 : others[k] = turns[k]
          /\ i + 1 # n + 1
      BY <1>3, <2>3
    <3>2. OpenAfter(others, i, wait) = {}
      BY <1>3, <3>1 DEF OpenAfter
    <3>3. OpenAfter(turns, i, open) = {}
      <4>1. CASE i + 1 = n
        <5>1. Last(turns) = turns[i + 1]
          BY <4>1 DEF Last, n
        <5> QED BY <2>3, <5>1 DEF OpenAfter
      <4>2. CASE i + 1 # n
        BY <4>2 DEF OpenAfter, n
      <4> QED BY <4>1, <4>2
    <3>4. MatchedAt(turns, i, open)
      BY <3>1 DEF Sensible, n
    <3> QED BY <3>1, <3>2, <3>3, <3>4, MatchedStays
  <2> QED BY <2>1, <2>2, <2>3
<1>8. Sensible(others, wait)
  BY <1>3, <1>4, <1>5, <1>6, <1>7 DEF Sensible
<1> QED BY <1>8 DEF others, turn

\* More parts of the last user turn.
LEMMA UserTurnGrown ==
    ASSUME NEW turns, NEW open, Sensible(turns, open), turns # <<>>, Last(turns).role = "user",
           NEW parts \in Seq(PartsSaid), NEW wait, wait \subseteq CallRecords,
           Spoken(Turn("user", Last(turns).parts \o parts)),
           CallsWait(AddToLast(turns, parts), wait),
           \/ wait = {} /\ NoResults(Last(turns))
           \/ Len(turns) > 1 => Matched(turns, CallsUpTo(turns, Len(turns) - 1), Last(turns).parts \o parts, wait)
    PROVE  Sensible(AddToLast(turns, parts), wait)
<1> DEFINE n      == Len(turns)
           both   == Last(turns).parts \o parts
           others == AddToLast(turns, parts)
<1>1. turns \in Seq(TurnsSaid) /\ Last(turns) = turns[n]
  BY DEF Sensible, Last
<1>2. /\ others \in Seq(TurnsSaid) /\ n \in Nat \ {0} /\ Len(others) = n
      /\ \A k \in 1 .. n - 1 : others[k] = turns[k]
      /\ others[n].role = "user" /\ others[n].parts = both
  BY <1>1, AddToLastIs
<1>3. CallsWait(others, wait)
  OBVIOUS
<1>4. Spoken(others[n])
  <2>1. Turn("user", both).role = "user" /\ Turn("user", both).parts = both
    BY DEF Turn
  <2>2. Spoken(Turn("user", both))
    OBVIOUS
  <2> HIDE DEF both, others, n
  <2> QED BY <1>2, <2>1, <2>2 DEF Spoken, OnlyResults, NoResults
<1> HIDE DEF others, n, both
<1>6. \A i \in 1 .. Len(others) : Spoken(others[i])
  <2>1. \A i \in 1 .. n : i \in 1 .. n - 1 \/ i = n
    BY <1>2
  <2> QED BY <1>2, <1>4, <2>1 DEF Sensible, n
<1>7. LastMatched(others, wait)
  BY <1>2 DEF LastMatched, Last
<1>8. ASSUME NEW i \in 1 .. Len(others) - 1 PROVE MatchedAt(others, i, wait)
  <2>1. i \in Nat /\ i \in 1 .. n - 1 /\ others[i] = turns[i] /\ \A k \in 1 .. i : others[k] = turns[k]
    BY <1>2
  <2>2. CASE i = n - 1
    <3> DEFINE calls == CallsUpTo(turns, i)
    <3>1. i + 1 = n /\ OpenAfter(others, i, wait) = wait /\ OpenAfter(turns, i, open) = open /\ n > 1
      BY <1>2, <2>1, <2>2 DEF OpenAfter, n
    <3>2. CallsUpTo(others, i) = calls
      BY <2>1, CallsUpToSame
    <3>3. ASSUME NEW place \in calls PROVE NameAt(others, place) = NameAt(turns, place)
      <4>1. PICK k \in 1 .. i : place \in CallsIn(turns, k)
        BY <2>1, CallsUpToIs
      <4>2. place[1] = k /\ others[k] = turns[k]
        BY <2>1, <4>1 DEF CallsIn
      <4> QED BY <4>2 DEF NameAt
    <3>4. CASE wait = {} /\ NoResults(Last(turns))
      <4>1. turns[i].role = "model" => calls = {}
        <5> SUFFICES ASSUME turns[i].role = "model", calls # {} PROVE FALSE
          OBVIOUS
        <5>1. MatchedAt(turns, i, open)
          BY <2>1 DEF Sensible, n
        <5>2. Matched(turns, calls, turns[n].parts, open)
          BY <1>1, <3>1, <5>1 DEF MatchedAt
        <5>3. \A j \in DOMAIN turns[n].parts : turns[n].parts[j].kind = "result"
          BY <5>2 DEF Matched
        <5>4. 1 \in DOMAIN turns[n].parts
          <6>1. turns[n] \in TurnsSaid /\ Spoken(turns[n])
            BY <1>1, <1>2 DEF Sensible, n
          <6> QED BY <6>1 DEF Spoken, TurnsSaid
        <5> QED BY <1>1, <3>4, <5>3, <5>4 DEF NoResults
      <4> HIDE DEF calls
      <4> QED BY <2>1, <3>1, <3>2, <3>4, <4>1 DEF MatchedAt
    <3>5. CASE Matched(turns, calls, both, wait)
      <4> HIDE DEF calls
      <4>1. Matched(others, calls, both, wait)
        BY <3>3, <3>5, NamesAreAllThatMatters
      <4> QED BY <1>2, <2>1, <3>1, <3>2, <4>1 DEF MatchedAt
    <3>6. Len(turns) - 1 = i /\ Len(turns) > 1
      BY <1>2, <2>2, <3>1 DEF n
    <3> QED BY <3>4, <3>5, <3>6 DEF both
  <2>3. CASE i # n - 1
    <3>1. i + 1 # n /\ \A k \in 1 .. i + 1 : others[k] = turns[k]
      BY <1>2, <2>1, <2>3
    <3>2. OpenAfter(others, i, wait) = OpenAfter(turns, i, open)
      BY <1>2, <3>1 DEF OpenAfter, n
    <3>3. MatchedAt(turns, i, open)
      BY <2>1 DEF Sensible, n
    <3> QED BY <2>1, <3>1, <3>2, <3>3, MatchedStays
  <2> QED BY <2>2, <2>3
<1>9. Sensible(others, wait)
  BY <1>2, <1>3, <1>6, <1>7, <1>8 DEF Sensible
<1> QED BY <1>9 DEF others

-----------------------------------------------------------------------------
(* REQUESTS: one message converted *)

\* The names that open calls go by are known.
Named(names, open) == \A c \in open : c.id \in DOMAIN names /\ names[c.id] = c.name

Convo(done, open) == Named(done.names, open) /\ Sensible(done.turns, open)

Messages ==
    [role : {"user", "system", "assistant", "tool"}, text : BOOLEAN, calls : Seq(CallRecords),
     id : Words, name : Words]

LEMMA PartsAreSaid ==
    /\ TextPart \in PartsSaid /\ TextPart.kind = "text"
    /\ \A name \in Words : ResultPart(name) \in PartsSaid /\ ResultPart(name).kind = "result" /\ ResultPart(name).name = name
    /\ \A call \in CallRecords : \A family :
          /\ CallPart(call, family) \in PartsSaid
          /\ CallPart(call, family).kind = "call" /\ CallPart(call, family).name = call.name
<1>1. "" \in Words
  BY DEF Words
<1>2. TextPart \in PartsSaid /\ TextPart.kind = "text"
  BY <1>1 DEF TextPart, PartsSaid
<1>3. ASSUME NEW name \in Words
      PROVE  ResultPart(name) \in PartsSaid /\ ResultPart(name).kind = "result" /\ ResultPart(name).name = name
  BY <1>1 DEF ResultPart, PartsSaid
<1>4. ASSUME NEW call \in CallRecords, NEW family
      PROVE  /\ CallPart(call, family) \in PartsSaid
             /\ CallPart(call, family).kind = "call" /\ CallPart(call, family).name = call.name
  <2>1. call.id \in Words /\ call.name \in Words
    BY DEF Words
  <2>2. \A id \in Words : [kind |-> "call", name |-> call.name, id |-> id] \in PartsSaid
    BY <2>1 DEF PartsSaid
  <2> QED BY <1>1, <2>1, <2>2 DEF CallPart
<1> QED BY <1>2, <1>3, <1>4

\* A message without calls leaves the names as they are.
LEMMA NamesStay ==
    ASSUME NEW names, NEW open, Named(names, open)
    PROVE  Named(Naming(names, <<>>), open)
<1>1. DOMAIN <<>> = {}
  OBVIOUS
<1>2. DOMAIN Naming(names, <<>>) = DOMAIN names
  BY <1>1 DEF Naming
<1>3. \A id \in DOMAIN names : Naming(names, <<>>)[id] = names[id]
  BY <1>1 DEF Naming
<1> QED BY <1>2, <1>3 DEF Named

\* No calls are made up to a turn of the user.
LEMMA NoCallsUpToUser ==
    ASSUME NEW turns, NEW n \in Nat, n = 0 \/ turns[n].role # "model"
    PROVE  CallsUpTo(turns, n) = {}
<1>1. ASSUME NEW place \in CallsUpTo(turns, n) PROVE FALSE
  <2>1. PICK k \in 1 .. n : \A j \in k .. n : turns[j].role = "model"
    BY CallsUpToIs
  <2>2. n \in k .. n /\ n # 0
    OBVIOUS
  <2> QED BY <2>1, <2>2
<1> QED BY <1>1

\* With every call answered the user may say something.
LEMMA UserSpeaks ==
    ASSUME NEW turns, Sensible(turns, {})
    PROVE  Sensible(AddUser(turns, <<TextPart>>, FALSE), {})
<1> DEFINE n == Len(turns)
           parts == <<TextPart>>
<1>1. /\ turns \in Seq(TurnsSaid) /\ n \in Nat /\ Last(turns) = turns[n]
      /\ turns # <<>> => n \in 1 .. n /\ turns[n] \in TurnsSaid /\ Spoken(turns[n])
  BY EmptySeq DEF Sensible, Last
<1>2. /\ parts \in Seq(PartsSaid) /\ parts # <<>> /\ Len(parts) = 1 /\ parts[1].kind # "result"
      /\ DOMAIN parts = {1}
  BY PartsAreSaid
<1> HIDE DEF parts
<1>3. \A others : CallsWait(others, {})
  BY DEF CallsWait
<1>4. CASE turns # <<>> /\ Last(turns).role = "user" /\ ~OnlyResults(Last(turns))
  <2>1. AddUser(turns, parts, FALSE) = AddToLast(turns, parts)
    BY <1>2, <1>4 DEF AddUser
  <2>2. NoResults(Last(turns)) /\ Last(turns).parts \in Seq(PartsSaid)
    BY <1>1, <1>4 DEF Spoken, TurnsSaid
  <2>3. Spoken(Turn("user", Last(turns).parts \o parts))
    <3> DEFINE old == Last(turns).parts
               both == old \o parts
    <3>1. /\ both \in Seq(PartsSaid) /\ Len(both) = Len(old) + 1 /\ Len(old) \in Nat
          /\ \A j \in 1 .. Len(both) : both[j] = IF j <= Len(old) THEN old[j] ELSE parts[j - Len(old)]
      BY <1>2, <2>2, ConcatProperties
    <3>2. \A j \in 1 .. Len(old) : old[j].kind # "result"
      BY <2>2 DEF NoResults
    <3> HIDE DEF old, both
    <3>3. DOMAIN both = 1 .. Len(both) /\ both # <<>>
      BY <3>1
    <3>4. ASSUME NEW j \in DOMAIN both PROVE both[j].kind # "result"
      <4>1. CASE j <= Len(old)
        BY <3>1, <3>2, <3>3, <4>1
      <4>2. CASE ~(j <= Len(old))
        <5>1. j - Len(old) = 1
          BY <3>1, <3>3, <4>2
        <5> QED BY <1>2, <3>1, <3>3, <4>2, <5>1
      <4> QED BY <4>1, <4>2
    <3>5. Turn("user", both).role = "user" /\ Turn("user", both).parts = both
      BY DEF Turn
    <3>6. Spoken(Turn("user", both))
      BY <3>3, <3>4, <3>5 DEF Spoken, NoResults
    <3> QED BY <3>6 DEF both, old
  <2>4. Sensible(AddToLast(turns, parts), {})
    BY <1>2, <1>3, <1>4, <2>2, <2>3, UserTurnGrown
  <2> QED BY <2>1, <2>4 DEF parts
<1>5. CASE ~(turns # <<>> /\ Last(turns).role = "user" /\ ~OnlyResults(Last(turns)))
  <2>1. AddUser(turns, parts, FALSE) = Append(turns, Turn("user", parts))
    BY <1>2, <1>5 DEF AddUser, OnlyResults
  <2>2. Spoken(Turn("user", parts))
    <3>1. Turn("user", parts).role = "user" /\ Turn("user", parts).parts = parts
      BY DEF Turn
    <3> QED BY <1>2, <3>1 DEF Spoken, NoResults
  <2>3. turns # <<>> => CallsUpTo(turns, Len(turns)) = {}
    <3>1. CASE turns # <<>> /\ Last(turns).role = "model"
      <4>1. Matched(turns, CallsUpTo(turns, Len(turns)), <<>>, {})
        BY <3>1 DEF Sensible, LastMatched
      <4> QED BY <4>1, MatchedNothing
    <3>2. CASE turns # <<>> /\ Last(turns).role # "model"
      BY <1>1, <3>2, NoCallsUpToUser
    <3> QED BY <3>1, <3>2
  <2>4. Sensible(Append(turns, Turn("user", parts)), {})
    BY <1>2, <1>3, <2>2, <2>3, UserTurnAppended
  <2> QED BY <2>1, <2>4 DEF parts
<1> QED BY <1>4, <1>5

\* A result closes its call.
LEMMA UserAnswers ==
    ASSUME NEW turns, NEW open, Sensible(turns, open), NEW c \in open
    PROVE  Sensible(AddUser(turns, <<ResultPart(c.name)>>, TRUE), open \ {c})
<1> DEFINE n    == Len(turns)
           part == ResultPart(c.name)
           parts == <<part>>
           wait == open \ {c}
<1>1. c \in CallRecords /\ c.name \in Words /\ open \subseteq CallRecords /\ wait \subseteq CallRecords
  BY DEF Sensible, Words
<1>2. part \in PartsSaid /\ part.kind = "result" /\ part.name = c.name
  BY <1>1, PartsAreSaid
<1> HIDE DEF part
<1>3. /\ parts \in Seq(PartsSaid) /\ parts # <<>> /\ Len(parts) = 1 /\ DOMAIN parts = {1} /\ parts[1] = part
      /\ Append(<<>>, part) = parts
  BY <1>2
<1>4. /\ turns \in Seq(TurnsSaid) /\ turns # <<>> /\ n \in Nat \ {0} /\ Last(turns) = turns[n]
      /\ n \in 1 .. n /\ turns[n] \in TurnsSaid /\ Spoken(turns[n])
  <2>1. turns \in Seq(TurnsSaid) /\ turns # <<>> /\ Last(turns) = turns[n]
    BY DEF Sensible, CallsWait, Last
  <2>2. n \in Nat \ {0} /\ n \in 1 .. n
    BY <2>1, EmptySeq
  <2> QED BY <2>1, <2>2 DEF Sensible
<1>5. CASE Last(turns).role = "user" /\ OnlyResults(Last(turns))
  <2> DEFINE old  == Last(turns).parts
             both == old \o parts
  <2>1. AddUser(turns, parts, TRUE) = AddToLast(turns, parts)
    BY <1>3, <1>4, <1>5 DEF AddUser, OnlyResults
  <2>2. n > 1 /\ turns[n - 1].role = "model"
    BY <1>5 DEF Sensible, CallsWait
  <2>3. old \in Seq(PartsSaid)
    BY <1>4 DEF TurnsSaid
  <2>4. both = Append(old, part)
    BY <1>3, <2>3
  <2>5. Matched(turns, CallsUpTo(turns, n - 1), both, wait)
    <3>1. n - 1 \in 1 .. n - 1 /\ (n - 1) + 1 = n
      BY <1>4, <2>2
    <3>2. MatchedAt(turns, n - 1, open)
      BY <3>1 DEF Sensible
    <3>3. OpenAfter(turns, n - 1, open) = open
      BY <3>1 DEF OpenAfter
    <3>4. Matched(turns, CallsUpTo(turns, n - 1), old, open)
      <4> HIDE DEF n
      <4> QED BY <1>4, <1>5, <2>2, <3>1, <3>2, <3>3 DEF MatchedAt
    <3> DEFINE calls == CallsUpTo(turns, n - 1)
    <3> HIDE DEF calls, old, both, wait
    <3>5. Matched(turns, calls, Append(old, part), open \ {c})
      BY <1>2, <2>3, <3>4, MatchedResult DEF calls
    <3> QED BY <2>4, <3>5 DEF calls, wait
  <2>6. Turn("user", both).role = "user" /\ Turn("user", both).parts = both /\ both # <<>>
    BY <2>3, <2>4 DEF Turn
  <2>7. \A j \in DOMAIN both : both[j].kind = "result"
    <3>1. \A j \in DOMAIN old : old[j].kind = "result"
      BY <1>5 DEF OnlyResults
    <3> HIDE DEF old
    <3> QED BY <1>2, <2>3, <2>4, <3>1
  <2>8. Spoken(Turn("user", both))
    <3> HIDE DEF both
    <3> QED BY <2>6, <2>7 DEF Spoken, OnlyResults
  <2>9. CallsWait(AddToLast(turns, parts), wait)
    <3> DEFINE others == AddToLast(turns, parts)
    <3>1. /\ others \in Seq(TurnsSaid) /\ Len(others) = n /\ others[n - 1] = turns[n - 1]
          /\ others[n].role = turns[n].role /\ others[n].parts = both
      <4>1. n - 1 \in 1 .. n - 1
        BY <1>4, <2>2
      <4> QED BY <1>3, <1>4, <4>1, AddToLastIs
    <3> HIDE DEF others, both, n
    <3>2. Last(others).role = "user" /\ OnlyResults(Last(others)) /\ others # <<>>
      BY <1>4, <1>5, <2>6, <2>7, <3>1 DEF Last, OnlyResults
    <3> QED BY <2>2, <3>1, <3>2 DEF CallsWait, others
  <2>10. Sensible(AddToLast(turns, parts), wait)
    <3> HIDE DEF parts, wait
    <3> QED BY <1>1, <1>3, <1>4, <1>5, <2>5, <2>8, <2>9, UserTurnGrown
  <2> QED BY <2>1, <2>10 DEF part
<1>6. CASE ~(Last(turns).role = "user" /\ OnlyResults(Last(turns)))
  <2>1. AddUser(turns, parts, TRUE) = Append(turns, Turn("user", parts))
    BY <1>3, <1>4, <1>6 DEF AddUser, OnlyResults
  <2>2. Last(turns).role = "model"
    BY <1>6 DEF Sensible, CallsWait
  <2>3. Matched(turns, CallsUpTo(turns, Len(turns)), parts, wait)
    <3>1. Matched(turns, CallsUpTo(turns, Len(turns)), <<>>, open)
      BY <1>4, <2>2 DEF Sensible, LastMatched
    <3> DEFINE calls == CallsUpTo(turns, Len(turns))
               nothing == <<>>
    <3>2. nothing \in Seq(PartsSaid) /\ Append(nothing, part) = parts
      BY <1>3
    <3>3. Matched(turns, calls, nothing, open)
      BY <3>1
    <3> HIDE DEF calls, nothing
    <3>4. Matched(turns, calls, Append(nothing, part), open \ {c})
      BY <1>2, <3>2, <3>3, MatchedResult
    <3> QED BY <3>2, <3>4 DEF calls
  <2>4. Turn("user", parts).role = "user" /\ Turn("user", parts).parts = parts
    BY DEF Turn
  <2>5. OnlyResults(Turn("user", parts)) /\ Spoken(Turn("user", parts))
    BY <1>2, <1>3, <2>4 DEF Spoken, OnlyResults
  <2>6. CallsWait(Append(turns, Turn("user", parts)), wait)
    <3> DEFINE turn == Turn("user", parts)
               others == Append(turns, turn)
    <3>1. turn \in TurnsSaid
      BY <1>3, TurnIsSaid
    <3> HIDE DEF turn
    <3>2. /\ Len(others) = n + 1 /\ others[n] = turns[n] /\ others[n + 1] = turn /\ others # <<>>
          /\ n + 1 > 1 /\ (n + 1) - 1 = n
      BY <1>4, <3>1, AppendIs
    <3>3. Last(others) = turn /\ turn.role = "user" /\ OnlyResults(turn)
      BY <2>4, <2>5, <3>2 DEF Last, turn
    <3> HIDE DEF others, n
    <3>4. CallsWait(others, wait)
      BY <1>4, <2>2, <3>2, <3>3 DEF CallsWait
    <3> QED BY <3>4 DEF others, turn
  <2>7. Sensible(Append(turns, Turn("user", parts)), wait)
    <3> HIDE DEF parts, wait
    <3> QED BY <1>1, <1>3, <2>2, <2>3, <2>5, <2>6, UserTurnAppended
  <2> QED BY <2>1, <2>7 DEF part
<1> QED BY <1>5, <1>6

LEMMA ConvertedIs ==
    ASSUME NEW done, NEW m, NEW family
    PROVE  /\ Converted(done, m, family).names = Naming(done.names, m.calls)
           /\ m.role = "system" => Converted(done, m, family).turns = done.turns
           /\ m.role = "user" => Converted(done, m, family).turns = AddUser(done.turns, TextOf(m), FALSE)
           /\ m.role = "tool" =>
                 Converted(done, m, family).turns =
                    AddUser(done.turns, <<ResultPart(ResultName(m, Naming(done.names, m.calls)))>>, TRUE)
BY DEF Converted

\* User and system messages leave the calls alone.
LEMMA ConvertedSpeaks ==
    ASSUME NEW done, NEW open, Convo(done, open), NEW m, NEW family,
           m.calls = <<>>, m.role \in {"user", "system"}, m.role = "user" => open = {}
    PROVE  Convo(Converted(done, m, family), open)
<1> DEFINE next == Converted(done, m, family)
<1>1. next.names = Naming(done.names, <<>>)
  BY ConvertedIs
<1>2. Named(next.names, open)
  BY <1>1, NamesStay DEF Convo
<1>3. Sensible(next.turns, open)
  <2>1. CASE m.role = "system"
    BY <2>1, ConvertedIs DEF Convo
  <2>2. CASE m.role = "user"
    <3>1. next.turns = AddUser(done.turns, TextOf(m), FALSE)
      BY <2>2, ConvertedIs
    <3>2. Sensible(done.turns, {}) /\ open = {}
      BY <2>2 DEF Convo
    <3>3. TextOf(m) = <<TextPart>> \/ TextOf(m) = <<>>
      BY DEF TextOf
    <3>4. CASE TextOf(m) = <<>>
      BY <3>1, <3>2, <3>4 DEF AddUser
    <3>5. CASE TextOf(m) = <<TextPart>>
      BY <3>1, <3>2, <3>5, UserSpeaks
    <3> QED BY <3>3, <3>4, <3>5
  <2> QED BY <2>1, <2>2
<1> QED BY <1>2, <1>3 DEF Convo

\* A result, with the name of the tool or without it, closes its call.
LEMMA ConvertedAnswers ==
    ASSUME NEW done, NEW open, Convo(done, open), NEW c \in open, NEW m, NEW family,
           m.calls = <<>>, m.role = "tool", m.id = c.id, m.name = "" \/ m.name = c.name
    PROVE  Convo(Converted(done, m, family), open \ {c})
<1> DEFINE next  == Converted(done, m, family)
           names == Naming(done.names, <<>>)
<1>1. next.names = names /\ next.turns = AddUser(done.turns, <<ResultPart(ResultName(m, names))>>, TRUE)
  <2>1. m.calls = <<>> /\ m.role = "tool"
    OBVIOUS
  <2>2. /\ next.names = Naming(done.names, m.calls)
        /\ next.turns = AddUser(done.turns, <<ResultPart(ResultName(m, Naming(done.names, m.calls)))>>, TRUE)
    BY <2>1, ConvertedIs
  <2> HIDE DEF next
  <2> QED BY <2>1, <2>2
<1>2. Named(names, open)
  BY NamesStay DEF Convo
<1>3. ResultName(m, names) = c.name
  BY <1>2 DEF ResultName, Named
<1>4. Named(next.names, open \ {c})
  BY <1>1, <1>2 DEF Named
<1>5. Sensible(next.turns, open \ {c})
  <2>1. next.turns = AddUser(done.turns, <<ResultPart(c.name)>>, TRUE)
    BY <1>1, <1>3
  <2>2. Sensible(done.turns, open)
    BY DEF Convo
  <2> HIDE DEF next
  <2>3. Sensible(AddUser(done.turns, <<ResultPart(c.name)>>, TRUE), open \ {c})
    BY <2>2, UserAnswers
  <2> QED BY <2>1, <2>3
<1> QED BY <1>4, <1>5 DEF Convo

\* The calls of a message are remembered by their ids, which other open calls do not have.
LEMMA NamesAdded ==
    ASSUME NEW names, NEW open, Named(names, open), NEW calls \in Seq(CallRecords),
           \A i, j \in DOMAIN calls : calls[i].id = calls[j].id => i = j,
           \A c \in open, i \in DOMAIN calls : c.id # calls[i].id
    PROVE  Named(Naming(names, calls), open \cup {calls[i] : i \in DOMAIN calls})
<1> DEFINE next == Naming(names, calls)
           at(id) == CHOOSE i \in DOMAIN calls : calls[i].id = id
<1>1. DOMAIN next = DOMAIN names \cup {calls[i].id : i \in DOMAIN calls}
  BY DEF Naming
<1>2. ASSUME NEW c \in open PROVE c.id \in DOMAIN next /\ next[c.id] = c.name
  <2>1. c.id \in DOMAIN names /\ names[c.id] = c.name /\ ~\E i \in DOMAIN calls : calls[i].id = c.id
    BY DEF Named
  <2>2. next[c.id] = names[c.id]
    BY <2>1 DEF Naming
  <2> QED BY <1>1, <2>1, <2>2
<1>3. ASSUME NEW i \in DOMAIN calls PROVE calls[i].id \in DOMAIN next /\ next[calls[i].id] = calls[i].name
  <2> DEFINE id == calls[i].id
  <2>1. id \in DOMAIN next /\ \E j \in DOMAIN calls : calls[j].id = id
    BY <1>1
  <2>2. next[id] = calls[at(id)].name
    BY <2>1 DEF Naming
  <2>3. at(id) \in DOMAIN calls /\ calls[at(id)].id = id
    BY <2>1
  <2>4. at(id) = i
    BY <2>3
  <2> QED BY <2>1, <2>2, <2>4
<1> HIDE DEF next
<1>4. ASSUME NEW c \in open \cup {calls[i] : i \in DOMAIN calls}
      PROVE  c.id \in DOMAIN next /\ next[c.id] = c.name
  BY <1>2, <1>3
<1> QED BY <1>4 DEF Named, next

\* The text of a message is one part or none.
LEMMA TextIs ==
    ASSUME NEW m
    PROVE  \E text \in Seq(PartsSaid) :
              text = TextOf(m) /\ Len(text) \in 0 .. 1 /\ \A j \in 1 .. Len(text) : text[j].kind = "text"
<1> DEFINE Is(text) ==
              text = TextOf(m) /\ Len(text) \in 0 .. 1 /\ \A j \in 1 .. Len(text) : text[j].kind = "text"
           text == TextOf(m)
<1>1. <<TextPart>> \in Seq(PartsSaid) /\ Len(<<TextPart>>) = 1 /\ <<TextPart>>[1].kind = "text"
  BY PartsAreSaid
<1>2. <<>> \in Seq(PartsSaid) /\ Len(<<>>) = 0
  OBVIOUS
<1>3. text = <<TextPart>> \/ text = <<>>
  BY DEF TextOf
<1>4. text = TextOf(m)
  OBVIOUS
<1> HIDE DEF text
<1>5. Is(text) /\ text \in Seq(PartsSaid)
  <2>1. CASE text = <<TextPart>>
    BY <1>1, <1>4, <2>1
  <2>2. CASE text = <<>>
    BY <1>2, <1>4, <2>2
  <2> QED BY <1>3, <2>1, <2>2
<1> HIDE DEF Is
<1>6. \E x \in Seq(PartsSaid) : Is(x)
  BY <1>5
<1> QED BY <1>6 DEF Is

CallParts(calls, family) == [i \in DOMAIN calls |-> CallPart(calls[i], family)]

\* The parts of an assistant message are its text and its calls, in order.
CallsSaid(parts, text, calls, family) ==
    /\ parts = text \o CallParts(calls, family) /\ Len(parts) = Len(text) + Len(calls)
    /\ \A j \in 1 .. Len(text) : parts[j].kind = "text"
    /\ \A i \in 1 .. Len(calls) :
          parts[Len(text) + i].kind = "call" /\ parts[Len(text) + i].name = calls[i].name

LEMMA CallPartsAre ==
    ASSUME NEW calls \in Seq(CallRecords), NEW family, NEW text \in Seq(PartsSaid),
           \A j \in 1 .. Len(text) : text[j].kind = "text"
    PROVE  \E parts \in Seq(PartsSaid) : CallsSaid(parts, text, calls, family)
<1> DEFINE said == CallParts(calls, family)
           parts == text \o said
           t == Len(text)
           n == Len(calls)
<1>1. n \in Nat /\ DOMAIN calls = 1 .. n /\ t \in Nat
  OBVIOUS
<1>2. \A i \in 1 .. n : /\ calls[i] \in CallRecords
                        /\ said[i] \in PartsSaid /\ said[i].kind = "call" /\ said[i].name = calls[i].name
  BY <1>1, PartsAreSaid DEF CallParts
<1>3. said = [i \in 1 .. n |-> said[i]]
  BY <1>1 DEF CallParts
<1> HIDE DEF said
<1>4. said \in Seq(PartsSaid) /\ Len(said) = n
  BY <1>1, <1>2, <1>3
<1>5. /\ parts \in Seq(PartsSaid) /\ Len(parts) = t + n
      /\ \A j \in 1 .. t + n : parts[j] = IF j <= t THEN text[j] ELSE said[j - t]
  <2>1. parts = text \o said
    BY DEF said
  <2>2. /\ text \o said \in Seq(PartsSaid) /\ Len(text \o said) = Len(text) + Len(said)
        /\ \A j \in 1 .. Len(text) + Len(said) :
              (text \o said)[j] = IF j <= Len(text) THEN text[j] ELSE said[j - Len(text)]
    BY <1>4, ConcatProperties
  <2> QED BY <1>4, <2>1, <2>2
<1>6. \A j \in 1 .. t : parts[j] = text[j]
  BY <1>1, <1>5
<1>7. ASSUME NEW i \in 1 .. n PROVE parts[t + i] = said[i]
  <2>1. t + i \in 1 .. t + n /\ ~(t + i <= t) /\ (t + i) - t = i
    BY <1>1
  <2> QED BY <1>5, <2>1
<1>8. parts = text \o CallParts(calls, family)
  BY DEF said
<1> HIDE DEF parts
<1>9. CallsSaid(parts, text, calls, family) /\ parts \in Seq(PartsSaid)
  BY <1>2, <1>5, <1>6, <1>7, <1>8 DEF CallsSaid
<1> QED BY <1>9

MadeOf(calls) == {calls[i] : i \in DOMAIN calls}

OwnIds(calls, open) ==
    /\ \A i, j \in DOMAIN calls : calls[i].id = calls[j].id => i = j
    /\ \A c \in open, i \in DOMAIN calls : c.id # calls[i].id

ModelLast(turns) == turns # <<>> /\ Last(turns).role = "model"

\* A message of the model adds its calls to the open ones.
LEMMA ConvertedCalls ==
    ASSUME NEW done, NEW open, Convo(done, open),
           NEW m, NEW family, m.role = "assistant", NEW calls \in Seq(CallRecords), m.calls = calls,
           OwnIds(calls, open), open # {} => ModelLast(done.turns)
    PROVE  /\ Convo(Converted(done, m, family), open \cup MadeOf(calls))
           /\ calls # <<>> => ModelLast(Converted(done, m, family).turns)
<1> USE DEF MadeOf, OwnIds, ModelLast
<1> DEFINE next == Converted(done, m, family)
           made == {calls[i] : i \in DOMAIN calls}
<1>1. PICK text \in Seq(PartsSaid) :
         text = TextOf(m) /\ Len(text) \in 0 .. 1 /\ \A j \in 1 .. Len(text) : text[j].kind = "text"
  BY TextIs
<1>2. PICK parts \in Seq(PartsSaid) : CallsSaid(parts, text, calls, family)
  BY <1>1, CallPartsAre
<1>3. /\ next.names = Naming(done.names, calls)
      /\ parts = <<>> => next.turns = done.turns
      /\ parts # <<>> => next.turns = Append(done.turns, Turn("model", parts))
  BY <1>1, <1>2 DEF Converted, CallParts, CallsSaid
<1>4. Named(next.names, open \cup made)
  BY <1>3, NamesAdded DEF Convo
<1> HIDE DEF next
<1> DEFINE t == Len(text)
           n == Len(calls)
<1>5. n \in Nat /\ DOMAIN calls = 1 .. n /\ (calls # <<>> => n > 0)
  OBVIOUS
<1>6. CASE parts = <<>>
  <2>1. t + n = 0
    BY <1>2, <1>6 DEF CallsSaid
  <2>2. n = 0 /\ calls = <<>>
    BY <1>1, <1>5, <2>1
  <2>3. made = {}
    BY <1>5, <2>2
  <2>4. open \cup made = open
    BY <2>3
  <2> QED BY <1>3, <1>4, <1>6, <2>2, <2>4 DEF Convo, next
<1>7. CASE parts # <<>>
  <2> DEFINE place(c) == CHOOSE i \in DOMAIN calls : calls[i] = c
             at == [c \in made |-> t + place(c)]
  <2>1. \A c \in made : place(c) \in 1 .. n /\ calls[place(c)] = c
    BY <1>5
  <2>2. \A i \in 1 .. n : calls[i] \in made /\ place(calls[i]) = i
    <3>1. ASSUME NEW i \in 1 .. n PROVE calls[i] \in made
      BY <1>5
    <3>2. ASSUME NEW i \in 1 .. n PROVE place(calls[i]) = i
      <4>1. calls[place(calls[i])] = calls[i] /\ place(calls[i]) \in 1 .. n
        BY <2>1, <3>1
      <4> HIDE DEF place
      <4> QED BY <1>5, <4>1
    <3> QED BY <3>1, <3>2
  <2> HIDE DEF made, place
  <2>3. \A c \in made : at[c] = t + place(c)
    OBVIOUS
  <2>4. at \in [made -> 1 .. Len(parts)]
    <3>1. \A c \in made : t + place(c) \in 1 .. Len(parts)
      BY <1>1, <1>2, <1>5, <2>1 DEF CallsSaid
    <3> QED BY <3>1
  <2> HIDE DEF at
  <2>5. \A c, d \in made : at[c] = at[d] => c = d
    <3> SUFFICES ASSUME NEW c \in made, NEW d \in made, at[c] = at[d] PROVE c = d
      OBVIOUS
    <3>1. place(c) = place(d)
      BY <1>1, <1>5, <2>1, <2>3
    <3> QED BY <2>1, <3>1
  <2>6. \A j \in 1 .. Len(parts) : j \in 1 .. t \/ (j - t \in 1 .. n /\ j = t + (j - t))
    BY <1>1, <1>2, <1>5 DEF CallsSaid
  <2>7. \A j \in 1 .. Len(parts) : parts[j].kind # "result"
    BY <1>2, <2>6 DEF CallsSaid
  <2>8. ASSUME NEW j \in 1 .. Len(parts)
        PROVE  parts[j].kind = "call" <=> \E c \in made : at[c] = j
    <3>1. CASE j \in 1 .. t
      <4>1. parts[j].kind # "call"
        BY <1>2, <3>1 DEF CallsSaid
      <4>2. \A c \in made : at[c] # j
        BY <1>1, <1>5, <2>1, <2>3, <3>1
      <4> QED BY <4>1, <4>2
    <3>2. CASE j - t \in 1 .. n /\ j = t + (j - t)
      <4>1. parts[j].kind = "call"
        BY <1>2, <3>2 DEF CallsSaid
      <4>2. at[calls[j - t]] = j /\ calls[j - t] \in made
        BY <2>2, <2>3, <3>2
      <4> QED BY <4>1, <4>2
    <3> QED BY <2>6, <3>1, <3>2
  <2>9. ASSUME NEW c \in made PROVE c.name = parts[at[c]].name
    <3>1. place(c) \in 1 .. n /\ calls[place(c)] = c /\ at[c] = t + place(c)
      BY <2>1, <2>3
    <3>2. parts[t + place(c)].name = calls[place(c)].name
      BY <1>2, <3>1 DEF CallsSaid
    <3> QED BY <3>1, <3>2
  <2>10. made \subseteq CallRecords
    BY <1>5 DEF made
  <2>11. made \cap open = {}
    BY DEF made
  <2>12. Sensible(done.turns, open) /\ (open # {} => Last(done.turns).role = "model")
    BY DEF Convo
  <2> DEFINE turns == done.turns
  <2> HIDE DEF turns
  <2>13. Sensible(turns, open) /\ (open # {} => Last(turns).role = "model")
    BY <2>12 DEF turns
  <2>14. Sensible(Append(turns, Turn("model", parts)), open \cup made)
    <3>1. parts \in Seq(PartsSaid) /\ parts # <<>>
      BY <1>7
    <3> HIDE DEF n, t
    <3> QED BY <2>4, <2>5, <2>7, <2>8, <2>9, <2>10, <2>11, <2>13, <3>1, ModelSpeaks
  <2>15. next.turns # <<>> /\ Last(next.turns).role = "model"
    <3>1. turns \in Seq(TurnsSaid)
      BY <2>13 DEF Sensible
    <3>2. Turn("model", parts) \in TurnsSaid /\ Turn("model", parts).role = "model"
      BY TurnIsSaid
    <3> DEFINE turn   == Turn("model", parts)
               others == Append(turns, turn)
    <3> HIDE DEF turn
    <3>3. others # <<>> /\ Len(others) = Len(turns) + 1 /\ others[Len(turns) + 1] = turn
      BY <3>1, <3>2, AppendIs DEF turn
    <3>4. Last(others).role = "model"
      BY <3>2, <3>3 DEF Last, turn
    <3> HIDE DEF others
    <3>5. next.turns = others
      BY <1>3, <1>7 DEF others, turn, turns
    <3> QED BY <3>3, <3>4, <3>5
  <2>16. Sensible(next.turns, open \cup made)
    BY <1>3, <1>7, <2>14 DEF turns
  <2> QED BY <1>4, <2>15, <2>16 DEF Convo, next, made
<1> QED BY <1>6, <1>7

-----------------------------------------------------------------------------
(* REQUESTS: conversations message by message *)

NothingSaid == [names |-> <<>>, turns |-> <<>>]

\* What Conversion computes on the way, as far as message n.
Converts(messages, family, n, f) ==
    f = [i \in 0 .. n |-> IF i = 0 THEN NothingSaid ELSE Converted(f[i - 1], messages[i], family)]

LEMMA ConvertsStep ==
    ASSUME NEW messages, NEW family, NEW n \in Nat, NEW f, Converts(messages, family, n, f)
    PROVE  f[0] = NothingSaid /\ \A i \in 1 .. n : f[i] = Converted(f[i - 1], messages[i], family)
<1>1. \A i \in 0 .. n : f[i] = IF i = 0 THEN NothingSaid ELSE Converted(f[i - 1], messages[i], family)
  BY DEF Converts
<1>2. 0 \in 0 .. n /\ \A i \in 1 .. n : i \in 0 .. n /\ i # 0
  OBVIOUS
<1> QED BY <1>1, <1>2

LEMMA ConvertsExists ==
    ASSUME NEW messages, NEW family, NEW n \in Nat
    PROVE  \E f : Converts(messages, family, n, f)
<1> DEFINE Good == {k \in 0 .. n : \E f : Converts(messages, family, k, f)}
<1>1. 0 \in Good
  <2>1. Converts(messages, family, 0, [i \in 0 .. 0 |-> NothingSaid])
    BY DEF Converts
  <2> QED BY <2>1
<1>2. ASSUME NEW k \in 1 .. n, k - 1 \in Good PROVE k \in Good
  <2>1. PICK f : Converts(messages, family, k - 1, f)
    BY <1>2
  <2> DEFINE g == [i \in 0 .. k |-> IF i = k THEN Converted(f[k - 1], messages[k], family) ELSE f[i]]
  <2>2. f[0] = NothingSaid /\ \A i \in 1 .. k - 1 : f[i] = Converted(f[i - 1], messages[i], family)
    BY <2>1, ConvertsStep
  <2>3. (\A i \in 0 .. k - 1 : g[i] = f[i]) /\ g[k] = Converted(f[k - 1], messages[k], family)
    OBVIOUS
  <2>4. g = [i \in 0 .. k |-> g[i]]
    OBVIOUS
  <2> HIDE DEF g
  <2>5. ASSUME NEW i \in 0 .. k
        PROVE  g[i] = IF i = 0 THEN NothingSaid ELSE Converted(g[i - 1], messages[i], family)
    <3>1. CASE i = 0
      BY <3>1, <2>2, <2>3
    <3>2. CASE i # 0 /\ i # k
      <4>1. i \in 1 .. k - 1 /\ i \in 0 .. k - 1 /\ i - 1 \in 0 .. k - 1
        BY <3>2
      <4> QED BY <3>2, <4>1, <2>2, <2>3
    <3>3. CASE i = k
      <4>1. k - 1 \in 0 .. k - 1 /\ k # 0
        OBVIOUS
      <4> QED BY <3>3, <4>1, <2>3
    <3> QED BY <3>1, <3>2, <3>3
  <2>6. Converts(messages, family, k, g)
    BY <2>4, <2>5 DEF Converts
  <2> QED BY <2>6
<1>3. \A k \in 0 .. n : k \in Good
  <2> HIDE DEF Good
  <2> QED BY <1>1, <1>2, Climb
<1> QED BY <1>3

\* It depends on the messages that far alone.
LEMMA ConvertsAgree ==
    ASSUME NEW messages, NEW family, NEW others, NEW m \in Nat, NEW n \in Nat, NEW f, NEW g,
           Converts(messages, family, m, f), Converts(others, family, n, g), n <= m,
           \A i \in 1 .. n : others[i] = messages[i]
    PROVE  g[n] = f[n]
<1> DEFINE Good == {k \in 0 .. n : g[k] = f[k]}
<1>1. /\ f[0] = NothingSaid /\ \A i \in 1 .. m : f[i] = Converted(f[i - 1], messages[i], family)
      /\ g[0] = NothingSaid /\ \A i \in 1 .. n : g[i] = Converted(g[i - 1], others[i], family)
  BY ConvertsStep
<1>2. 0 \in Good
  BY <1>1
<1>3. ASSUME NEW k \in 1 .. n, k - 1 \in Good PROVE k \in Good
  <2>1. k \in 1 .. m /\ others[k] = messages[k] /\ g[k - 1] = f[k - 1]
    BY <1>3
  <2> QED BY <1>1, <2>1
<1>4. \A k \in 0 .. n : k \in Good
  <2> HIDE DEF Good
  <2> QED BY <1>2, <1>3, Climb
<1> QED BY <1>4

LEMMA ConversionIs ==
    ASSUME NEW messages, NEW family, Len(messages) \in Nat
    PROVE  \E f : Converts(messages, family, Len(messages), f) /\ Conversion(messages, family) = f[Len(messages)]
<1> DEFINE f == CHOOSE f : Converts(messages, family, Len(messages), f)
<1>1. Converts(messages, family, Len(messages), f)
  BY ConvertsExists
<1>2. Conversion(messages, family) = f[Len(messages)]
  BY DEF Conversion, Converts, NothingSaid
<1> QED BY <1>1, <1>2

LEMMA ConversionNothing ==
    ASSUME NEW family
    PROVE  Conversion(<<>>, family) = NothingSaid
<1> DEFINE none == <<>>
<1>1. Len(none) = 0
  OBVIOUS
<1> HIDE DEF none
<1>2. PICK f : Converts(none, family, Len(none), f) /\ Conversion(none, family) = f[Len(none)]
  BY <1>1, ConversionIs
<1>3. Converts(none, family, 0, f) /\ Conversion(none, family) = f[0]
  BY <1>1, <1>2
<1> QED BY <1>3, ConvertsStep DEF none

LEMMA ConversionAppend ==
    ASSUME NEW S, NEW messages \in Seq(S), NEW m \in S, NEW family
    PROVE  Conversion(Append(messages, m), family) = Converted(Conversion(messages, family), m, family)
<1> DEFINE n    == Len(messages)
           more == Append(messages, m)
<1>1. /\ n \in Nat /\ Len(more) = n + 1 /\ more[n + 1] = m
      /\ \A i \in 1 .. n : messages[i] = more[i]
  BY AppendIs
<1> HIDE DEF more
<1>2. PICK f : Converts(messages, family, n, f) /\ Conversion(messages, family) = f[n]
  BY <1>1, ConversionIs
<1>3. PICK g : Converts(more, family, Len(more), g) /\ Conversion(more, family) = g[Len(more)]
  BY <1>1, ConversionIs
<1>4. Converts(more, family, n + 1, g) /\ Conversion(more, family) = g[n + 1] /\ n + 1 \in Nat /\ n <= n + 1
  BY <1>1, <1>3
<1> HIDE DEF n
<1>5. f[n] = g[n]
  BY <1>1, <1>2, <1>4, ConvertsAgree
<1>6. g[n + 1] = Converted(g[n], m, family)
  <2>1. n + 1 \in 1 .. n + 1 /\ (n + 1) - 1 = n
    BY <1>1
  <2>2. \A i \in 1 .. n + 1 : g[i] = Converted(g[i - 1], more[i], family)
    BY <1>4, ConvertsStep
  <2> QED BY <1>1, <2>1, <2>2
<1> QED BY <1>2, <1>4, <1>5, <1>6 DEF more

ItemsAfter(items, m) == items \o ItemsOf(m)

\* What AsItems computes on the way, as far as message n.
Itemizes(messages, n, f) ==
    f = [i \in 0 .. n |-> IF i = 0 THEN <<>> ELSE ItemsAfter(f[i - 1], messages[i])]

LEMMA ItemizesStep ==
    ASSUME NEW messages, NEW n \in Nat, NEW f, Itemizes(messages, n, f)
    PROVE  f[0] = <<>> /\ \A i \in 1 .. n : f[i] = ItemsAfter(f[i - 1], messages[i])
<1>1. \A i \in 0 .. n : f[i] = IF i = 0 THEN <<>> ELSE ItemsAfter(f[i - 1], messages[i])
  BY DEF Itemizes
<1>2. 0 \in 0 .. n /\ \A i \in 1 .. n : i \in 0 .. n /\ i # 0
  OBVIOUS
<1> QED BY <1>1, <1>2

LEMMA ItemizesExists ==
    ASSUME NEW messages, NEW n \in Nat
    PROVE  \E f : Itemizes(messages, n, f)
<1> DEFINE Good == {k \in 0 .. n : \E f : Itemizes(messages, k, f)}
<1>1. 0 \in Good
  <2>1. Itemizes(messages, 0, [i \in 0 .. 0 |-> <<>>])
    BY DEF Itemizes
  <2> QED BY <2>1
<1>2. ASSUME NEW k \in 1 .. n, k - 1 \in Good PROVE k \in Good
  <2>1. PICK f : Itemizes(messages, k - 1, f)
    BY <1>2
  <2> DEFINE g == [i \in 0 .. k |-> IF i = k THEN ItemsAfter(f[k - 1], messages[k]) ELSE f[i]]
  <2>2. f[0] = <<>> /\ \A i \in 1 .. k - 1 : f[i] = ItemsAfter(f[i - 1], messages[i])
    BY <2>1, ItemizesStep
  <2>3. (\A i \in 0 .. k - 1 : g[i] = f[i]) /\ g[k] = ItemsAfter(f[k - 1], messages[k])
    OBVIOUS
  <2>4. g = [i \in 0 .. k |-> g[i]]
    OBVIOUS
  <2> HIDE DEF g
  <2>5. ASSUME NEW i \in 0 .. k
        PROVE  g[i] = IF i = 0 THEN <<>> ELSE ItemsAfter(g[i - 1], messages[i])
    <3>1. CASE i = 0
      BY <3>1, <2>2, <2>3
    <3>2. CASE i # 0 /\ i # k
      <4>1. i \in 1 .. k - 1 /\ i \in 0 .. k - 1 /\ i - 1 \in 0 .. k - 1
        BY <3>2
      <4> QED BY <3>2, <4>1, <2>2, <2>3
    <3>3. CASE i = k
      <4>1. k - 1 \in 0 .. k - 1 /\ k # 0
        OBVIOUS
      <4> QED BY <3>3, <4>1, <2>3
    <3> QED BY <3>1, <3>2, <3>3
  <2>6. Itemizes(messages, k, g)
    BY <2>4, <2>5 DEF Itemizes
  <2> QED BY <2>6
<1>3. \A k \in 0 .. n : k \in Good
  <2> HIDE DEF Good
  <2> QED BY <1>1, <1>2, Climb
<1> QED BY <1>3

\* It depends on the messages that far alone.
LEMMA ItemizesAgree ==
    ASSUME NEW messages, NEW others, NEW m \in Nat, NEW n \in Nat, NEW f, NEW g,
           Itemizes(messages, m, f), Itemizes(others, n, g), n <= m,
           \A i \in 1 .. n : others[i] = messages[i]
    PROVE  g[n] = f[n]
<1> DEFINE Good == {k \in 0 .. n : g[k] = f[k]}
<1>1. /\ f[0] = <<>> /\ \A i \in 1 .. m : f[i] = ItemsAfter(f[i - 1], messages[i])
      /\ g[0] = <<>> /\ \A i \in 1 .. n : g[i] = ItemsAfter(g[i - 1], others[i])
  BY ItemizesStep
<1>2. 0 \in Good
  BY <1>1
<1>3. ASSUME NEW k \in 1 .. n, k - 1 \in Good PROVE k \in Good
  <2>1. k \in 1 .. m /\ others[k] = messages[k] /\ g[k - 1] = f[k - 1]
    BY <1>3
  <2> QED BY <1>1, <2>1
<1>4. \A k \in 0 .. n : k \in Good
  <2> HIDE DEF Good
  <2> QED BY <1>2, <1>3, Climb
<1> QED BY <1>4

LEMMA AsItemsIs ==
    ASSUME NEW messages, Len(messages) \in Nat
    PROVE  \E f : Itemizes(messages, Len(messages), f) /\ AsItems(messages) = f[Len(messages)]
<1> DEFINE f == CHOOSE f : Itemizes(messages, Len(messages), f)
<1>1. Itemizes(messages, Len(messages), f)
  BY ItemizesExists
<1>2. AsItems(messages) = f[Len(messages)]
  BY DEF AsItems, Itemizes, ItemsAfter
<1> QED BY <1>1, <1>2

LEMMA AsItemsNothing == AsItems(<<>>) = <<>>
<1> DEFINE none == <<>>
<1>1. Len(none) = 0
  OBVIOUS
<1> HIDE DEF none
<1>2. PICK f : Itemizes(none, Len(none), f) /\ AsItems(none) = f[Len(none)]
  BY <1>1, AsItemsIs
<1>3. Itemizes(none, 0, f) /\ AsItems(none) = f[0]
  BY <1>1, <1>2
<1> QED BY <1>3, ItemizesStep DEF none

LEMMA AsItemsAppend ==
    ASSUME NEW S, NEW messages \in Seq(S), NEW m \in S
    PROVE  AsItems(Append(messages, m)) = AsItems(messages) \o ItemsOf(m)
<1> DEFINE n    == Len(messages)
           more == Append(messages, m)
<1>1. /\ n \in Nat /\ Len(more) = n + 1 /\ more[n + 1] = m
      /\ \A i \in 1 .. n : messages[i] = more[i]
  BY AppendIs
<1> HIDE DEF more
<1>2. PICK f : Itemizes(messages, n, f) /\ AsItems(messages) = f[n]
  BY <1>1, AsItemsIs
<1>3. PICK g : Itemizes(more, Len(more), g) /\ AsItems(more) = g[Len(more)]
  BY <1>1, AsItemsIs
<1>4. Itemizes(more, n + 1, g) /\ AsItems(more) = g[n + 1] /\ n + 1 \in Nat /\ n <= n + 1
  BY <1>1, <1>3
<1> HIDE DEF n
<1>5. f[n] = g[n]
  BY <1>1, <1>2, <1>4, ItemizesAgree
<1>6. g[n + 1] = ItemsAfter(g[n], m)
  <2>1. n + 1 \in 1 .. n + 1 /\ (n + 1) - 1 = n
    BY <1>1
  <2>2. \A i \in 1 .. n + 1 : g[i] = ItemsAfter(g[i - 1], more[i])
    BY <1>4, ItemizesStep
  <2> QED BY <1>1, <2>1, <2>2
<1> QED BY <1>2, <1>4, <1>5, <1>6 DEF more, ItemsAfter

-----------------------------------------------------------------------------
(* REQUESTS: items converted *)

CallItem(call) == Message("assistant", FALSE, <<call>>, "", "")

\* The items of the first k calls of a message.
CallItems(calls, k) == [i \in 1 .. k |-> CallItem(calls[i])]

LEMMA CallItemIs ==
    ASSUME NEW call \in CallRecords
    PROVE  CallItem(call) \in Messages /\ CallItem(call).role = "assistant" /\ CallItem(call).calls = <<call>>
<1>1. <<call>> \in Seq(CallRecords) /\ "" \in Words
  BY DEF Words
<1> QED BY <1>1 DEF CallItem, Message, Messages

LEMMA CallItemsAre ==
    ASSUME NEW calls \in Seq(CallRecords), NEW k \in 0 .. Len(calls)
    PROVE  CallItems(calls, k) \in Seq(Messages) /\ Len(CallItems(calls, k)) = k
<1>1. k \in Nat /\ \A i \in 1 .. k : CallItem(calls[i]) \in Messages
  BY CallItemIs
<1> QED BY <1>1 DEF CallItems

LEMMA CallItemsNext ==
    ASSUME NEW calls \in Seq(CallRecords), NEW k \in 1 .. Len(calls), NEW before \in Seq(Messages)
    PROVE  before \o CallItems(calls, k) = Append(before \o CallItems(calls, k - 1), CallItem(calls[k]))
<1> DEFINE item  == CallItem(calls[k])
           fewer == CallItems(calls, k - 1)
           all   == CallItems(calls, k)
<1>1. item \in Messages /\ k - 1 \in 0 .. Len(calls) /\ k \in 0 .. Len(calls)
  BY CallItemIs
<1>2. fewer \in Seq(Messages) /\ Len(fewer) = k - 1 /\ all \in Seq(Messages) /\ Len(all) = k
  BY <1>1, CallItemsAre
<1>3. (\A i \in 1 .. k - 1 : all[i] = fewer[i]) /\ all[k] = item
  BY DEF CallItems
<1> HIDE DEF item, fewer, all
<1>4. all = Append(fewer, item)
  BY <1>1, <1>2, <1>3
<1>5. before \o Append(fewer, item) = Append(before \o fewer, item)
  BY <1>1, <1>2
<1> QED BY <1>4, <1>5 DEF item, fewer, all

LEMMA ConvertedCall ==
    ASSUME NEW done, NEW open, Convo(done, open), NEW m, NEW family, NEW call \in CallRecords,
           m.role = "assistant", m.calls = <<call>>,
           \A c \in open : c.id # call.id,
           open # {} => ModelLast(done.turns)
    PROVE  Convo(Converted(done, m, family), open \cup {call}) /\ ModelLast(Converted(done, m, family).turns)
<1>1. PICK one \in Seq(CallRecords) : m.calls = one /\ DOMAIN one = {1} /\ one[1] = call /\ one # <<>>
  <2>1. <<call>> \in Seq(CallRecords) /\ DOMAIN <<call>> = {1} /\ <<call>>[1] = call /\ <<call>> # <<>>
    OBVIOUS
  <2> QED BY <2>1
<1>2. MadeOf(one) = {call}
  BY <1>1 DEF MadeOf
<1>3. OwnIds(one, open)
  BY <1>1 DEF OwnIds
<1>4. /\ Convo(Converted(done, m, family), open \cup MadeOf(one))
      /\ one # <<>> => ModelLast(Converted(done, m, family).turns)
  BY <1>1, <1>3, ConvertedCalls
<1> QED BY <1>1, <1>2, <1>4

\* Calls converted one by one are open like calls of one message.
LEMMA CallsOneByOne ==
    ASSUME NEW family, NEW before \in Seq(Messages), Convo(Conversion(before, family), {}),
           NEW calls \in Seq(CallRecords),
           OwnIds(calls, {})
    PROVE  Convo(Conversion(before \o CallItems(calls, Len(calls)), family), MadeOf(calls))
<1> DEFINE n       == Len(calls)
           made(k) == {calls[i] : i \in 1 .. k}
           done(k) == Conversion(before \o CallItems(calls, k), family)
           Good    == {k \in 0 .. n : /\ Convo(done(k), made(k))
                                      /\ k > 0 => ModelLast(done(k).turns)}
<1>1. n \in Nat /\ DOMAIN calls = 1 .. n
  OBVIOUS
<1>2. 0 \in Good
  <2>1. 0 \in 0 .. n /\ made(0) = {}
    BY <1>1
  <2>2. before \o CallItems(calls, 0) = before
    <3> DEFINE none == CallItems(calls, 0)
    <3>1. none \in Seq(Messages) /\ Len(none) = 0
      BY <2>1, CallItemsAre
    <3> HIDE DEF none
    <3>2. none = <<>>
      BY <3>1
    <3>3. before \o <<>> = before
      OBVIOUS
    <3> QED BY <3>2, <3>3 DEF none
  <2>3. done(0) = Conversion(before, family)
    BY <2>2
  <2>4. Convo(done(0), {})
    BY <2>3
  <2>5. ~(0 > 0)
    OBVIOUS
  <2> HIDE DEF made, done
  <2>6. Convo(done(0), made(0))
    BY <2>1, <2>4
  <2> QED BY <2>1, <2>5, <2>6
<1>3. ASSUME NEW k \in 1 .. n, k - 1 \in Good PROVE k \in Good
  <2> DEFINE so   == before \o CallItems(calls, k - 1)
             item == CallItem(calls[k])
             old  == Conversion(so, family)
             open == made(k - 1)
             next == Converted(old, item, family)
  <2>1. Convo(old, open) /\ (k - 1 > 0 => ModelLast(old.turns))
    BY <1>3
  <2>2. calls[k] \in CallRecords /\ item \in Messages /\ item.role = "assistant" /\ item.calls = <<calls[k]>>
    BY CallItemIs
  <2>4. \A c \in open : c.id # calls[k].id
    <3>1. \A j \in 1 .. k - 1 : j \in DOMAIN calls /\ k \in DOMAIN calls /\ j # k
      BY <1>1
    <3> QED BY <3>1 DEF OwnIds
  <2>5. open # {} => k - 1 > 0
    BY <1>1
  <2>6. done(k) = next
    <3>1. k - 1 \in 0 .. n
      BY <1>1
    <3>2. so \in Seq(Messages)
      BY <3>1, CallItemsAre
    <3>3. before \o CallItems(calls, k) = Append(so, item)
      BY CallItemsNext
    <3> HIDE DEF so, item
    <3>4. Conversion(Append(so, item), family) = Converted(Conversion(so, family), item, family)
      BY <2>2, <3>2, ConversionAppend
    <3> QED BY <3>3, <3>4
  <2>7. made(k) = open \cup {calls[k]}
    <3>1. \A i \in 1 .. k : i \in 1 .. k - 1 \/ i = k
      OBVIOUS
    <3>2. k \in 1 .. k /\ \A i \in 1 .. k - 1 : i \in 1 .. k
      OBVIOUS
    <3> QED BY <3>1, <3>2
  <2> DEFINE call == calls[k]
  <2> HIDE DEF item, old, open, next, call
  <2>8. Convo(next, open \cup {call}) /\ ModelLast(next.turns)
    BY <2>1, <2>2, <2>4, <2>5, ConvertedCall DEF next, call
  <2> HIDE DEF made, done
  <2>9. k \in 0 .. n
    BY <1>1
  <2> QED BY <2>6, <2>7, <2>8, <2>9 DEF call
<1>4. \A k \in 0 .. n : k \in Good
  <2> HIDE DEF Good
  <2> QED BY <1>1, <1>2, <1>3, Climb
<1>5. n \in 0 .. n
  BY <1>1
<1>6. Convo(done(n), made(n))
  BY <1>4, <1>5
<1>7. made(n) = MadeOf(calls)
  BY <1>1 DEF MadeOf
<1> QED BY <1>6, <1>7

-----------------------------------------------------------------------------
(* REQUESTS: a message more, on either route *)

LEMMA MessageIs ==
    ASSUME NEW role \in {"user", "system", "assistant", "tool"}, NEW text \in BOOLEAN,
           NEW calls \in Seq(CallRecords), NEW id \in Words, NEW name \in Words
    PROVE  /\ Message(role, text, calls, id, name) \in Messages
           /\ Message(role, text, calls, id, name).role = role
           /\ Message(role, text, calls, id, name).calls = calls
           /\ Message(role, text, calls, id, name).id = id
           /\ Message(role, text, calls, id, name).name = name
BY DEF Message, Messages

\* The item of a message of somebody else than the model.
Nameless(m) == [m EXCEPT !.name = ""]

LEMMA NamelessIs ==
    ASSUME NEW m \in Messages
    PROVE  /\ Nameless(m) \in Messages
           /\ Nameless(m).role = m.role /\ Nameless(m).calls = m.calls /\ Nameless(m).id = m.id /\ Nameless(m).name = ""
<1>1. "" \in Words
  BY DEF Words
<1> QED BY <1>1 DEF Nameless, Messages

LEMMA OthersItem ==
    ASSUME NEW messages \in Seq(Messages), AsItems(messages) \in Seq(Messages),
           NEW m \in Messages, m.role # "assistant", NEW family
    PROVE  /\ AsItems(Append(messages, m)) \in Seq(Messages)
           /\ Conversion(AsItems(Append(messages, m)), family)
                 = Converted(Conversion(AsItems(messages), family), Nameless(m), family)
<1> DEFINE items == AsItems(messages)
           item  == Nameless(m)
           more  == AsItems(Append(messages, m))
<1>1. ItemsOf(m) = <<item>>
  BY DEF ItemsOf, Nameless
<1>2. more = items \o ItemsOf(m)
  BY AsItemsAppend
<1>3. items \in Seq(Messages) /\ item \in Messages
  BY NamelessIs
<1> HIDE DEF items, item, more
<1>4. items \o <<item>> = Append(items, item)
  BY <1>3
<1>5. more = Append(items, item)
  BY <1>1, <1>2, <1>4
<1>6. Append(items, item) \in Seq(Messages)
  BY <1>3
<1>7. Conversion(Append(items, item), family) = Converted(Conversion(items, family), item, family)
  BY <1>3, ConversionAppend
<1> QED BY <1>5, <1>6, <1>7 DEF items, item, more

\* Text of the model by itself opens no call.
LEMMA ConvertedText ==
    ASSUME NEW done, Convo(done, {}), NEW m, NEW family, m.role = "assistant", m.calls = <<>>
    PROVE  Convo(Converted(done, m, family), {})
<1>1. PICK none \in Seq(CallRecords) : m.calls = none /\ DOMAIN none = {}
  <2>1. <<>> \in Seq(CallRecords) /\ DOMAIN <<>> = {}
    OBVIOUS
  <2> QED BY <2>1
<1>2. MadeOf(none) = {} /\ OwnIds(none, {})
  BY <1>1 DEF MadeOf, OwnIds
<1>3. PICK open : open = {}
  OBVIOUS
<1>4. Convo(done, open) /\ OwnIds(none, open) /\ (open # {} => ModelLast(done.turns))
  BY <1>2, <1>3
<1>5. Convo(Converted(done, m, family), open \cup MadeOf(none))
  BY <1>1, <1>4, ConvertedCalls
<1>6. open \cup MadeOf(none) = {}
  BY <1>2, <1>3
<1> QED BY <1>5, <1>6

\* The items of a message of the model open its calls.
LEMMA ModelsItems ==
    ASSUME NEW messages \in Seq(Messages), AsItems(messages) \in Seq(Messages),
           NEW m \in Messages, m.role = "assistant", NEW calls \in Seq(CallRecords), m.calls = calls,
           OwnIds(calls, {}), NEW family, Convo(Conversion(AsItems(messages), family), {})
    PROVE  /\ AsItems(Append(messages, m)) \in Seq(Messages)
           /\ Convo(Conversion(AsItems(Append(messages, m)), family), MadeOf(calls))
<1> DEFINE items == AsItems(messages)
           item  == Message("assistant", TRUE, <<>>, "", "")
           texts == IF m.text THEN <<item>> ELSE <<>>
           said  == CallItems(calls, Len(calls))
           more  == AsItems(Append(messages, m))
           start == items \o texts
<1>1. more = items \o ItemsOf(m)
  BY AsItemsAppend
<1>2. ItemsOf(m) = texts \o said
  <2>1. DOMAIN calls = 1 .. Len(calls)
    OBVIOUS
  <2> QED BY <2>1 DEF ItemsOf, CallItems, CallItem
<1>3. item \in Messages /\ item.role = "assistant" /\ item.calls = <<>>
  <2>1. <<>> \in Seq(CallRecords) /\ "" \in Words
    BY DEF Words
  <2> QED BY <2>1 DEF Message, Messages
<1>4. items \in Seq(Messages) /\ Convo(Conversion(items, family), {})
  OBVIOUS
<1>5. said \in Seq(Messages)
  <2>1. Len(calls) \in 0 .. Len(calls)
    OBVIOUS
  <2> QED BY <2>1, CallItemsAre
<1> HIDE DEF items, item, said, more
<1>6. start \in Seq(Messages) /\ Convo(Conversion(start, family), {}) /\ texts \in Seq(Messages)
  <2>1. CASE ~m.text
    <3>1. texts = <<>>
      BY <2>1
    <3>2. items \o <<>> = items /\ <<>> \in Seq(Messages)
      BY <1>4
    <3> HIDE DEF texts
    <3>3. start = items
      BY <3>1, <3>2
    <3> HIDE DEF start
    <3> QED BY <1>4, <3>1, <3>2, <3>3
  <2>2. CASE m.text
    <3>1. texts = <<item>>
      BY <2>2
    <3>2. /\ items \o <<item>> = Append(items, item) /\ <<item>> \in Seq(Messages)
          /\ Append(items, item) \in Seq(Messages)
      BY <1>3, <1>4
    <3> HIDE DEF texts
    <3>3. start = Append(items, item)
      BY <3>1, <3>2
    <3> HIDE DEF start
    <3>4. Conversion(Append(items, item), family) = Converted(Conversion(items, family), item, family)
      BY <1>3, <1>4, ConversionAppend
    <3>5. Convo(Converted(Conversion(items, family), item, family), {})
      BY <1>3, <1>4, ConvertedText
    <3> QED BY <3>1, <3>2, <3>3, <3>4, <3>5
  <2> QED BY <2>1, <2>2
<1>7. more = start \o said
  <2> HIDE DEF texts
  <2>1. items \o (texts \o said) = (items \o texts) \o said
    <3>1. items \in Seq(Messages) /\ texts \in Seq(Messages) /\ said \in Seq(Messages)
      BY <1>4, <1>5, <1>6
    <3>2. \A x, y, z \in Seq(Messages) : (x \o y) \o z = x \o (y \o z)
      BY ConcatAssociative
    <3> QED BY <3>1, <3>2, Zenon
  <2> QED BY <1>1, <1>2, <2>1
<1> HIDE DEF start
<1>8. start \o said \in Seq(Messages)
  BY <1>5, <1>6
<1>9. Convo(Conversion(start \o said, family), MadeOf(calls))
  BY <1>6, CallsOneByOne DEF said
<1> QED BY <1>7, <1>8, <1>9 DEF more

-----------------------------------------------------------------------------
(* REQUESTS: the turns sent *)

\* A conversation with every call answered, and the user's word last, is taken.
LEMMA Finished ==
    ASSUME NEW turns, Sensible(turns, {}), Continued(turns) # <<>>
    PROVE  TurnsTaken(Continued(turns)) /\ CallsAnswered(Continued(turns))
<1> DEFINE sent == Continued(turns)
<1>1. Sensible(sent, {}) /\ Last(sent).role = "user"
  <2>1. turns \in Seq(TurnsSaid) /\ (turns # <<>> => Last(turns) \in TurnsSaid)
    <3>1. turns \in Seq(TurnsSaid)
      BY DEF Sensible
    <3>2. turns # <<>> => Len(turns) \in 1 .. Len(turns)
      BY <3>1, EmptySeq
    <3> QED BY <3>1, <3>2 DEF Last
  <2>2. CASE turns # <<>> /\ Last(turns).role = "model"
    <3> DEFINE turn == Turn("user", <<TextPart>>)
    <3>1. sent = Append(turns, turn)
      BY <2>2 DEF Continued
    <3>2. AddUser(turns, <<TextPart>>, FALSE) = Append(turns, turn)
      BY <2>2 DEF AddUser
    <3>3. turn \in TurnsSaid /\ turn.role = "user"
      <4>1. <<TextPart>> \in Seq(PartsSaid)
        BY PartsAreSaid
      <4> QED BY <4>1, TurnIsSaid
    <3> DEFINE more == Append(turns, turn)
    <3> HIDE DEF turn
    <3>4. Len(more) = Len(turns) + 1 /\ more[Len(turns) + 1] = turn
      BY <2>1, <3>3, AppendIs
    <3>5. Last(more).role = "user"
      BY <3>3, <3>4 DEF Last
    <3>6. Sensible(more, {})
      BY <3>2, UserSpeaks DEF turn
    <3> HIDE DEF more, sent
    <3>7. sent = more
      BY <3>1 DEF more
    <3> QED BY <3>5, <3>6, <3>7
  <2>3. CASE ~(turns # <<>> /\ Last(turns).role = "model")
    <3>1. sent = turns
      BY <2>3 DEF Continued
    <3>2. Last(turns).role = "user"
      BY <2>1, <2>3, <3>1 DEF TurnsSaid
    <3> HIDE DEF sent
    <3> QED BY <3>1, <3>2
  <2> QED BY <2>2, <2>3
<1>2. sent \in Seq(TurnsSaid) /\ DOMAIN sent = 1 .. Len(sent) /\ Len(sent) \in Nat
  <2> HIDE DEF sent
  <2>1. sent \in Seq(TurnsSaid)
    BY <1>1 DEF Sensible
  <2> QED BY <2>1
<1> HIDE DEF sent
<1>3. TurnsTaken(sent)
  <2>1. ASSUME NEW i \in DOMAIN sent, NEW j \in DOMAIN sent[i].parts, sent[i].parts[j].kind = "result"
        PROVE  sent[i].role = "user" /\ OnlyResults(sent[i])
    <3>1. Spoken(sent[i]) /\ sent[i] \in TurnsSaid
      BY <1>1, <1>2 DEF Sensible
    <3>2. ~NoResults(sent[i])
      BY <2>1 DEF NoResults
    <3> QED BY <3>1, <3>2 DEF Spoken, TurnsSaid
  <2> QED BY <1>1, <2>1 DEF TurnsTaken
<1>4. CallsAnswered(sent)
  <2>1. ASSUME NEW i \in 1 .. Len(sent) - 1,
               sent[i].role = "model", sent[i + 1].role = "user", CallsUpTo(sent, i) # {}
        PROVE  Matched(sent, CallsUpTo(sent, i), sent[i + 1].parts, {})
    <3>1. MatchedAt(sent, i, {})
      BY <1>1 DEF Sensible
    <3>2. OpenAfter(sent, i, {}) = {}
      BY DEF OpenAfter
    <3> QED BY <2>1, <3>1, <3>2 DEF MatchedAt
  <2>2. ASSUME NEW i \in 1 .. Len(sent) - 1,
               sent[i].role = "model", sent[i + 1].role = "user", CallsUpTo(sent, i) # {}
        PROVE  \E call \in [DOMAIN sent[i + 1].parts -> CallsUpTo(sent, i)] :
                 /\ \A j, k \in DOMAIN sent[i + 1].parts : call[j] = call[k] => j = k
                 /\ \A c \in CallsUpTo(sent, i) : \E j \in DOMAIN sent[i + 1].parts : call[j] = c
                 /\ \A j \in DOMAIN sent[i + 1].parts :
                       sent[i + 1].parts[j].name = sent[call[j][1]].parts[call[j][2]].name
    BY <2>1, <2>2, MatchedAnswers
  <2> QED BY <2>2 DEF CallsAnswered
<1> QED BY <1>3, <1>4 DEF sent

-----------------------------------------------------------------------------
(* REQUESTS: the other fields sent *)

Settings ==
    [family : {"gemini", "claude"}, budget : ThinkingBudgets \cup {0},
     choice : {"unset", "none", "auto", "required", "named", "other"},
     asked : OutputAsked \cup {0}, tool : {<<>>} \cup {<<s>> : s \in ToolSchemas}]

LEMMA RoomIsLeft ==
    ASSUME NEW s \in Settings
    PROVE  RoomForAnswer(s, OutputBudget(s))
<1> DEFINE budget == s.budget
           asked  == s.asked
           output == OutputBudget(s)
<1>1. budget \in Int /\ asked \in Nat /\ OutputLimit \in Nat
  <2>1. OutputLimit \in Nat /\ ThinkingBudgets \subseteq Int /\ OutputAsked \subseteq Nat
    BY RequestsAssumption
  <2>2. budget \in ThinkingBudgets \cup {0} /\ asked \in OutputAsked \cup {0}
    BY DEF Settings
  <2> HIDE DEF budget, asked
  <2> QED BY <2>1, <2>2
<1>2. Reserve(s) \in Int /\ Reserve(s) >= budget
  BY <1>1 DEF Reserve, Greater
<1> DEFINE reserve == Reserve(s)
<1>3. /\ asked = 0 => output = OutputLimit
      /\ asked # 0 /\ budget = 0 => output = Lesser(asked, OutputLimit)
      /\ asked # 0 /\ budget # 0 =>
            output = Greater(Lesser(asked, OutputLimit), Lesser(reserve + 1024, OutputLimit))
  BY DEF OutputBudget, Thinking, MinAnswer
<1> HIDE DEF budget, asked, output, reserve
<1>4. reserve \in Int /\ reserve >= budget
  BY <1>2 DEF reserve, budget
<1>5. output <= OutputLimit /\ (budget # 0 /\ budget + 1024 <= OutputLimit => output >= budget + 1024)
  BY <1>1, <1>3, <1>4 DEF Greater, Lesser
<1> QED BY <1>5 DEF RoomForAnswer, Thinking, MinAnswer, budget, output

-----------------------------------------------------------------------------
(* REQUESTS: the client *)

\* On both routes the calls without a result are those of the last turn, each name
\* known, whoever the model is.
RequestsInv ==
    /\ conversation \in Seq(Messages) /\ AsItems(conversation) \in Seq(Messages)
    /\ unanswered \subseteq CallRecords /\ setting \in Settings
    /\ \A family \in {"gemini", "claude"} :
          /\ Convo(Conversion(conversation, family), unanswered)
          /\ Convo(Conversion(AsItems(conversation), family), unanswered)

LEMMA InitRequestsInv == RequestsInit => RequestsInv
<1> SUFFICES ASSUME RequestsInit PROVE RequestsInv
  OBVIOUS
<1>1. conversation = <<>> /\ unanswered = {} /\ setting = Plainly
  BY DEF RequestsInit
<1>2. AsItems(conversation) = <<>>
  BY <1>1, AsItemsNothing
<1>3. <<>> \in Seq(Messages)
  OBVIOUS
<1>4. setting \in Settings
  BY <1>1 DEF Plainly, Settings
<1>5. Named(<<>>, {})
  BY DEF Named
<1>6. Sensible(<<>>, {})
  <2> DEFINE none == <<>>
  <2>1. none \in Seq(TurnsSaid) /\ Len(none) = 0 /\ none = <<>>
    OBVIOUS
  <2> HIDE DEF none
  <2>2. Sensible(none, {})
    BY <2>1 DEF Sensible, CallsWait, LastMatched
  <2> QED BY <2>1, <2>2
<1>7. ASSUME NEW family PROVE Convo(Conversion(<<>>, family), {})
  <2>1. NothingSaid.names = <<>> /\ NothingSaid.turns = <<>>
    BY DEF NothingSaid
  <2> QED BY <2>1, <1>5, <1>6, ConversionNothing DEF Convo
<1> QED BY <1>1, <1>2, <1>3, <1>4, <1>7 DEF RequestsInv

\* A message with calls or without, from the model.
LEMMA ModelTurnKeeps == RequestsInv /\ ModelTurn => RequestsInv'
<1> SUFFICES ASSUME RequestsInv, ModelTurn PROVE RequestsInv'
  OBVIOUS
<1>1. PICK text \in BOOLEAN, calls \in ToolCalls \cup {<<>>} :
         /\ Say(Message("assistant", text, calls, "", ""))
         /\ unanswered' = {calls[i] : i \in DOMAIN calls}
  BY DEF ModelTurn
<1>2. calls \in Seq(CallRecords)
  <2>1. CASE calls \in ToolCalls
    <3> DEFINE own == {calls[i] : i \in DOMAIN calls}
    <3>1. calls \in Seq(own)
      BY <2>1, RequestsAssumption
    <3>2. own \subseteq CallRecords
      BY <2>1 DEF CallRecords
    <3> HIDE DEF own
    <3> QED BY <3>1, <3>2
  <2>2. CASE calls = <<>>
    BY <2>2
  <2> QED BY <2>1, <2>2
<1>3. OwnIds(calls, {})
  <2>1. \A i, j \in DOMAIN calls : calls[i].id = calls[j].id => i = j
    <3>1. CASE calls \in ToolCalls
      BY <3>1, RequestsAssumption
    <3>2. CASE calls = <<>>
      BY <3>2
    <3> QED BY <3>1, <3>2
  <2> QED BY <2>1 DEF OwnIds
<1> DEFINE m == Message("assistant", text, calls, "", "")
<1>4. m \in Messages /\ m.role = "assistant" /\ m.calls = calls
  <2>1. "" \in Words
    BY DEF Words
  <2> QED BY <1>2, <2>1 DEF Message, Messages
<1> HIDE DEF m
<1>5. conversation' = Append(conversation, m) /\ setting' = setting
  BY <1>1 DEF Say, m
<1>6. unanswered = {} /\ unanswered' = MadeOf(calls)
  BY <1>1 DEF ModelTurn, MadeOf
<1>7. MadeOf(calls) \subseteq CallRecords
  BY <1>2 DEF MadeOf
<1>8. /\ conversation \in Seq(Messages) /\ AsItems(conversation) \in Seq(Messages) /\ setting \in Settings
      /\ \A family \in {"gemini", "claude"} :
            /\ Convo(Conversion(conversation, family), {})
            /\ Convo(Conversion(AsItems(conversation), family), {})
  BY <1>6 DEF RequestsInv
<1> DEFINE more == Append(conversation, m)
<1>9. ASSUME NEW family \in {"gemini", "claude"}
      PROVE  /\ Convo(Conversion(more, family), MadeOf(calls))
             /\ AsItems(more) \in Seq(Messages) /\ Convo(Conversion(AsItems(more), family), MadeOf(calls))
  <2>1. Conversion(more, family) = Converted(Conversion(conversation, family), m, family)
    BY <1>4, <1>8, ConversionAppend
  <2>2. PICK open : open = {}
    OBVIOUS
  <2>3. Convo(Conversion(conversation, family), open) /\ OwnIds(calls, open)
    BY <1>3, <1>8, <2>2
  <2>4. Convo(Converted(Conversion(conversation, family), m, family), open \cup MadeOf(calls))
    BY <1>2, <1>4, <2>2, <2>3, ConvertedCalls
  <2>5. open \cup MadeOf(calls) = MadeOf(calls)
    BY <2>2
  <2>6. Convo(Conversion(AsItems(conversation), family), {})
    BY <1>8
  <2> HIDE DEF more
  <2>7. AsItems(more) \in Seq(Messages) /\ Convo(Conversion(AsItems(more), family), MadeOf(calls))
    BY <1>2, <1>3, <1>4, <1>8, <2>6, ModelsItems DEF more
  <2> QED BY <2>1, <2>4, <2>5, <2>7
<1>10. more \in Seq(Messages)
  BY <1>4, <1>8
<1> HIDE DEF more
<1>11. conversation' = more
  BY <1>5 DEF more
<1> QED BY <1>5, <1>6, <1>7, <1>8, <1>9, <1>10, <1>11 DEF RequestsInv

\* A message of anybody else, given what it does to a conversation.
LEMMA OthersSay ==
    ASSUME RequestsInv, NEW m \in Messages, Say(m), m.role # "assistant",
           unanswered' \subseteq CallRecords,
           \A family \in {"gemini", "claude"}, n \in {m, Nameless(m)} : \A done :
              Convo(done, unanswered) => Convo(Converted(done, n, family), unanswered')
    PROVE  RequestsInv'
<1>1. /\ conversation \in Seq(Messages) /\ AsItems(conversation) \in Seq(Messages) /\ setting \in Settings
      /\ \A family \in {"gemini", "claude"} :
            /\ Convo(Conversion(conversation, family), unanswered)
            /\ Convo(Conversion(AsItems(conversation), family), unanswered)
  BY DEF RequestsInv
<1> DEFINE more == Append(conversation, m)
<1>2. conversation' = more /\ setting' = setting
  BY DEF Say
<1>3. more \in Seq(Messages)
  BY <1>1
<1>4. ASSUME NEW family \in {"gemini", "claude"}
      PROVE  /\ Convo(Conversion(more, family), unanswered')
             /\ AsItems(more) \in Seq(Messages) /\ Convo(Conversion(AsItems(more), family), unanswered')
  <2>1. Conversion(more, family) = Converted(Conversion(conversation, family), m, family)
    BY <1>1, ConversionAppend
  <2>2. /\ AsItems(more) \in Seq(Messages)
        /\ Conversion(AsItems(more), family) = Converted(Conversion(AsItems(conversation), family), Nameless(m), family)
    BY <1>1, OthersItem
  <2>3. Convo(Conversion(conversation, family), unanswered) /\ Convo(Conversion(AsItems(conversation), family), unanswered)
    BY <1>1
  <2>4. \A n \in {m, Nameless(m)} : \A done : Convo(done, unanswered) => Convo(Converted(done, n, family), unanswered')
    OBVIOUS
  <2> HIDE DEF more
  <2> QED BY <2>1, <2>2, <2>3, <2>4
<1> HIDE DEF more
<1> QED BY <1>1, <1>2, <1>3, <1>4 DEF RequestsInv

LEMMA ClientSaysKeeps == RequestsInv /\ ClientSays => RequestsInv'
<1> SUFFICES ASSUME RequestsInv, ClientSays PROVE RequestsInv'
  OBVIOUS
<1>1. PICK text \in BOOLEAN, role \in {"user", "system"} :
         (role = "user" => unanswered = {}) /\ Say(Message(role, text, <<>>, "", ""))
  BY DEF ClientSays
<1> DEFINE m == Message(role, text, <<>>, "", "")
<1>2. m \in Messages /\ m.role = role /\ m.calls = <<>>
  <2>1. "" \in Words /\ <<>> \in Seq(CallRecords) /\ role \in {"user", "system", "assistant", "tool"}
    BY DEF Words
  <2> QED BY <2>1 DEF Message, Messages
<1>3. Say(m) /\ unanswered' = unanswered
  BY <1>1 DEF ClientSays
<1> HIDE DEF m
<1>4. Nameless(m).role = role /\ Nameless(m).calls = <<>>
  BY <1>2, NamelessIs
<1>5. ASSUME NEW family, NEW n \in {m, Nameless(m)}, NEW done, Convo(done, unanswered)
      PROVE  Convo(Converted(done, n, family), unanswered)
  <2>1. n.role = role /\ n.calls = <<>>
    BY <1>2, <1>4
  <2> QED BY <1>1, <1>5, <2>1, ConvertedSpeaks
<1>6. unanswered \subseteq CallRecords
  BY DEF RequestsInv
<1> QED BY <1>2, <1>3, <1>5, <1>6, OthersSay

LEMMA NoCalls == <<>> \in Seq(CallRecords)
OBVIOUS

LEMMA ToolAnswersKeeps == RequestsInv /\ ToolAnswers => RequestsInv'
<1> SUFFICES ASSUME RequestsInv, ToolAnswers PROVE RequestsInv'
  OBVIOUS
<1>1. PICK call \in unanswered, name \in {"", "own"} :
         /\ Say(Message("tool", TRUE, <<>>, call.id, IF name = "" THEN "" ELSE call.name))
         /\ unanswered' = unanswered \ {call}
  BY DEF ToolAnswers
<1> DEFINE said == IF name = "" THEN "" ELSE call.name
           m    == Message("tool", TRUE, <<>>, call.id, said)
<1>2. call \in CallRecords /\ unanswered \subseteq CallRecords
  BY DEF RequestsInv
<1>3. call.id \in Words /\ said \in Words /\ (said = "" \/ said = call.name)
  BY <1>2 DEF Words
<1> HIDE DEF said
<1>4. m \in Messages /\ m.role = "tool" /\ m.calls = <<>> /\ m.id = call.id /\ m.name = said
  <2>1. <<>> \in Seq(CallRecords)
    BY NoCalls
  <2> QED BY <1>3, <2>1 DEF Message, Messages
<1>5. Say(m)
  BY <1>1 DEF said
<1> HIDE DEF m
<1>6. Nameless(m).role = "tool" /\ Nameless(m).calls = <<>> /\ Nameless(m).id = call.id /\ Nameless(m).name = ""
  BY <1>4, NamelessIs
<1>7. ASSUME NEW family, NEW n \in {m, Nameless(m)}, NEW done, Convo(done, unanswered)
      PROVE  Convo(Converted(done, n, family), unanswered \ {call})
  <2>1. n.role = "tool" /\ n.calls = <<>> /\ n.id = call.id /\ (n.name = "" \/ n.name = call.name)
    BY <1>3, <1>4, <1>6
  <2> QED BY <1>7, <2>1, ConvertedAnswers
<1> QED BY <1>1, <1>2, <1>4, <1>5, <1>7, OthersSay

LEMMA SettleKeeps == RequestsInv /\ Settle => RequestsInv'
<1> SUFFICES ASSUME RequestsInv, Settle PROVE RequestsInv'
  OBVIOUS
<1>1. setting' \in Settings
  BY DEF Settle, Settings
<1>2. conversation' = conversation /\ unanswered' = unanswered
  BY DEF Settle
<1> QED BY <1>1, <1>2 DEF RequestsInv

LEMMA NextRequestsInv == RequestsInv /\ [RequestsNext]_requestVars => RequestsInv'
<1>1. CASE UNCHANGED requestVars
  BY <1>1 DEF requestVars, RequestsInv
<1> QED BY <1>1, ClientSaysKeeps, ModelTurnKeeps, ToolAnswersKeeps, SettleKeeps DEF RequestsNext

\* One route's request is taken, once every call is answered.
LEMMA IrIsTaken ==
    ASSUME NEW messages, NEW s \in Settings, NEW ir, ir = ToIr(messages, s), ir # <<>>,
           Convo(Conversion(messages, s.family), {})
    PROVE  /\ TurnsTaken(ir[1].turns) /\ CallsAnswered(ir[1].turns)
           /\ ~(ir[1].mode = "ANY" /\ s.family = "claude" /\ Thinking(s))
           /\ RoomForAnswer(s, ir[1].output)
           /\ \A i \in DOMAIN s.tool :
                 /\ UpstreamTakes(ir[1].tools[i])
                 /\ KeepsProperties(s.tool[i], ir[1].tools[i])
<1> DEFINE turns == TurnsOf(messages, s.family)
           mode  == ToolMode(s)
           output == OutputBudget(s)
           tools == [i \in DOMAIN s.tool |-> Transform[MaxDepth + 1][s.tool[i]]]
           thinks == Thinking(s)
<1>1. turns # <<>> /\ ~(s.family = "claude" /\ thinks /\ mode = "ANY")
  BY DEF ToIr
<1>2. ir = <<[turns |-> turns, mode |-> mode, output |-> output, tools |-> tools]>>
  BY <1>1 DEF ToIr
<1> HIDE DEF turns, mode, output, tools, thinks
<1>3. ir[1].turns = turns /\ ir[1].mode = mode /\ ir[1].output = output /\ ir[1].tools = tools
  BY <1>2
<1>4. TurnsTaken(turns) /\ CallsAnswered(turns)
  <2> DEFINE own == Conversion(messages, s.family).turns
  <2>1. Sensible(own, {})
    BY DEF Convo
  <2>2. turns = Continued(own)
    BY DEF turns, TurnsOf
  <2> HIDE DEF own
  <2> QED BY <1>1, <2>1, <2>2, Finished
<1>5. RoomForAnswer(s, output)
  BY RoomIsLeft DEF output
<1>6. ASSUME NEW i \in DOMAIN s.tool
      PROVE  /\ UpstreamTakes(tools[i])
             /\ KeepsProperties(s.tool[i], tools[i])
  <2> DEFINE given == s.tool[i]
             made  == Transform[MaxDepth + 1][given]
  <2>1. given \in JsonSchemas
    <3>1. s.tool \in {<<>>} \cup {<<t>> : t \in ToolSchemas} /\ ToolSchemas \subseteq JsonSchemas
      BY RequestsAssumption DEF Settings
    <3>2. s.tool # <<>>
      <4>1. DOMAIN <<>> = {}
        OBVIOUS
      <4> QED BY <4>1
    <3>3. PICK t \in ToolSchemas : s.tool = <<t>>
      BY <3>1, <3>2
    <3>4. i = 1 /\ <<t>>[1] = t
      <4>1. DOMAIN <<t>> = {1} /\ <<t>>[1] = t
        OBVIOUS
      <4> QED BY <3>3, <4>1
    <3> QED BY <3>1, <3>3, <3>4
  <2>2. tools[i] = made
    BY DEF tools
  <2>3. UpstreamTakes(made)
    BY <2>1, TransformIsTaken
  <2>4. KeepsProperties(given, made)
    <3>1. MaxDepth + 1 \in 0 .. MaxDepth + 1 /\ MaxDepth + 1 # 0
      BY DEF MaxDepth
    <3>2. made = Transformed(given, Transform[(MaxDepth + 1) - 1])
      BY <2>1, <3>1, TransformIs
    <3> QED BY <2>1, <3>2, TransformedIsAcceptable
  <2> HIDE DEF made
  <2> QED BY <2>2, <2>3, <2>4
<1> QED BY <1>1, <1>3, <1>4, <1>5, <1>6 DEF thinks

LEMMA RequestsTaken == RequestsInv => UpstreamTakesRequest
<1> SUFFICES ASSUME RequestsInv PROVE UpstreamTakesRequest
  OBVIOUS
<1> DEFINE s == setting
           Taken(ir) ==
             /\ TurnsTaken(ir[1].turns) /\ CallsAnswered(ir[1].turns)
             /\ ~(ir[1].mode = "ANY" /\ s.family = "claude" /\ Thinking(s))
             /\ RoomForAnswer(s, ir[1].output)
             /\ \A i \in DOMAIN s.tool :
                   /\ UpstreamTakes(ir[1].tools[i])
                   /\ KeepsProperties(s.tool[i], ir[1].tools[i])
<1>1. ASSUME NEW messages \in {conversation, AsItems(conversation)}, unanswered = {}, ToIr(messages, s) # <<>>
      PROVE  Taken(ToIr(messages, s))
  <2>1. s \in Settings /\ s.family \in {"gemini", "claude"}
    BY DEF RequestsInv, Settings
  <2>2. Convo(Conversion(messages, s.family), {})
    BY <1>1, <2>1 DEF RequestsInv
  <2> HIDE DEF s
  <2> QED BY <1>1, <2>1, <2>2, IrIsTaken
<1> QED BY <1>1 DEF UpstreamTakesRequest

\* A client that keeps to its protocol never gets a request sent upstream that the
\* upstream is known to reject or to answer with nothing: on both routes, in every
\* conversation, for every set of calls, schemas, budgets and limits.  Of schemas,
\* those that come out as an object keep their properties, and those that say they
\* are one come out as one.
THEOREM RequestsAreTaken == RequestsSpec => []UpstreamTakesRequest
<1>1. RequestsInit => RequestsInv
  BY InitRequestsInv
<1>2. RequestsInv /\ [RequestsNext]_requestVars => RequestsInv'
  BY NextRequestsInv
<1>3. RequestsInv => UpstreamTakesRequest
  BY RequestsTaken
<1> QED BY <1>1, <1>2, <1>3, PTL DEF RequestsSpec
=============================================================================
