--------------------------- MODULE Models_proofs ---------------------------
(***************************************************************************)
(* Proofs about the models: Names, for any completions and strangers, and  *)
(* ModelList, for any clients, any finite answers of the upstream and any  *)
(* life of the list.                                                       *)
(***************************************************************************)
EXTENDS ModelList, TLAPS, FiniteSetTheorems

-----------------------------------------------------------------------------
(* NAMES *)

\* The place in the catalogue of what owns a stem: every wire model and every id
\* of an entry has a stem no other entry uses.
Owner(stem) ==
    CASE stem = "gemini-3.1-pro" -> 1
      [] stem = "gemini-pro-agent" -> 1
      [] stem = "gemini-3.5-flash-extra" -> 2
      [] stem = "gemini-3.5-flash" -> 2
      [] stem = "gemini-3-flash-agent" -> 2
      [] stem = "gemini-3.6-flash" -> 3
      [] stem = "gemini-3.7-flash" -> 4
      [] stem = "gemini-3.8-flash" -> 5
      [] stem = "claude-sonnet-4-6" -> 6
      [] stem = "claude-opus-4-6-thinking" -> 7
      [] stem = "gpt-oss-120b" -> 8
      [] stem = "gemini-3.1-flash-image" -> 9
      [] OTHER -> 10

\* What the proofs use of the nth entry.
EntryFacts(n, spec) ==
    /\ Owner(spec.id.stem) = n
    /\ IsTiered(spec) => \A tier \in Tails : Owner(Route(spec, tier).wire.stem) = n
    /\ spec.id = Name(spec.id.stem, spec.id.tail)
    /\ IsTiered(spec) =>
          \/ Route(spec, "low").wire # Route(spec, "high").wire
          \/ Route(spec, "low").wire = Route(spec, "medium").wire

LEMMA RoutesLead ==
    ASSUME NEW id, NEW family, NEW low, NEW medium, NEW high, NEW budgets
    PROVE  LET spec == Model(id, family, Routes(low, medium, high, budgets))
           IN /\ IsTiered(spec)
              /\ Route(spec, "minimal").wire = low /\ Route(spec, "low").wire = low
              /\ Route(spec, "medium").wire = medium /\ Route(spec, "high").wire = high
<1> DEFINE routes == Routes(low, medium, high, budgets)
           spec == Model(id, family, routes)
<1>1. spec.routes = routes
    BY DEF Model
<1>2. /\ routes["low"] = [wire |-> low, budget |-> budgets[1]]
      /\ routes["medium"] = [wire |-> medium, budget |-> budgets[2]]
      /\ routes["high"] = [wire |-> high, budget |-> budgets[3]]
    BY DEF Routes
<1>3. routes # NoRoutes
  <2>1. DOMAIN routes = {"low", "medium", "high"} /\ DOMAIN NoRoutes = {}
      BY DEF Routes, NoRoutes
  <2> HIDE DEF routes
  <2> QED
      BY <2>1
<1> HIDE DEF routes, spec
<1>4. IsTiered(spec)
    BY <1>1, <1>3 DEF IsTiered
<1>5. /\ Route(spec, "minimal").wire = low /\ Route(spec, "low").wire = low
      /\ Route(spec, "medium").wire = medium /\ Route(spec, "high").wire = high
    BY <1>1, <1>2 DEF Route
<1> QED
    BY <1>4, <1>5 DEF spec, routes

\* An entry with routes has the facts of its place when its id and its wire
\* models have the owner.
LEMMA RoutedEntryFacts ==
    ASSUME NEW n, NEW stem, NEW tail, NEW family, NEW low, NEW medium, NEW high, NEW budgets,
           Owner(stem) = n, Owner(low.stem) = n, Owner(medium.stem) = n, Owner(high.stem) = n,
           low # high \/ low = medium
    PROVE  EntryFacts(n, Model(Name(stem, tail), family, Routes(low, medium, high, budgets)))
<1> DEFINE spec == Model(Name(stem, tail), family, Routes(low, medium, high, budgets))
<1>1. /\ Route(spec, "minimal").wire = low /\ Route(spec, "low").wire = low
      /\ Route(spec, "medium").wire = medium /\ Route(spec, "high").wire = high
    BY RoutesLead
<1>2. spec.id = Name(stem, tail) /\ spec.id.stem = stem /\ spec.id.tail = tail
    BY DEF Model, Name
<1> HIDE DEF spec
<1>3. EntryFacts(n, spec)
    BY <1>1, <1>2 DEF EntryFacts, Tails
<1> QED
    BY <1>3 DEF spec

LEMMA NamesHaveStems == \A stem, tail : Name(stem, tail).stem = stem /\ Plain(stem).stem = stem
  BY DEF Name, Plain

LEMMA NamesDiffer ==
    \A s, t, u, v : s # t \/ u # v => Name(s, u) # Name(t, v)
  BY DEF Name

LEMMA OwnersOfStems ==
    /\ Owner("gemini-3.1-pro") = 1 /\ Owner("gemini-pro-agent") = 1
    /\ Owner("gemini-3.5-flash-extra") = 2 /\ Owner("gemini-3.5-flash") = 2
    /\ Owner("gemini-3-flash-agent") = 2
    /\ Owner("gemini-3.6-flash") = 3 /\ Owner("gemini-3.7-flash") = 4 /\ Owner("gemini-3.8-flash") = 5
    /\ Owner("claude-sonnet-4-6") = 6 /\ Owner("claude-opus-4-6-thinking") = 7
    /\ Owner("gpt-oss-120b") = 8 /\ Owner("gemini-3.1-flash-image") = 9
  BY DEF Owner

LEMMA OwnersOfEntries == Len(MODELS) = 9 /\ \A n \in 1 .. 9 : EntryFacts(n, MODELS[n])
<1>0. Len(MODELS) = 9
    BY DEF MODELS
<1> USE OwnersOfStems, NamesHaveStems, RoutedEntryFacts, NamesDiffer
<1>1. EntryFacts(1, MODELS[1])
    BY DEF MODELS, Plain
<1>2. EntryFacts(2, MODELS[2])
    BY DEF MODELS, Plain
<1>3. EntryFacts(3, MODELS[3])
    BY DEF MODELS, Plain, Tiered
<1>4. EntryFacts(4, MODELS[4])
    BY DEF MODELS, Plain, Tiered
<1>5. EntryFacts(5, MODELS[5])
    BY DEF MODELS, Plain, Tiered
<1>6. EntryFacts(6, MODELS[6])
    BY DEF MODELS, Plain, BudgetOnly
<1>7. EntryFacts(7, MODELS[7])
    BY DEF MODELS, Plain, BudgetOnly
<1>8. EntryFacts(8, MODELS[8])
    BY DEF MODELS, Plain, BudgetOnly, GptOss
<1>9. EntryFacts(9, MODELS[9])
  <2>1. MODELS[9] = Model(Plain("gemini-3.1-flash-image"), "gemini", NoRoutes)
      BY DEF MODELS
  <2>2. MODELS[9].id = Plain("gemini-3.1-flash-image") /\ ~IsTiered(MODELS[9])
      BY <2>1 DEF Model, IsTiered
  <2>3. Plain("gemini-3.1-flash-image") = Name("gemini-3.1-flash-image", "none")
      BY DEF Plain
  <2> QED
      BY <2>2, <2>3 DEF EntryFacts, Name
<1> QED
    BY <1>0, <1>1, <1>2, <1>3, <1>4, <1>5, <1>6, <1>7, <1>8, <1>9

\* Every entry has one place, and owns its id and its wire models alone.
LEMMA EntriesAreApart ==
    ASSUME NEW s \in Specs, NEW t \in Specs
    PROVE  /\ Owner(s.id.stem) = Owner(t.id.stem) => s = t
           /\ IsTiered(s) => \A tier \in Tails : Owner(Route(s, tier).wire.stem) = Owner(s.id.stem)
<1>1. PICK n \in 1 .. 9 : s = MODELS[n]
    BY OwnersOfEntries DEF Specs
<1>2. PICK m \in 1 .. 9 : t = MODELS[m]
    BY OwnersOfEntries DEF Specs
<1>3. EntryFacts(n, s) /\ EntryFacts(m, t)
    BY <1>1, <1>2, OwnersOfEntries
<1> QED
    BY <1>1, <1>2, <1>3 DEF EntryFacts

LEMMA LookupFindsOne ==
    ASSUME NEW spec \in Specs
    PROVE  lookup(spec.id) = {spec}
  BY EntriesAreApart DEF lookup

\* base_for_wire finds an entry by its id and by each of its wire models.
LEMMA WireBelongsToOne ==
    ASSUME NEW spec \in Specs, NEW wire,
           wire = spec.id \/ (IsTiered(spec) /\ \E tier \in Tails : Route(spec, tier).wire = wire)
    PROVE  base_for_wire(wire) = {spec.id}
<1>1. Owner(wire.stem) = Owner(spec.id.stem)
    BY EntriesAreApart
<1>2. ASSUME NEW t \in Specs,
             t.id = wire \/ (IsTiered(t) /\ \E tier \in Tails : Route(t, tier).wire = wire)
      PROVE  t = spec
  <2>1. Owner(wire.stem) = Owner(t.id.stem)
      BY <1>2, EntriesAreApart
  <2> QED
      BY <1>1, <2>1, EntriesAreApart
<1>3. {t \in Specs : t.id = wire \/ (IsTiered(t) /\ \E tier \in Tails : Route(t, tier).wire = wire)} = {spec}
    BY <1>2
<1> QED
    BY <1>3 DEF base_for_wire

\* Whatever an entry is asked for as, the key is that of the entry.
LEMMA AppliedKey ==
    ASSUME NEW spec \in Specs, NEW tier \in Tails, NEW input
    PROVE  /\ Apply(spec, tier, input).known = {spec.id}
           /\ Apply(spec, tier, input).family = spec.family
           /\ QuotaKey(Apply(spec, tier, input)) = <<QuotaPool(spec.family), spec.id>>
<1> DEFINE r == Apply(spec, tier, input)
<1>1. r.known = {spec.id} /\ r.family = spec.family
    BY DEF Apply
<1>2. r.wire = IF IsTiered(spec) THEN Route(spec, tier).wire ELSE spec.id
    BY DEF Apply
<1>3. base_for_wire(r.wire) = {spec.id}
    BY <1>2, WireBelongsToOne
<1> HIDE DEF r
<1>4. QuotaKey(r) = <<QuotaPool(spec.family), spec.id>>
    BY <1>1, <1>3 DEF QuotaKey
<1> QED
    BY <1>1, <1>4 DEF r

\* An entry asked for by its id alone.
LEMMA BareEntry ==
    ASSUME NEW spec \in Specs
    PROVE  Resolve(Bare(spec.id)) = Apply(spec, "medium", Bare(spec.id))
<1>1. Bare(spec.id).name = spec.id /\ TierFromSignals(Bare(spec.id)) = "medium"
    BY DEF Bare, TierFromSignals, Tails
<1>2. lookup(spec.id) = {spec}
    BY LookupFindsOne
<1> QED
    BY <1>1, <1>2 DEF Resolve

\* What resolves to something known is an entry with some tier.
LEMMA ResolvedEntry ==
    ASSUME NEW input, input.default \in Tails, Resolve(input).known # {}
    PROVE  \E spec \in Specs, tier \in Tails : Resolve(input) = Apply(spec, tier, input)
<1> DEFINE name == input.name
           suffixed == name.tail \in Tails
           tier == IF suffixed THEN name.tail ELSE TierFromSignals(input)
<1>1. TierFromSignals(input) \in Tails /\ tier \in Tails
    BY DEF TierFromSignals, NearestTier, Tails
<1>2. CASE lookup(name) # {}
  <2>1. (CHOOSE spec \in lookup(name) : TRUE) \in Specs
      BY <1>2 DEF lookup
  <2> QED
      BY <1>1, <1>2, <2>1 DEF Resolve
<1>3. CASE lookup(name) = {} /\ suffixed /\ lookup(Plain(name.stem)) # {}
  <2>1. (CHOOSE spec \in lookup(Plain(name.stem)) : TRUE) \in Specs
      BY <1>3 DEF lookup
  <2> QED
      BY <1>1, <1>3, <2>1 DEF Resolve
<1>4. CASE lookup(name) = {} /\ ~(suffixed /\ lookup(Plain(name.stem)) # {})
  <2>1. Resolve(input).known = {}
      BY <1>4 DEF Resolve
  <2> QED
      BY <2>1
<1> QED
    BY <1>2, <1>3, <1>4

LEMMA KeyOfTheEntry ==
    ASSUME NEW input, input.default \in Tails, NEW id \in Resolve(input).known
    PROVE  QuotaKey(Resolve(input)) = <<QuotaPool(Resolve(Bare(id)).family), id>>
<1>1. PICK spec \in Specs, tier \in Tails : Resolve(input) = Apply(spec, tier, input)
    BY ResolvedEntry
<1>2. id = spec.id
    BY <1>1, AppliedKey
<1>3. Resolve(Bare(id)).family = spec.family
  <2>1. "medium" \in Tails
      BY DEF Tails
  <2> QED
      BY <1>2, <2>1, BareEntry, AppliedKey
<1> QED
    BY <1>1, <1>2, <1>3, AppliedKey

\* Whatever name, tier suffix, budget or effort a completion comes with: what of it
\* is known has the one quota key of its entry (resolve, quota_key, base_for_wire).
THEOREM SpellingsShareAQuota == NamesSpec => []OneQuotaPerModel
<1> DEFINE Asked == asked \subseteq Completions
<1>1. NamesInit => Asked
    BY DEF NamesInit
<1>2. Asked /\ [ResolveName]_asked => Asked'
    BY DEF ResolveName
<1>3. Asked => OneQuotaPerModel
    BY NamesAssumption, KeyOfTheEntry DEF OneQuotaPerModel, Tails
<1> QED
    BY <1>1, <1>2, <1>3, PTL DEF NamesSpec

-----------------------------------------------------------------------------
(* THE LIST *)

-----------------------------------------------------------------------------
(* The names of a list, and where they lead *)

WireOf(name) == Resolve(Bare(name)).wire

LEMMA EntriesAreFew ==
    ASSUME NEW spec
    PROVE  IsFiniteSet(EntriesFor(spec))
<1> DEFINE names == ({spec.id} \cup {Name(spec.id.stem, "low")}) \cup {Name(spec.id.stem, "medium")}
                       \cup {Name(spec.id.stem, "high")}
<1>1. IsFiniteSet(names)
  <2>1. IsFiniteSet({spec.id})
      BY FS_Singleton
  <2>2. IsFiniteSet({spec.id} \cup {Name(spec.id.stem, "low")})
      BY <2>1, FS_AddElement
  <2>3. IsFiniteSet({spec.id} \cup {Name(spec.id.stem, "low")} \cup {Name(spec.id.stem, "medium")})
      BY <2>2, FS_AddElement
  <2> QED
      BY <2>3, FS_AddElement
<1>2. EntriesFor(spec) \subseteq names
    BY DEF EntriesFor
<1> QED
    BY <1>1, <1>2, FS_Subset

LEMMA JoinedIsFinite == \A S, T : IsFiniteSet(S) /\ IsFiniteSet(T) => IsFiniteSet(S \cup T)
  BY FS_Union

LEMMA StaticIsFinite == IsFiniteSet(Static)
<1> DEFINE E(n) == EntriesFor(MODELS[n])
<1>1. \A n \in 1 .. 9 : IsFiniteSet(E(n))
    BY EntriesAreFew
<1>2. Static = E(1) \cup E(2) \cup E(3) \cup E(4) \cup E(5) \cup E(6) \cup E(7) \cup E(8) \cup E(9)
  <2>1. \A x : x \in Static <=> \E n \in 1 .. 9 : x \in E(n)
      BY OwnersOfEntries DEF Static, Specs
  <2> HIDE DEF E
  <2>2. \A x : (\E n \in 1 .. 9 : x \in E(n)) <=>
           x \in E(1) \/ x \in E(2) \/ x \in E(3) \/ x \in E(4) \/ x \in E(5) \/ x \in E(6) \/ x \in E(7)
             \/ x \in E(8) \/ x \in E(9)
      OBVIOUS
  <2> QED
      BY <2>1, <2>2
<1> HIDE DEF E
<1>3. IsFiniteSet(E(1) \cup E(2))
    BY <1>1, JoinedIsFinite
<1>4. IsFiniteSet(E(1) \cup E(2) \cup E(3))
    BY <1>1, <1>3, JoinedIsFinite
<1>5. IsFiniteSet(E(1) \cup E(2) \cup E(3) \cup E(4))
    BY <1>1, <1>4, JoinedIsFinite
<1>6. IsFiniteSet(E(1) \cup E(2) \cup E(3) \cup E(4) \cup E(5))
    BY <1>1, <1>5, JoinedIsFinite
<1>7. IsFiniteSet(E(1) \cup E(2) \cup E(3) \cup E(4) \cup E(5) \cup E(6))
    BY <1>1, <1>6, JoinedIsFinite
<1>8. IsFiniteSet(E(1) \cup E(2) \cup E(3) \cup E(4) \cup E(5) \cup E(6) \cup E(7))
    BY <1>1, <1>7, JoinedIsFinite
<1>9. IsFiniteSet(E(1) \cup E(2) \cup E(3) \cup E(4) \cup E(5) \cup E(6) \cup E(7) \cup E(8))
    BY <1>1, <1>8, JoinedIsFinite
<1>10. IsFiniteSet(E(1) \cup E(2) \cup E(3) \cup E(4) \cup E(5) \cup E(6) \cup E(7) \cup E(8) \cup E(9))
    BY <1>1, <1>9, JoinedIsFinite
<1> QED
    BY <1>2, <1>10

LEMMA ListingIsFinite ==
    ASSUME NEW live \in Reported
    PROVE  IsFiniteSet(Listing(live))
<1>1. IsFiniteSet({CHOOSE wire \in WireNames : lookup(wire) = {}} \cup Strangers)
    BY ModelListAssumption, FS_Singleton, FS_Union
<1>2. IsFiniteSet(live)
    BY <1>1, FS_Subset DEF Reported
<1>3. IsFiniteSet(Static \cup live)
    BY <1>2, StaticIsFinite, FS_Union
<1>4. Listing(live) \in SUBSET (Static \cup live)
    BY DEF Listing
<1> QED
    BY <1>3, <1>4, FS_Subset

LEMMA BareWire ==
    ASSUME NEW spec \in Specs
    PROVE  WireOf(spec.id) = IF IsTiered(spec) THEN Route(spec, "medium").wire ELSE spec.id
<1>1. WireOf(spec.id) = Apply(spec, "medium", Bare(spec.id)).wire
    BY BareEntry DEF WireOf
<1>2. CASE IsTiered(spec)
    BY <1>1, <1>2 DEF Apply
<1>3. CASE ~IsTiered(spec)
    BY <1>1, <1>3 DEF Apply
<1> QED
    BY <1>2, <1>3

\* A name of the catalogue leads to a wire model of its own entry.
LEMMA EntryLeadsHome ==
    ASSUME NEW spec \in Specs, NEW name \in EntriesFor(spec)
    PROVE  /\ Owner(WireOf(name).stem) = Owner(spec.id.stem)
           /\ base_for_wire(WireOf(name)) # {}
<1>1. CASE name = spec.id
  <2>1. WireOf(name) = IF IsTiered(spec) THEN Route(spec, "medium").wire ELSE spec.id
      BY <1>1, BareWire
  <2>2. "medium" \in Tails
      BY DEF Tails
  <2>3. Owner(WireOf(name).stem) = Owner(spec.id.stem)
      BY <2>1, <2>2, EntriesAreApart
  <2>4. base_for_wire(WireOf(name)) = {spec.id}
      BY <2>1, <2>2, WireBelongsToOne
  <2> QED
      BY <2>3, <2>4
<1>2. CASE name # spec.id
  <2>1. PICK tier \in {"low", "medium", "high"} :
           IsTiered(spec) /\ name = Name(spec.id.stem, tier) /\ WireOf(name) = Route(spec, tier).wire
      BY <1>2 DEF EntriesFor, WireOf
  <2>2. tier \in Tails
      BY DEF Tails
  <2> QED
      BY <2>1, <2>2, EntriesAreApart, WireBelongsToOne
<1> QED
    BY <1>1, <1>2

\* No two names of one entry lead to the same wire model.
LEMMA EntryNamesDiffer ==
    ASSUME NEW spec \in Specs, NEW a \in EntriesFor(spec), NEW b \in EntriesFor(spec),
           WireOf(a) = WireOf(b)
    PROVE  a = b
<1> DEFINE Variant(x, tier) ==
           /\ IsTiered(spec) /\ x = Name(spec.id.stem, tier) /\ WireOf(x) = Route(spec, tier).wire
           /\ WireOf(x) # WireOf(spec.id)
<1>1. \A x \in EntriesFor(spec) : x = spec.id \/ \E tier \in {"low", "medium", "high"} : Variant(x, tier)
    BY DEF EntriesFor, WireOf
<1>2. IsTiered(spec) => WireOf(spec.id) = Route(spec, "medium").wire
    BY BareWire
<1>3. \A x : ~Variant(x, "medium")
    BY <1>2
<1>4. IsTiered(spec) => \/ Route(spec, "low").wire # Route(spec, "high").wire
                        \/ Route(spec, "low").wire = Route(spec, "medium").wire
  <2>1. PICK n \in 1 .. 9 : spec = MODELS[n]
      BY OwnersOfEntries DEF Specs
  <2> QED
      BY <2>1, OwnersOfEntries DEF EntryFacts
<1>5. \A x \in EntriesFor(spec) :
         \/ x = spec.id
         \/ Variant(x, "low") /\ Route(spec, "low").wire # Route(spec, "medium").wire
         \/ Variant(x, "high") /\ Route(spec, "high").wire # Route(spec, "medium").wire
    BY <1>1, <1>2, <1>3
<1>6. CASE a = spec.id
    BY <1>5, <1>6
<1>7. CASE b = spec.id
    BY <1>5, <1>7
<1>8. CASE a # spec.id /\ b # spec.id
  <2>1. PICK s \in {"low", "high"} : Variant(a, s) /\ Route(spec, s).wire # Route(spec, "medium").wire
      BY <1>5, <1>8
  <2>2. PICK t \in {"low", "high"} : Variant(b, t) /\ Route(spec, t).wire # Route(spec, "medium").wire
      BY <1>5, <1>8
  <2>3. Route(spec, s).wire = Route(spec, t).wire
      BY <2>1, <2>2
  <2>4. s = t
      BY <1>4, <2>1, <2>2, <2>3
  <2> QED
      BY <2>1, <2>2, <2>4
<1> QED
    BY <1>6, <1>7, <1>8

\* What the upstream reports beside the catalogue leads to itself.
LEMMA StrangerLeadsToItself ==
    ASSUME NEW live \in Reported, NEW name \in live, base_for_wire(name) = {}
    PROVE  WireOf(name) = name
<1>1. Name("gemini-3.1-pro", "low") \in WireNames /\ lookup(Name("gemini-3.1-pro", "low")) = {}
  <2> DEFINE spec == MODELS[1]
  <2>1. spec = Model(Plain("gemini-3.1-pro"), "gemini",
                     Routes(Name("gemini-3.1-pro", "low"), Name("gemini-3.1-pro", "low"),
                            Plain("gemini-pro-agent"), <<1001, 1001, 10001>>))
      BY DEF MODELS
  <2>2. spec \in Specs
      BY OwnersOfEntries DEF Specs
  <2>3. IsTiered(spec) /\ Route(spec, "low").wire = Name("gemini-3.1-pro", "low")
      BY <2>1, RoutesLead
  <2>4. "low" \in Tails
      BY DEF Tails
  <2>5. spec.id = Name("gemini-3.1-pro", "none")
      BY <2>1 DEF Model, Plain
  <2> HIDE DEF spec
  <2>6. ASSUME NEW t \in Specs, t.id = Name("gemini-3.1-pro", "low") PROVE FALSE
    <3>1. Owner(t.id.stem) = Owner(spec.id.stem)
        BY <2>5, <2>6, NamesHaveStems
    <3>2. t = spec
        BY <2>2, <3>1, EntriesAreApart
    <3> QED
        BY <2>5, <2>6, <3>2, NamesDiffer
  <2>7. Name("gemini-3.1-pro", "low") \in WireNames
      BY <2>2, <2>3, <2>4 DEF WireNames
  <2> QED
      BY <2>6, <2>7 DEF lookup
<1> DEFINE wire == CHOOSE wire \in WireNames : lookup(wire) = {}
<1>2. wire \in WireNames
    BY <1>1
<1>3. base_for_wire(wire) # {}
    BY <1>2, WireBelongsToOne DEF WireNames
<1>4. name \in Strangers
    BY <1>3 DEF Reported
<1>5. Resolve(Bare(name)).known = {}
    BY <1>4, ModelListAssumption
<1>6. Bare(name).name = name /\ Bare(name).default \in Tails
    BY DEF Bare, Tails
<1>7. WireOf(name) = name
  <2> DEFINE input == Bare(name)
             suffixed == name.tail \in Tails
             tier == IF suffixed THEN name.tail ELSE TierFromSignals(input)
  <2>1. \A spec, t : Apply(spec, t, input).known # {}
      BY DEF Apply
  <2>2. CASE lookup(name) # {}
      BY <2>1, <2>2, <1>5, <1>6 DEF Resolve
  <2>3. CASE lookup(name) = {} /\ suffixed /\ lookup(Plain(name.stem)) # {}
      BY <2>1, <2>3, <1>5, <1>6 DEF Resolve
  <2>4. CASE lookup(name) = {} /\ ~(suffixed /\ lookup(Plain(name.stem)) # {})
      BY <2>4, <1>6 DEF Resolve, WireOf
  <2> QED
      BY <2>2, <2>3, <2>4
<1> QED
    BY <1>7

\* A client's choice among the names of a list is a choice among wire models.
LEMMA NamesLeadApart ==
    ASSUME NEW live \in Reported, NEW a \in Listing(live), NEW b \in Listing(live),
           WireOf(a) = WireOf(b)
    PROVE  a = b
<1>1. \A x \in Listing(live) : \/ \E spec \in Specs : x \in EntriesFor(spec)
                               \/ x \in live /\ base_for_wire(x) = {} /\ WireOf(x) = x
    BY StrangerLeadsToItself DEF Listing, Static
<1>2. CASE \E spec \in Specs : a \in EntriesFor(spec)
  <2>1. PICK s \in Specs : a \in EntriesFor(s)
      BY <1>2
  <2>2. base_for_wire(WireOf(b)) # {}
      BY <2>1, EntryLeadsHome
  <2>3. PICK t \in Specs : b \in EntriesFor(t)
      BY <1>1, <2>2
  <2>4. s = t
      BY <2>1, <2>3, EntryLeadsHome, EntriesAreApart
  <2> QED
      BY <2>1, <2>3, <2>4, EntryNamesDiffer
<1>3. CASE a \in live /\ base_for_wire(a) = {} /\ WireOf(a) = a
    BY <1>1, <1>3, EntryLeadsHome
<1> QED
    BY <1>1, <1>2, <1>3

LEMMA AsManyWiresAsNames ==
    ASSUME NEW live \in Reported
    PROVE  Cardinality({Resolve(Bare(name)).wire : name \in Listing(live)}) = Cardinality(Listing(live))
<1> DEFINE list == Listing(live)
           wires == {WireOf(name) : name \in list}
           f == [name \in list |-> WireOf(name)]
<1>1. f \in Bijection(list, wires)
    BY NamesLeadApart DEF Bijection, Injection, Surjection, IsInjective
<1>2. ExistsBijection(list, wires)
    BY <1>1 DEF ExistsBijection
<1>3. Cardinality(wires) = Cardinality(list)
    BY <1>2, ListingIsFinite, FS_Bijection
<1> QED
    BY <1>3 DEF WireOf

-----------------------------------------------------------------------------
(* The lists over time *)

Seens == [models : Reported, at : Int]
Listings == {Listing(models) : models \in Reported}

\* A list that is served is that of the catalogue it was read from, or that has
\* since been replaced by a later answer.
ListInductive ==
    /\ hour \in Nat /\ catalogue \in Seens /\ catalogue.at <= hour
    /\ lister \in [Listers -> [pc : {"idle", "fetch", "served"}, list : {{}} \cup Listings, seen : Seens]]
    /\ \A l \in Listers :
         /\ lister[l].pc = "fetch" =>
               /\ lister[l].seen.at < hour
               /\ lister[l].seen = catalogue \/ lister[l].seen.at < catalogue.at
         /\ lister[l].pc = "served" =>
               /\ lister[l].list \in Listings
               /\ lister[l].list = Listing(lister[l].seen.models) \/ lister[l].seen.at < catalogue.at

LEMMA NothingReported == {} \in Reported /\ NotCached \in Seens
  BY DEF Reported, Seens, NotCached

LEMMA ListStep == ListInductive /\ [ListNext]_listVars => ListInductive'
<1> SUFFICES ASSUME ListInductive, [ListNext]_listVars PROVE ListInductive'
    OBVIOUS
<1>1. ASSUME NEW l \in Listers, AskForList(l) PROVE ListInductive'
  <2>1. UNCHANGED <<hour, catalogue>> /\ lister[l].pc = "idle"
      BY <1>1 DEF AskForList
  <2>2. Listing(catalogue.models) \in Listings /\ catalogue.models \in Reported
      BY DEF ListInductive, Seens, Listings
  <2>3. CASE catalogue # NotCached /\ hour - catalogue.at < ListLife
    <3>1. lister' = [lister EXCEPT ![l] =
                       [pc |-> "served", list |-> Listing(catalogue.models), seen |-> catalogue]]
        BY <1>1, <2>3 DEF AskForList
    <3> QED
        BY <2>1, <2>2, <3>1 DEF ListInductive
  <2>4. CASE ~(catalogue # NotCached /\ hour - catalogue.at < ListLife)
    <3>1. lister' = [lister EXCEPT ![l] = [pc |-> "fetch", list |-> {}, seen |-> catalogue]]
        BY <1>1, <2>4 DEF AskForList
    <3>2. catalogue.at < hour
      <4>1. catalogue.at \in Int /\ hour \in Nat /\ ListLife \in Nat \ {0}
          BY ModelListAssumption DEF ListInductive, Seens
      <4> QED
          BY <2>4, <4>1 DEF NotCached
    <3> QED
        BY <2>1, <3>1, <3>2 DEF ListInductive
  <2> QED
      BY <2>3, <2>4
<1>2. ASSUME NEW l \in Listers, ListFetched(l) PROVE ListInductive'
  <2>1. PICK models \in Reported :
           /\ catalogue' = [models |-> models, at |-> hour]
           /\ lister' = [lister EXCEPT ![l] =
                  [pc |-> "served", list |-> Listing(models), seen |-> catalogue']]
      BY <1>2 DEF ListFetched
  <2>2. UNCHANGED hour
      BY <1>2 DEF ListFetched
  <2>3. Listing(models) \in Listings
      BY DEF Listings
  <2>4. catalogue' \in Seens /\ catalogue'.at = hour /\ catalogue'.models = models
      BY <2>1 DEF ListInductive, Seens
  <2>5. \A k \in Listers : k # l => lister'[k] = lister[k]
      BY <2>1 DEF ListInductive
  <2>6. lister'[l] = [pc |-> "served", list |-> Listing(models), seen |-> catalogue']
      BY <2>1 DEF ListInductive
  <2>7. lister' \in [Listers -> [pc : {"idle", "fetch", "served"}, list : {{}} \cup Listings, seen : Seens]]
      BY <2>1, <2>3, <2>4 DEF ListInductive
  <2>8. \A k \in Listers : lister[k].seen.at \in Int /\ catalogue.at \in Int /\ hour \in Int
      BY DEF ListInductive, Seens
  <2> QED
      BY <2>2, <2>3, <2>4, <2>5, <2>6, <2>7, <2>8 DEF ListInductive
<1>3. ASSUME NEW l \in Listers, ListUnavailable(l) PROVE ListInductive'
  <2>1. UNCHANGED <<hour, catalogue>> /\ lister[l].pc = "fetch"
        /\ lister' = [lister EXCEPT ![l].pc = "served", ![l].list = Listing(catalogue.models)]
      BY <1>3 DEF ListUnavailable
  <2>2. Listing(catalogue.models) \in Listings
      BY DEF ListInductive, Seens, Listings
  <2> QED
      BY <2>1, <2>2 DEF ListInductive
<1>4. ASSUME NEW l \in Listers, ListAgain(l) PROVE ListInductive'
  <2>1. Arrived \in [pc : {"idle", "fetch", "served"}, list : {{}} \cup Listings, seen : Seens]
        /\ Arrived.pc = "idle"
      BY NothingReported DEF Arrived
  <2> HIDE DEF Arrived
  <2> QED
      BY <1>4, <2>1 DEF ListAgain, ListInductive
<1>5. CASE HourPasses
  <2>1. \A k \in Listers : lister[k].seen.at \in Int /\ catalogue.at \in Int /\ hour \in Nat
      BY DEF ListInductive, Seens
  <2>2. hour' = hour + 1 /\ UNCHANGED <<catalogue, lister>>
      BY <1>5 DEF HourPasses
  <2>3. hour' \in Nat /\ catalogue.at <= hour'
      BY <2>1, <2>2 DEF ListInductive, Seens
  <2>4. \A k \in Listers : lister[k].seen.at < hour => lister[k].seen.at < hour'
      BY <2>1, <2>2
  <2> QED
      BY <2>2, <2>3, <2>4 DEF ListInductive
<1>6. CASE UNCHANGED listVars
    BY <1>6 DEF listVars, ListInductive
<1> QED
    BY <1>1, <1>2, <1>3, <1>4, <1>5, <1>6 DEF ListNext

\* A failing refresh takes no name from any client, the names of the catalogue are
\* always listed, and no two names lead to one wire model (live_models, entries_for,
\* list), for any number of requests and whatever the upstream reports.
THEOREM ListsStayWhole == ListSpec => []ListFailsOpen
<1>1. ListInit => ListInductive
    BY NothingReported DEF ListInit, ListInductive, Arrived, NotCached
<1>2. ListInductive => ListFailsOpen
  <2> SUFFICES ASSUME ListInductive, NEW l \in Listers, lister[l].pc = "served"
               PROVE  /\ Static \subseteq lister[l].list
                      /\ lister[l].seen # catalogue \/ Listing(catalogue.models) \subseteq lister[l].list
                      /\ Cardinality({Resolve(Bare(name)).wire : name \in lister[l].list})
                            = Cardinality(lister[l].list)
      BY DEF ListFailsOpen
  <2>1. PICK live \in Reported : lister[l].list = Listing(live)
      BY DEF ListInductive, Listings
  <2>2. Static \subseteq Listing(live)
      BY DEF Listing
  <2>3. lister[l].seen # catalogue \/ lister[l].list = Listing(catalogue.models)
      BY DEF ListInductive, Seens
  <2> QED
      BY <2>1, <2>2, <2>3, AsManyWiresAsNames
<1> QED
    BY <1>1, <1>2, ListStep, PTL DEF ListSpec
=============================================================================
