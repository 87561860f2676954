---------------------------------- MODULE Names ----------------------------------
(***************************************************************************)
(* Model names: the static catalogue (registry/models.rs) and how the name *)
(* and the signals of a request become a wire model, a thinking budget and *)
(* a quota key (registry/resolve.rs).  A name is its stem and its tail:    *)
(* "gpt-oss-120b-medium" has the tail "medium".                            *)
(***************************************************************************)
EXTENDS Integers, Sequences

CONSTANTS
    Completions         \* the names and signals of the completions asked for

ASSUME NamesAssumption == \A input \in Completions : input.default \in {"minimal", "low", "medium", "high"}

VARIABLES
    asked            \* the completions whose names are being resolved, at most one

-----------------------------------------------------------------------------
(* The catalogue *)

Name(stem, tail) == [stem |-> stem, tail |-> tail]
Plain(stem) == Name(stem, "none")
Tails == {"minimal", "low", "medium", "high"}

\* TierRoutes: for each tier its wire model and thinking budget.
Routes(low, medium, high, budgets) ==
    [tier \in {"low", "medium", "high"} |->
        CASE tier = "low"    -> [wire |-> low, budget |-> budgets[1]]
          [] tier = "medium" -> [wire |-> medium, budget |-> budgets[2]]
          [] tier = "high"   -> [wire |-> high, budget |-> budgets[3]]]

BudgetOnly(wire, budgets) == Routes(wire, wire, wire, budgets)

Tiered(stem, budgets) == Routes(Name(stem, "low"), Name(stem, "medium"), Name(stem, "high"), budgets)

Model(id, family, routes) == [id |-> id, family |-> family, routes |-> routes]
NoRoutes == [tier \in {} |-> 0]

GptOss == Name("gpt-oss-120b", "medium")

\* MODELS, in its order.
MODELS ==
    << Model(Plain("gemini-3.1-pro"), "gemini",
           Routes(Name("gemini-3.1-pro", "low"), Name("gemini-3.1-pro", "low"),
                  Plain("gemini-pro-agent"), <<1001, 1001, 10001>>)),
       Model(Plain("gemini-3.5-flash"), "gemini",
           Routes(Name("gemini-3.5-flash-extra", "low"), Name("gemini-3.5-flash", "low"),
                  Plain("gemini-3-flash-agent"), <<1000, 4000, 10000>>)),
       Model(Plain("gemini-3.6-flash"), "gemini", Tiered("gemini-3.6-flash", <<1000, 4000, 10000>>)),
       Model(Plain("gemini-3.7-flash"), "gemini", Tiered("gemini-3.7-flash", <<1000, 4000, -1>>)),
       Model(Plain("gemini-3.8-flash"), "gemini", Tiered("gemini-3.8-flash", <<1000, 4000, -1>>)),
       Model(Plain("claude-sonnet-4-6"), "claude",
           BudgetOnly(Plain("claude-sonnet-4-6"), <<8192, 16384, 32768>>)),
       Model(Plain("claude-opus-4-6-thinking"), "claude",
           BudgetOnly(Plain("claude-opus-4-6-thinking"), <<8192, 16384, 32768>>)),
       Model(GptOss, "gpt-oss", BudgetOnly(GptOss, <<4096, 8192, 16384>>)),
       Model(Plain("gemini-3.1-flash-image"), "gemini", NoRoutes) >>

Specs == {MODELS[n] : n \in 1 .. Len(MODELS)}

IsTiered(spec) == spec.routes # NoRoutes

\* route: "minimal" is served as "low".
Route(spec, tier) == spec.routes[IF tier = "minimal" THEN "low" ELSE tier]

lookup(name) == {spec \in Specs : spec.id = name}

\* base_for_wire, with the ids compared alone.
BaseForId(wire) == {spec.id : spec \in lookup(wire)}

\* The catalogue entry a wire model belongs to.
base_for_wire(wire) ==
    {spec.id : spec \in {spec \in Specs :
        \/ spec.id = wire
        \/ IsTiered(spec) /\ (\E tier \in Tails : Route(spec, tier).wire = wire)}}

\* ModelFamily::infer.
Infer(name) ==
    CASE name.stem \in {"claude-9"} -> "claude" [] name.stem \in {"gpt-9"} -> "gpt-oss" [] OTHER -> "gemini"

QuotaPool(family) ==
    CASE family = "gemini" -> "gemini" [] family = "claude" -> "claude" [] family = "gpt-oss" -> "non-gemini"

-----------------------------------------------------------------------------
(* resolve *)

NearestTier(budget) == IF budget <= 4000 THEN "low" ELSE IF budget <= 16384 THEN "medium" ELSE "high"

\* An explicit budget outranks reasoning_effort, which outranks the default.
TierFromSignals(input) ==
    CASE input.budget > 0 -> NearestTier(input.budget)
      [] input.budget <= 0 /\ input.effort \in Tails -> input.effort
      [] OTHER -> input.default

Enabled(input, otherwise) == IF input.enabled = "unset" THEN otherwise ELSE input.enabled = "yes"

\* apply_spec: a model without routes does not think; one with routes by default does.
Apply(spec, tier, input) ==
    IF IsTiered(spec)
    THEN [wire |-> Route(spec, tier).wire, tier |-> tier, family |-> spec.family, known |-> {spec.id},
          thinking |-> Enabled(input, TRUE),
          budget |-> IF Enabled(input, TRUE) THEN {Route(spec, tier).budget} ELSE {}]
    ELSE [wire |-> spec.id, tier |-> tier, family |-> spec.family, known |-> {spec.id},
          thinking |-> FALSE, budget |-> {}]

\* resolve: the whole name first, then the name without its tier suffix, and an
\* unknown name as it is.  The family of an unknown name is inferred from the
\* name with the quota marker still in front, where "gpt-" no longer begins it.
Resolve(input) ==
    LET name == input.name
        suffixed == name.tail \in Tails
        tier == IF suffixed THEN name.tail ELSE TierFromSignals(input)
    IN CASE lookup(name) # {} ->
              Apply(CHOOSE spec \in lookup(name) : TRUE, TierFromSignals(input), input)
         [] lookup(name) = {} /\ suffixed /\ lookup(Plain(name.stem)) # {} ->
              Apply(CHOOSE spec \in lookup(Plain(name.stem)) : TRUE, tier, input)
         [] OTHER ->
              [wire |-> name, tier |-> tier, known |-> {}, budget |-> {},
               family |-> IF input.marker /\ Infer(name) = "gpt-oss" THEN "gemini" ELSE Infer(name),
               thinking |-> Enabled(input, TRUE)]

Bare(name) == [name |-> name, marker |-> FALSE, budget |-> 0, effort |-> "none",
               enabled |-> "unset", default |-> "medium"]

\* quota_key: tier variants share the quota of their entry; "-tiered" is dropped
\* from a Gemini name, anything else unknown keeps its own.
QuotaKey(resolved) ==
    LET entry == base_for_wire(resolved.wire)
        untiered == {spec.id : spec \in {spec \in Specs :
                       /\ resolved.wire = Name(spec.id.stem, "tiered")
                       /\ spec.family = "gemini" /\ IsTiered(spec)}}
        base == IF entry # {} THEN entry ELSE IF untiered # {} THEN untiered ELSE {resolved.wire}
    IN <<QuotaPool(resolved.family), CHOOSE id \in base : TRUE>>

NamesInit == asked = {}

ResolveName ==
    /\ asked = {}
    /\ \E input \in Completions : asked' = {input}

NamesSpec == NamesInit /\ [][ResolveName]_asked

-----------------------------------------------------------------------------
(* Properties *)

\* A limit is recorded under the quota key of the wire model: for a model of the
\* catalogue every spelling, tier, budget and effort leads to the one key of its
\* entry, or a limit met by one of them would not be seen by the others.
OneQuotaPerModel ==
    \A input \in asked : \A id \in Resolve(input).known :
        QuotaKey(Resolve(input)) = <<QuotaPool(Resolve(Bare(id)).family), id>>
=============================================================================
