------------------------------- MODULE ModelList -------------------------------
(***************************************************************************)
(* The list of models clients see: the static catalogue merged with what   *)
(* the upstream reports, which is cached and refreshed by the requests for *)
(* it (registry/live.rs, Engine::live_models, server/models.rs).           *)
(***************************************************************************)
EXTENDS Names, FiniteSets

CONSTANTS
    Listers,         \* requests for /v1/models
    Strangers,       \* names the upstream may report that the catalogue lacks
    ListLife,        \* CACHE_TTL of the live list
    LastHour         \* bound: the clock stops there

\* The upstream reports finitely many names, and adds no tier suffix to those of
\* the catalogue.
ASSUME ModelListAssumption ==
    /\ ListLife \in Nat \ {0} /\ LastHour \in Nat
    /\ IsFiniteSet(Strangers) /\ \A name \in Strangers : Resolve(Bare(name)).known = {}

VARIABLES
    hour,            \* the clock
    catalogue,       \* LiveCatalogue::cached
    lister           \* where each request for the list is, and what it was given

listVars == <<hour, catalogue, lister>>

\* entries_for: the entry and each tier variant that reaches a wire model of its own.
EntriesFor(spec) ==
    {spec.id} \cup
    {Name(spec.id.stem, tier) : tier \in
        {tier \in {"low", "medium", "high"} :
            /\ IsTiered(spec)
            /\ Route(spec, tier).wire \notin {spec.id, Resolve(Bare(spec.id)).wire}
            /\ Resolve(Bare(Name(spec.id.stem, tier))).wire = Route(spec, tier).wire}}

Static == UNION {EntriesFor(spec) : spec \in Specs}

\* list: the catalogue, and the reported models it has no entry for.
Listing(live) == Static \cup {name \in live : base_for_wire(name) = {}}

WireNames == {Route(spec, tier).wire : spec \in {spec \in Specs : IsTiered(spec)}, tier \in Tails}

\* parse keeps what is shaped like a model; an answer without a list is an empty one.
Reported == SUBSET ({CHOOSE wire \in WireNames : lookup(wire) = {}} \cup Strangers)

NotCached == [models |-> {}, at |-> -1]
Arrived == [pc |-> "idle", list |-> {}, seen |-> NotCached]

ListInit ==
    /\ hour = 0 /\ catalogue = NotCached
    /\ lister = [l \in Listers |-> Arrived]

\* live_models: a fresh list is served; otherwise the upstream is asked.
AskForList(l) ==
    /\ lister[l].pc = "idle"
    /\ lister' = [lister EXCEPT ![l] =
           IF catalogue # NotCached /\ hour - catalogue.at < ListLife
           THEN [pc |-> "served", list |-> Listing(catalogue.models), seen |-> catalogue]
           ELSE [pc |-> "fetch", list |-> {}, seen |-> catalogue]]
    /\ UNCHANGED <<hour, catalogue>>

\* fetch_available_models: the first endpoint with an answer that parses.
ListFetched(l) ==
    /\ lister[l].pc = "fetch"
    /\ \E models \in Reported :
          /\ catalogue' = [models |-> models, at |-> hour]
          /\ lister' = [lister EXCEPT ![l] =
                 [pc |-> "served", list |-> Listing(models), seen |-> catalogue']]
    /\ UNCHANGED hour

\* Mutant of ListUnavailable: what the upstream does not confirm is not listed.
ListEmptied(l) ==
    /\ lister[l].pc = "fetch"
    /\ lister' = [lister EXCEPT ![l].pc = "served", ![l].list = Listing({})]
    /\ UNCHANGED <<hour, catalogue>>

\* No eligible account, no token, no endpoint: the stale list, if there is one.
ListUnavailable(l) ==
    /\ lister[l].pc = "fetch"
    /\ lister' = [lister EXCEPT ![l].pc = "served", ![l].list = Listing(catalogue.models)]
    /\ UNCHANGED <<hour, catalogue>>

ListAgain(l) ==
    /\ lister[l].pc = "served"
    /\ lister' = [lister EXCEPT ![l] = Arrived]
    /\ UNCHANGED <<hour, catalogue>>

HourPasses ==
    /\ hour < LastHour
    /\ hour' = hour + 1
    /\ UNCHANGED <<catalogue, lister>>

ListNext ==
    \/ \E l \in Listers : AskForList(l) \/ ListFetched(l) \/ ListUnavailable(l) \/ ListAgain(l)
    \/ HourPasses

ListSpec == ListInit /\ [][ListNext]_listVars

-----------------------------------------------------------------------------
(* Properties *)

\* A model the upstream reported stays on the list until the upstream itself
\* answers without it: a failing refresh takes no name from any client, and the
\* names of the catalogue are always there.  And no two names of a list lead to
\* the same wire model, so a client's choice among them means something.
ListFailsOpen ==
    \A l \in Listers : lister[l].pc = "served" =>
        /\ Static \subseteq lister[l].list
        /\ lister[l].seen # catalogue \/ Listing(catalogue.models) \subseteq lister[l].list
        /\ Cardinality({Resolve(Bare(name)).wire : name \in lister[l].list})
              = Cardinality(lister[l].list)
=============================================================================
