--------------------------------- MODULE MCParts ---------------------------------
(***************************************************************************)
(* Small inputs for every part.                                            *)
(***************************************************************************)
EXTENDS Parts

mcPorts == <<51121, 51122>>

\* Resolution: every stem of the catalogue with every tail, and names it lacks.
mcCompletions ==
    [name    : {Name(stem, tail) :
                  stem \in {"gemini-3.1-pro", "gemini-3.5-flash", "gemini-3.5-flash-extra",
                            "gemini-pro-agent", "gemini-3.8-flash", "claude-sonnet-4-6",
                            "gpt-oss-120b", "gpt-9", "gemini-3.1-flash-image"},
                  tail \in Tails \cup {"none", "tiered"}},
     marker  : BOOLEAN,
     budget  : {0, 4000, 4001},
     effort  : {"none", "minimal", "high"},
     enabled : {"unset", "no"},
     default : {"medium"}]

mcStrangers == {Plain("gemini-9.9"), Name("gemini-3.8-flash", "tiered")}

\* Refusals: structured evidence alone, contradicted, incomplete; prose; hints.
Info(reason) == [kind |-> "info", says |-> reason]
Quotas(per) == [kind |-> "quotas", says |-> per]
RetryIn(seconds) == [kind |-> "retry", says |-> seconds]

mcDetails ==
    {<<>>, <<Info("quota")>>, <<Info("rate")>>, <<Info("other"), Quotas({"day"})>>, <<Quotas({"minute"})>>,
     <<Quotas({}), Quotas({"minute", "day"})>>, <<RetryIn(5), Info("quota")>>, <<RetryIn(0), Quotas({"day"})>>,
     <<Info("capacity"), Info("quota")>>}

mcAnswers ==
    [status : {429}, details : mcDetails, canonical : {"other", "quota", "server"},
     words : {{}, {"rate limit"}, {"quota exceeded", "capacity"}}, header : {0, 7}, marks : {{}},
     delays : {<<0, 0>>}, prose : {0}]
    \cup
    [status : {400}, details : {<<>>, <<Info("rate")>>}, canonical : {"other"},
     words : {{}, {"quota exceeded"}}, header : {0}, marks : {{}},
     delays : {<<0, 0>>}, prose : {0}]
    \cup
    [status : {403}, details : {<<>>}, canonical : {"other"}, words : {{}}, header : {0},
     marks : SUBSET {"banned", "account_ineligible", "validation_required"},
     delays : {<<0, 0>>}, prose : {0}]
    \cup
    [status : {401, 404, 500, 502, 503}, details : {<<Info("quota")>>}, canonical : {"other"},
     words : {{}}, header : {0}, marks : {{}},
     delays : {<<0, 0>>}, prose : {0}]
    \cup
    [status : {429}, details : {<<Info("quota")>>, <<RetryIn(0), Quotas({"day"})>>}, canonical : {"other"},
     words : {{}}, header : {0}, marks : {{}},
     delays : {<<0, 0>>, <<4, 0>>, <<0, 90>>, <<4, 90>>}, prose : {1, 30}]

\* Conversations: one call or two at once, ids used again for another tool.
Call(id, name) == [id |-> id, name |-> name]

mcToolCalls ==
    {<<Call("c1", "f")>>, <<Call("c1", "g")>>, <<Call("c1", "f"), Call("c2", "g")>>,
     <<Call("c1", "f"), Call("c2", "f")>>}

mcThinkingBudgets == {-1, 8000, 32000}

\* Schemas: nested, composed, unions, tuples, types in a list, required without a property.
Object(props, required) == Schema(<<"object">>, <<props>>, <<required>>, <<>>, <<>>, <<>>)
Text == TypeOnly(<<"string">>)
Inner == Object([p |-> Text], {"p"})
Outer == Object([q |-> Inner], {"q", "x"})

\* Properties without a type.
Untyped == Schema(<<>>, <<[p |-> Text]>>, <<{"p"}>>, <<>>, <<>>, <<>>)

mcToolSchemas ==
    {TypeOnly(<<"object">>), Text, Outer,
     Schema(<<"object">>, <<[r |-> Text]>>, <<{"p", "r"}>>, <<>>, <<Inner, Outer>>, <<>>),
     Schema(<<>>, <<>>, <<>>, <<>>, <<Inner, Outer>>, <<>>), Untyped,
     Schema(<<>>, <<>>, <<>>, <<>>, <<Untyped, Outer>>, <<>>), Schema(<<>>, <<>>, <<>>, <<>>, <<Untyped>>, <<>>),
     Schema(<<>>, <<>>, <<>>, <<>>, <<>>, <<Text, Outer, TypeOnly(<<"null">>)>>),
     Schema(<<"array", "null">>, <<[p |-> Text]>>, <<{"p"}>>, <<Text, Inner>>, <<>>, <<>>),
     Schema(<<"string", "object">>, <<>>, <<{"p"}>>, <<>>, <<>>, <<Inner>>)}

mcJsonSchemas == mcToolSchemas \cup {Inner, TypeOnly(<<"null">>)}
=============================================================================
