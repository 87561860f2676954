--------------------------------- MODULE Schemas ---------------------------------
(***************************************************************************)
(* Tool parameter schemas made acceptable to the upstream                  *)
(* (transform/schema.rs).  A field that may be absent is a sequence, empty *)
(* when it is; items is a sequence of one, or a tuple of more.  Left out   *)
(* are the text of descriptions and hints, and enum, const and nullable,   *)
(* which the upstream takes as they are.                                   *)
(***************************************************************************)
EXTENDS Integers, Sequences

CONSTANT
    JsonSchemas      \* the schemas clients send, and those inside them

Schema(type, props, required, items, allOf, anyOf) ==
    [type |-> type, props |-> props, required |-> required, items |-> items,
     allOf |-> allOf, anyOf |-> anyOf]

TypeOnly(type) == Schema(type, <<>>, <<>>, <<>>, <<>>, <<>>)

\* The properties of a schema, by name.
PropsOf(s) == IF s.props = <<>> THEN <<>> ELSE s.props[1]

\* The names of types, as the upstream spells them; it has no null.
UpperCase ==
    [object |-> "OBJECT", array |-> "ARRAY", string |-> "STRING", integer |-> "INTEGER",
     number |-> "NUMBER", boolean |-> "BOOLEAN", null |-> "STRING"]

ASSUME SchemasAssumption ==
    \A s \in JsonSchemas :
        /\ s.type \in Seq(DOMAIN UpperCase)
        /\ \A p \in DOMAIN PropsOf(s) : PropsOf(s)[p] \in JsonSchemas
        /\ s.items \in Seq(JsonSchemas) /\ s.allOf \in Seq(JsonSchemas) /\ s.anyOf \in Seq(JsonSchemas)

\* What is returned beyond the greatest depth, and where there is no schema.
StringSchema == TypeOnly(<<"STRING">>)

MaxDepth == 32

OrElse(field, other) == IF field # <<>> THEN field ELSE other

\* score_option: an object, or anything with properties, then an array, then scalars.
ScoreOption(s) ==
    CASE s.type = <<"null">> -> 0
      [] s.type # <<"null">> /\ (s.type = <<"object">> \/ DOMAIN PropsOf(s) # {}) -> 3
      [] s.type = <<"array">> /\ DOMAIN PropsOf(s) = {} -> 2
      [] OTHER -> 1

ScoreTypeName(name) == CASE name = "object" -> 3 [] name = "array" -> 2 [] name = "null" -> 0 [] OTHER -> 1

\* max_by_key: the last of the best places.
BestOf(places, score) ==
    CHOOSE i \in places :
        \A j \in places : score[j] < score[i] \/ (score[j] = score[i] /\ j <= i)

BestOption(options) == options[BestOf(DOMAIN options, [i \in DOMAIN options |-> ScoreOption(options[i])])]

\* A field as the first of some schemas that has it gives it.
Earliest(schemas, field) ==
    LET given == {i \in DOMAIN schemas : schemas[i][field] # <<>>}
    IN IF given = {} THEN <<>> ELSE schemas[CHOOSE i \in given : \A j \in given : i <= j][field]

\* Others fill in what is absent.
FillIn(s, others, props) ==
    Schema(OrElse(s.type, Earliest(others, "type")), props, OrElse(s.required, Earliest(others, "required")),
           OrElse(s.items, Earliest(others, "items")), <<>>, <<>>)

\* Every property the schema or a member of it declares.
Declared(s) == DOMAIN PropsOf(s) \cup UNION {DOMAIN PropsOf(s.allOf[i]) : i \in DOMAIN s.allOf}

\* The last member that declares a property.
Declarer(s, p) ==
    LET members == {i \in DOMAIN s.allOf : p \in DOMAIN PropsOf(s.allOf[i])}
    IN s.allOf[CHOOSE i \in members : \A j \in members : j <= i]

\* The properties of all members of allOf; the schema's own outrank them.
Gathered(s) ==
    [p \in Declared(s) |->
        IF p \in DOMAIN PropsOf(s) THEN PropsOf(s)[p] ELSE PropsOf(Declarer(s, p))[p]]

MergeAll(s) == FillIn(s, s.allOf, IF Declared(s) = {} THEN s.props ELSE <<Gathered(s)>>)

\* The best option fills in what is absent, its properties too.
MergeBest(s, options) ==
    IF options = <<>> THEN s
    ELSE FillIn(s, <<BestOption(options)>>, OrElse(s.props, BestOption(options).props))

\* Of several types, the most structured that is not null.
TypeName(types) ==
    LET named == {i \in DOMAIN types : types[i] # "null"}
    IN IF named = {} THEN "string"
       ELSE types[BestOf(named, [i \in named |-> ScoreTypeName(types[i])])]

\* An object without properties gets one, so that there is one.
Placeholder == [reason |-> StringSchema]

\* One schema, given what those inside it become.
Transformed(s, inside) ==
    LET merged == MergeBest(MergeAll(s), s.anyOf)
        type   == UpperCase[TypeName(merged.type)]
        named  == PropsOf(merged)
        props  == IF DOMAIN named = {} THEN Placeholder ELSE [p \in DOMAIN named |-> inside[named[p]]]
        wanted == IF merged.required = <<>> THEN {} ELSE merged.required[1] \cap DOMAIN props
        items  == IF merged.items = <<>> THEN <<>> ELSE <<inside[BestOption(merged.items)]>>
    IN CASE type = "OBJECT" ->
              Schema(<<type>>, <<props>>, IF wanted = {} THEN <<>> ELSE <<wanted>>, items, <<>>, <<>>)
         [] type = "ARRAY" ->
              Schema(<<type>>, <<>>, <<>>, OrElse(items, <<StringSchema>>), <<>>, <<>>)
         [] OTHER -> TypeOnly(<<type>>)

\* transform, by how much deeper schemas may nest: MaxDepth + 1 less the depth.
Transform[left \in 0 .. MaxDepth + 1] ==
    [s \in JsonSchemas |-> IF left = 0 THEN StringSchema ELSE Transformed(s, Transform[left - 1])]

\* A schema that says it is an object comes out as one, and one that comes out as an
\* object keeps every property it declares or takes from its allOf.
KeepsProperties(given, made) ==
    /\ given.type = <<"object">> => made.type = <<"OBJECT">>
    /\ made.type = <<"OBJECT">> => Declared(given) \subseteq DOMAIN made.props[1]

\* What the upstream accepts: one type it knows, an object with properties and none
\* required that is not among them, an array with items, no union, no intersection.
Acceptable(s) ==
    /\ \E name \in DOMAIN UpperCase : s.type = <<UpperCase[name]>>
    /\ s.allOf = <<>> /\ s.anyOf = <<>>
    /\ s.type = <<"OBJECT">> =>
         /\ DOMAIN PropsOf(s) # {}
         /\ s.required # <<>> => s.required[1] # {} /\ s.required[1] \subseteq DOMAIN PropsOf(s)
    /\ s.type # <<"OBJECT">> => s.props = <<>> /\ s.required = <<>>
    /\ s.type = <<"ARRAY">> => s.items # <<>>

Within(s) ==
    {PropsOf(s)[p] : p \in DOMAIN PropsOf(s)} \cup {s.items[i] : i \in DOMAIN s.items}

\* A schema is accepted if it is acceptable at every depth.
UpstreamTakes(s) ==
    LET level[n \in 0 .. MaxDepth + 2] ==
          IF n = 0 THEN {s} ELSE UNION {Within(t) : t \in level[n - 1]}
    IN /\ \A n \in 0 .. MaxDepth + 1 : \A t \in level[n] : Acceptable(t)
       /\ level[MaxDepth + 2] = {}
=============================================================================
