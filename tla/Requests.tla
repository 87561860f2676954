--------------------------------- MODULE Requests ---------------------------------
(***************************************************************************)
(* Client requests made into upstream requests (transform/request.rs, and  *)
(* transform/responses.rs for the Responses route).  A client grows a      *)
(* conversation by the rules of its protocol: the tool calls of a turn are *)
(* all answered before anything else is said.  It may send what it has at  *)
(* any time.  The text of messages and the signatures of calls are left    *)
(* out.                                                                    *)
(***************************************************************************)
EXTENDS Schemas

CONSTANTS
    ToolCalls,       \* the sequences of calls a model turn may make
    ToolSchemas,     \* parameter schemas a client may declare
    OutputLimit,     \* the most the model can emit
    ThinkingBudgets, \* what resolution may choose; -1 lets the model decide
    OutputAsked,     \* max_tokens the client may ask for; 0 when it does not
    MaxMessages      \* bound: messages of a conversation

\* The calls of one turn have ids of their own.
ASSUME RequestsAssumption ==
    /\ \A calls \in ToolCalls :
          /\ calls \in Seq({calls[i] : i \in DOMAIN calls})
          /\ \A i, j \in DOMAIN calls : calls[i].id = calls[j].id => i = j
    /\ ToolSchemas \subseteq JsonSchemas
    /\ OutputLimit \in Nat /\ ThinkingBudgets \subseteq Int /\ OutputAsked \subseteq Nat

VARIABLES
    conversation,    \* the messages so far
    unanswered,      \* the calls of the last model turn without a result
    setting          \* the model resolved, and the other fields of the request

requestVars == <<conversation, unanswered, setting>>

Plainly == [family |-> "gemini", budget |-> 0, choice |-> "unset", asked |-> 0, tool |-> <<>>]

RequestsInit == conversation = <<>> /\ unanswered = {} /\ setting = Plainly

\* A message; text says whether it has content that is not empty.
Message(role, text, calls, id, name) ==
    [role |-> role, text |-> text, calls |-> calls, id |-> id, name |-> name]

-----------------------------------------------------------------------------
(* Responses items *)

\* What the SDK sends for a message: each call is an item beside the text, and a
\* result has no name.
ItemsOf(m) ==
    IF m.role # "assistant" THEN <<[m EXCEPT !.name = ""]>>
    ELSE (IF m.text THEN <<Message("assistant", TRUE, <<>>, "", "")>> ELSE <<>>)
            \o [i \in DOMAIN m.calls |-> Message("assistant", FALSE, <<m.calls[i]>>, "", "")]

\* convert_input_item makes one message of each item.
AsItems(messages) ==
    LET items[i \in 0 .. Len(messages)] ==
            IF i = 0 THEN <<>> ELSE items[i - 1] \o ItemsOf(messages[i])
    IN items[Len(messages)]

-----------------------------------------------------------------------------
(* Turns *)

TextPart == [kind |-> "text", name |-> "", id |-> ""]
ResultPart(name) == [kind |-> "result", name |-> name, id |-> ""]

\* Only Claude gets the id of the call.
CallPart(call, family) ==
    [kind |-> "call", name |-> call.name, id |-> IF family = "claude" THEN call.id ELSE ""]

Turn(role, parts) == [role |-> role, parts |-> parts]

\* is_tool_result_turn.
OnlyResults(turn) == turn.parts # <<>> /\ \A i \in DOMAIN turn.parts : turn.parts[i].kind = "result"

Last(turns) == turns[Len(turns)]

AddToLast(turns, parts) == [turns EXCEPT ![Len(turns)].parts = @ \o parts]

\* Adjacent user turns are one, unless one holds results and the other does not.
AddUser(turns, parts, results) ==
    IF parts = <<>> THEN turns
    ELSE IF turns # <<>> /\ Last(turns).role = "user" /\ OnlyResults(Last(turns)) = results
         THEN AddToLast(turns, parts)
         ELSE Append(turns, Turn("user", parts))

TextOf(m) == IF m.text THEN <<TextPart>> ELSE <<>>

\* Mutant of Naming: the first name of an id stays.
NamingOnce(names, calls) ==
    [id \in DOMAIN names \cup {calls[i].id : i \in DOMAIN calls} |->
        IF id \in DOMAIN names THEN names[id]
        ELSE calls[CHOOSE i \in DOMAIN calls : calls[i].id = id].name]

\* call_names: an id is remembered with the name of its latest call.
Naming(names, calls) ==
    [id \in DOMAIN names \cup {calls[i].id : i \in DOMAIN calls} |->
        IF \E i \in DOMAIN calls : calls[i].id = id
        THEN calls[CHOOSE i \in DOMAIN calls : calls[i].id = id].name
        ELSE names[id]]

\* convert_tool_result: its own name, or that of the call it answers.
ResultName(m, names) ==
    IF m.name # "" THEN m.name ELSE IF m.id \in DOMAIN names THEN names[m.id] ELSE "unknown"

\* convert_messages, one message: system text goes to the system instruction.
Converted(done, m, family) ==
    LET names == Naming(done.names, m.calls)
    IN [names |-> names,
        turns |->
          CASE m.role = "system" -> done.turns
            [] m.role = "tool" -> AddUser(done.turns, <<ResultPart(ResultName(m, names))>>, TRUE)
            [] m.role = "assistant" ->
                 LET parts == TextOf(m) \o [i \in DOMAIN m.calls |-> CallPart(m.calls[i], family)]
                 IN IF parts = <<>> THEN done.turns ELSE Append(done.turns, Turn("model", parts))
            [] OTHER -> AddUser(done.turns, TextOf(m), FALSE)]

\* The last turn may not be the model's.
Continued(turns) ==
    IF turns # <<>> /\ Last(turns).role = "model" THEN Append(turns, Turn("user", <<TextPart>>)) ELSE turns

\* convert_messages: the turns, and the names of the calls.
Conversion(messages, family) ==
    LET done[i \in 0 .. Len(messages)] ==
            IF i = 0 THEN [names |-> <<>>, turns |-> <<>>]
            ELSE Converted(done[i - 1], messages[i], family)
    IN done[Len(messages)]

TurnsOf(messages, family) == Continued(Conversion(messages, family).turns)

-----------------------------------------------------------------------------
(* Tools and limits *)

Thinking(s) == s.budget # 0

\* convert_tool_choice; there is none without a tool.
ToolMode(s) ==
    CASE s.tool = <<>> -> "absent"
      [] s.tool # <<>> /\ s.choice \in {"required", "named"} -> "ANY"
      [] s.tool # <<>> /\ s.choice = "none" -> "NONE"
      [] s.tool # <<>> /\ s.choice = "auto" -> "AUTO"
      [] OTHER -> IF s.family = "claude" THEN "VALIDATED" ELSE "AUTO"

MinAnswer == 1024

Greater(m, n) == IF m < n THEN n ELSE m
Lesser(m, n) == IF m < n THEN m ELSE n

\* What thinking may take: Claude overshoots, and -1 cannot be sized.
Reserve(s) ==
    CASE s.budget > 0 /\ s.family = "claude" -> Greater(2 * s.budget, 32000)
      [] s.budget > 0 /\ s.family # "claude" -> s.budget
      [] OTHER -> 4096

\* build_output_budget.
OutputBudget(s) ==
    CASE s.asked = 0 -> OutputLimit
      [] s.asked # 0 /\ ~Thinking(s) -> Lesser(s.asked, OutputLimit)
      [] OTHER -> Greater(Lesser(s.asked, OutputLimit), Lesser(Reserve(s) + MinAnswer, OutputLimit))

\* to_ir: a request, or none when it is refused here.
ToIr(messages, s) ==
    LET turns == TurnsOf(messages, s.family)
    IN IF turns = <<>> \/ (s.family = "claude" /\ Thinking(s) /\ ToolMode(s) = "ANY")
       THEN <<>>
       ELSE <<[turns |-> turns, mode |-> ToolMode(s), output |-> OutputBudget(s),
               tools |-> [i \in DOMAIN s.tool |-> Transform[MaxDepth + 1][s.tool[i]]]]>>

-----------------------------------------------------------------------------
(* The client *)

Say(m) ==
    /\ Len(conversation) < MaxMessages /\ setting = Plainly
    /\ conversation' = Append(conversation, m)
    /\ UNCHANGED setting

\* User turns may be empty, and instructions may come at any time.
ClientSays ==
    /\ \E text \in BOOLEAN, role \in {"user", "system"} :
          /\ role = "user" => unanswered = {}
          /\ Say(Message(role, text, <<>>, "", ""))
    /\ UNCHANGED unanswered

\* The gateway's answer is echoed back, with calls or without.
ModelTurn ==
    /\ unanswered = {} /\ conversation # <<>>
    /\ \E text \in BOOLEAN, calls \in ToolCalls \cup {<<>>} :
          /\ Say(Message("assistant", text, calls, "", ""))
          /\ unanswered' = {calls[i] : i \in DOMAIN calls}

\* Results come in any order, most of them without the name of the tool.
ToolAnswers ==
    \E call \in unanswered, name \in {"", "own"} :
        /\ Say(Message("tool", TRUE, <<>>, call.id, IF name = "" THEN "" ELSE call.name))
        /\ unanswered' = unanswered \ {call}

\* The fields beside the messages are set.  They do not depend on the messages, so
\* one message is enough for them.
Settle ==
    /\ setting = Plainly /\ Len(conversation) = 1
    /\ \E family \in {"gemini", "claude"}, budget \in ThinkingBudgets \cup {0}, asked \in OutputAsked,
          choice \in {"unset", "none", "auto", "required", "named", "other"},
          tool \in {<<>>} \cup {<<s>> : s \in ToolSchemas} :
          setting' = [family |-> family, budget |-> budget, choice |-> choice, asked |-> asked, tool |-> tool]
    /\ UNCHANGED <<conversation, unanswered>>

RequestsNext == ClientSays \/ ModelTurn \/ ToolAnswers \/ Settle

RequestsSpec == RequestsInit /\ [][RequestsNext]_requestVars

-----------------------------------------------------------------------------
(* Properties *)

\* No turn mixes results with anything else, and the user has the last word.
TurnsTaken(turns) ==
    /\ Last(turns).role = "user"
    /\ \A i \in DOMAIN turns :
          \A j \in DOMAIN turns[i].parts :
             turns[i].parts[j].kind = "result" => turns[i].role = "user" /\ OnlyResults(turns[i])

\* The places of the calls that turn i and the model turns just before it make.
CallsUpTo(turns, i) ==
    LET block == {k \in 1 .. i : \A j \in k .. i : turns[j].role = "model"}
    IN UNION {{<<k, j>> : j \in {j \in DOMAIN turns[k].parts : turns[k].parts[j].kind = "call"}} : k \in block}

\* The results of the calls of model turns that follow one another come in the next
\* user turn, one for each call and under its name.
CallsAnswered(turns) ==
    \A i \in 1 .. Len(turns) - 1 :
        LET calls   == CallsUpTo(turns, i)
            results == turns[i + 1].parts
        IN turns[i].role = "model" /\ turns[i + 1].role = "user" /\ calls # {} =>
              \E call \in [DOMAIN results -> calls] :
                 /\ \A j, k \in DOMAIN results : call[j] = call[k] => j = k
                 /\ \A c \in calls : \E j \in DOMAIN results : call[j] = c
                 /\ \A j \in DOMAIN results : results[j].name = turns[call[j][1]].parts[call[j][2]].name

\* Thinking never takes all the model may emit, when it may emit more.
RoomForAnswer(s, output) ==
    /\ output <= OutputLimit
    /\ Thinking(s) /\ s.budget + MinAnswer <= OutputLimit => output >= s.budget + MinAnswer

\* A client that keeps to its protocol, on either route, never gets a request sent
\* upstream that the upstream is known to reject or to answer with nothing: each
\* result is under the name of the call it answers even when ids are used again,
\* forcing a tool never meets thinking on Claude, a small limit leaves room for an
\* answer, and an object schema keeps the properties it is composed of.  (A schema
\* with properties but no type is taken for a string, and loses them all; "Silently
\* deleting them produces a tool the model calls incorrectly", schema.rs:12.)
UpstreamTakesRequest ==
    \A messages \in {conversation, AsItems(conversation)} :
        LET ir == ToIr(messages, setting)
        IN unanswered = {} /\ ir # <<>> =>
             /\ TurnsTaken(ir[1].turns) /\ CallsAnswered(ir[1].turns)
             /\ ~(ir[1].mode = "ANY" /\ setting.family = "claude" /\ Thinking(setting))
             /\ RoomForAnswer(setting, ir[1].output)
             /\ \A i \in DOMAIN setting.tool :
                   /\ UpstreamTakes(ir[1].tools[i])
                   /\ KeepsProperties(setting.tool[i], ir[1].tools[i])
=============================================================================
