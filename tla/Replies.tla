-------------------------------- MODULE Replies --------------------------------
(***************************************************************************)
(* How the upstream's events become what a client is sent: the shared      *)
(* classification of parts, the accumulator and the completion of the      *)
(* buffered routes, StreamTranslator (transform/response.rs) and           *)
(* ResponsesStream (transform/responses.rs).                               *)
(*                                                                         *)
(* Text is represented by the place it came from (`at`), so that order,    *)
(* loss and duplication are visible.                                       *)
(***************************************************************************)
EXTENDS Integers, Sequences

\* Absent: of an enumeration, and of anything that is a sequence.
None == "none"
Nothing == <<>>

\* The sequences at places S of a sequence of sequences, one after the other.
Joined(s, S) ==
    LET upTo[k \in 0 .. Len(s)] ==
            IF k = 0 THEN <<>> ELSE IF k \in S THEN upTo[k - 1] \o s[k] ELSE upTo[k - 1]
    IN upTo[Len(s)]

\* What is at places S of a sequence, in order.
Picked(s, S) == Joined([k \in DOMAIN s |-> <<s[k]>>], S)

\* A part of an event.  `call` says whether it is a function call, and whether
\* the upstream gave it an id (which may be an empty string).
PartsAt(At) ==
    [text : {None, "empty", "blank", "words"}, thought : BOOLEAN,
     call : {None, "named", "blank", "unnamed"}, sig : BOOLEAN, at : At]

\* PartKind, with empty text never content.
Classify(p) ==
    CASE p.call # None                               -> "tool"
      [] p.call = None /\ p.text \in {"blank", "words"} ->
            IF p.thought THEN "thinking" ELSE "text"
      [] p.call = None /\ p.text \in {None, "empty"}    ->
            IF p.sig THEN "signature" ELSE "empty"

\* The id a chat client sees: an empty one is replaced as well.
ToolCallId(p) == <<IF p.call = "named" THEN "upstream" ELSE "generated", p.at>>

\* The id a Responses client sees: an empty one is passed on.
ResponsesCallId(p) == <<IF p.call \in {"named", "blank"} THEN "upstream" ELSE "generated", p.at>>

\* Where a signature goes: to its tool call, or to the conversation.
SignatureOf(p) == <<IF p.call # None THEN ToolCallId(p) ELSE <<"session">>, p.at>>

CaptureSignature(p) == IF p.sig THEN <<SignatureOf(p)>> ELSE <<>>

MapFinishReason(upstream, sawToolCall) ==
    CASE sawToolCall                               -> "tool_calls"
      [] ~sawToolCall /\ upstream = "MAX_TOKENS"   -> "length"
      [] ~sawToolCall /\ upstream = "SAFETY"       -> "content_filter"
      [] ~sawToolCall /\ upstream \in {"STOP", None} -> "stop"

-----------------------------------------------------------------------------
(* ResponseAccumulator and the buffered replies *)

NewAccumulator == [parts |-> <<>>, usage |-> Nothing, finish |-> None]

Newest(old, new, absent) == IF new = absent THEN old ELSE new

\* An event carries parts, and perhaps a finish reason and usage.
Absorb(acc, e) ==
    [parts  |-> acc.parts \o e.parts,
     usage  |-> Newest(acc.usage, e.usage, Nothing),
     finish |-> Newest(acc.finish, e.finish, None)]

\* Mutant of HasClientContent: a carrier of a signature counts.
HasAnyPart(acc) == acc.parts # <<>>

HasClientContent(acc) ==
    \E i \in DOMAIN acc.parts :
        LET p == acc.parts[i]
        IN \/ Classify(p) \in {"text", "thinking"} /\ p.text = "words"
           \/ Classify(p) = "tool"

OfKind(parts, kind) == Picked(parts, {i \in DOMAIN parts : Classify(parts[i]) = kind})

Places(parts) == [i \in DOMAIN parts |-> parts[i].at]

\* to_completion: content is null when there is nothing but tool calls.
Completion(acc) ==
    LET text  == Places(OfKind(acc.parts, "text"))
        tools == OfKind(acc.parts, "tool")
        kept  == Picked(acc.parts, {i \in DOMAIN acc.parts : acc.parts[i].sig})
    IN [thinking |-> Places(OfKind(acc.parts, "thinking")),
        content  |-> IF text = <<>> /\ tools # <<>> THEN Nothing ELSE <<text>>,
        calls    |-> [i \in DOMAIN tools |-> ToolCallId(tools[i])],
        finish   |-> MapFinishReason(acc.finish, tools # <<>>),
        usage    |-> acc.usage,
        signed   |-> [i \in DOMAIN kept |-> SignatureOf(kept[i])]]

\* build_output: reasoning, then one message, then the calls.
BuildOutput(acc) ==
    LET thinking == OfKind(acc.parts, "thinking")
        text     == Places(OfKind(acc.parts, "text"))
        tools    == OfKind(acc.parts, "tool")
        Spoken   == \E i \in DOMAIN thinking : thinking[i].text = "words"
    IN (IF Spoken THEN << [type |-> "reasoning", text |-> Places(thinking)] >> ELSE <<>>)
       \o (IF text # <<>> \/ tools = <<>> THEN << [type |-> "message", text |-> text] >> ELSE <<>>)
       \o [i \in DOMAIN tools |-> [type |-> "function_call", text |-> <<ResponsesCallId(tools[i])>>]]

\* to_response.
Response(acc) ==
    [status |-> IF acc.finish = "MAX_TOKENS" THEN "incomplete" ELSE "completed",
     output |-> BuildOutput(acc),
     usage  |-> acc.usage]

-----------------------------------------------------------------------------
(* StreamTranslator *)

NewTranslator(includeUsage) ==
    [includeUsage |-> includeUsage, role |-> FALSE, finished |-> FALSE, finish |-> None,
     usage |-> Nothing, calls |-> 0, out |-> <<>>, signed |-> <<>>]

\* chunk: the first one announces the role.
Chunk(t, kind, what) ==
    [t EXCEPT !.role = TRUE,
              !.out = Append(@, [kind |-> kind, what |-> what, role |-> ~t.role])]

\* Mutant of OnPart: the signature of a part without content is dropped.
OnVisiblePart(t, p) ==
    LET k == Classify(p)
        u == [t EXCEPT !.signed = @ \o CaptureSignature(p)]
    IN CASE k \in {"thinking", "text"} -> Chunk(u, k, p.at)
         [] k = "tool" ->
              Chunk([u EXCEPT !.calls = @ + 1], "tool", <<u.calls, ToolCallId(p)>>)
         [] k \in {"signature", "empty"} -> t

OnPart(t, p) ==
    LET k == Classify(p)
        u == [t EXCEPT !.signed = @ \o CaptureSignature(p)]
    IN CASE k \in {"thinking", "text"} -> Chunk(u, k, p.at)
         [] k = "tool" ->
              Chunk([u EXCEPT !.calls = @ + 1], "tool", <<u.calls, ToolCallId(p)>>)
         [] k \in {"signature", "empty"} -> u

OnResponse(t, e) ==
    LET u == [t EXCEPT !.usage = Newest(@, e.usage, Nothing), !.finish = Newest(@, e.finish, None)]
        after[k \in 0 .. Len(e.parts)] == IF k = 0 THEN u ELSE OnPart(after[k - 1], e.parts[k])
    IN after[Len(e.parts)]

TranslatorFinish(t) ==
    IF t.finished THEN t
    ELSE LET u == Chunk([t EXCEPT !.finished = TRUE], "finish",
                        MapFinishReason(t.finish, t.calls > 0))
         IN IF t.includeUsage /\ t.usage # Nothing
            THEN [u EXCEPT !.out = Append(@, [kind |-> "usage", what |-> t.usage, role |-> FALSE])]
            ELSE u

-----------------------------------------------------------------------------
(* ResponsesStream *)

NewResponsesStream ==
    [sequence |-> 0, index |-> 0, message |-> Nothing, text |-> <<>>, reasoning |-> Nothing,
     output |-> <<>>, usage |-> Nothing, started |-> FALSE, out |-> <<>>]

\* event: numbered, and naming the item and index it is about.
Emit(s, type, item, what) ==
    [s EXCEPT !.sequence = @ + 1,
              !.out = Append(@, [type |-> type, number |-> s.sequence, item |-> item,
                                 index |-> IF item = Nothing THEN 0 ELSE s.index,
                                 what |-> what])]

\* start.
Start(s) ==
    IF s.started THEN s
    ELSE Emit(Emit([s EXCEPT !.started = TRUE], "created", Nothing, <<>>), "in_progress", Nothing, <<>>)

\* item_id: the number of the event that announces the item makes it unique.
NewItem(s, type) == <<type, s.sequence>>

NextIndex(s) == [s EXCEPT !.index = Len(s.output)]

OpenReasoning(s) ==
    IF s.reasoning # Nothing THEN s
    ELSE LET id == NewItem(s, "reasoning")
             u  == Emit([NextIndex(s) EXCEPT !.reasoning = id], "item.added", id, <<>>)
         IN [u EXCEPT !.output = Append(@, [id |-> id, text |-> <<>>])]

\* Mutant of OpenMessage: the open message is announced with every delta.
OpenMessageAgain(s) ==
    LET id == IF s.message # Nothing THEN s.message ELSE NewItem(s, "message")
        u  == Emit([NextIndex(s) EXCEPT !.message = id], "item.added", id, <<>>)
    IN Emit(u, "part.added", id, <<>>)

OpenMessage(s) ==
    IF s.message # Nothing THEN s
    ELSE LET id == NewItem(s, "message")
             u  == Emit([NextIndex(s) EXCEPT !.message = id], "item.added", id, <<>>)
         IN Emit(u, "part.added", id, <<>>)

CloseMessage(s) ==
    IF s.message = Nothing THEN s
    ELSE LET u == Emit([s EXCEPT !.message = Nothing, !.text = <<>>], "text.done", s.message, s.text)
             v == Emit(u, "item.done", s.message, s.text)
         IN [v EXCEPT !.output = Append(@, [id |-> s.message, text |-> s.text])]

\* open_call: the arguments come whole, so the call is opened and closed at once.
OpenCall(s, p) ==
    LET id == NewItem(s, "function_call")
        call == <<ResponsesCallId(p)>>
        a  == Emit(NextIndex(s), "item.added", id, <<>>)
        b  == Emit(a, "arguments.delta", id, call)
        c  == Emit(b, "arguments.done", id, call)
        d  == Emit(c, "item.done", id, call)
    IN [d EXCEPT !.output = Append(@, [id |-> id, text |-> call])]

ResponsesPart(s, p) ==
    LET k == Classify(p)
    IN CASE k = "thinking" ->
              LET u == OpenReasoning(s) IN Emit(u, "reasoning.delta", u.reasoning, <<p.at>>)
         [] k = "text" ->
              LET u == OpenMessage(s)
              IN Emit([u EXCEPT !.text = Append(@, p.at)], "text.delta", u.message, <<p.at>>)
         [] k = "tool" -> OpenCall(CloseMessage(s), p)
         [] k \in {"signature", "empty"} -> s

ResponsesOnResponse(s, e) ==
    LET u == Start([s EXCEPT !.usage = Newest(@, e.usage, Nothing)])
        after[k \in 0 .. Len(e.parts)] ==
            IF k = 0 THEN u ELSE ResponsesPart(after[k - 1], e.parts[k])
    IN after[Len(e.parts)]

\* Mutant of ResponsesFinish: the open message is not closed.
ResponsesFinishOpen(s) ==
    LET u == Start(s)
    IN Emit(u, "completed", Nothing, u.output)

ResponsesFinish(s) ==
    LET u == CloseMessage(Start(s))
    IN Emit(u, "completed", Nothing, u.output)
=============================================================================
