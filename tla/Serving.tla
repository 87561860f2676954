-------------------------------- MODULE Serving --------------------------------
(***************************************************************************)
(* One request through /v1/chat/completions or /v1/responses: prepare,     *)
(* dispatch, the prelude that is read before anything is sent, its retry   *)
(* when the upstream said nothing, the rest of the body, and the record    *)
(* (server/execute.rs, server/chat.rs, server/responses.rs, upstream/      *)
(* sse.rs).                                                                *)
(*                                                                         *)
(* A body is a sequence of lines and arrives in chunks cut anywhere.  Each *)
(* line has three units: its first bytes, the rest of it, and its newline, *)
(* so unit 3 * i is the newline of line i.                                 *)
(***************************************************************************)
EXTENDS Replies

CONSTANTS
    Bodies,        \* sequences of lines that the upstream may send
    MaxRetries,    \* max_empty_response_retries
    MaxPrelude     \* PRELUDE_MAX_EVENTS

\* What a line may hold.
LineKinds ==
    {"text", "blank", "thinking", "signed", "tool", "pair", "unnamed", "last", "cutoff", "odd",
     "junk", "endless"}

ASSUME ServingAssumption ==
    /\ Bodies \subseteq Seq(LineKinds)
    /\ MaxRetries \in Nat /\ MaxPrelude \in Nat \ {0}

VARIABLES
    route,      \* which route, and what the client asked of it
    stage,
    attempt,    \* the dispatch of begin() under way
    body,       \* what the upstream sends, and whether it ends its last line
    at,         \* units of it received
    from,       \* the decoder holds the units after this one
    prelude,    \* events read before committing, by line
    due,        \* lines decoded that the consumer has not been given
    consumer,   \* the accumulator, StreamTranslator or ResponsesStream
    records,    \* the audit log
    executed,   \* calls of complete_execution
    taken,      \* history: the lines that reached the consumer
    heard,      \* history: the accumulator, had it been given the same lines
    handover    \* history: where the prelude stopped reading, and why the body ended

transfer == <<body, at, from, prelude>>
reply == <<due, consumer, taken, heard, handover>>
vars == <<route, stage, attempt, transfer, reply, records, executed>>

Routes == [api : {"chat", "responses"}, stream : BOOLEAN, usage : BOOLEAN]

Stages == {"new", "dispatch", "prelude", "serve", "close", "done", "gone"}

NoBody == [lines |-> <<>>, closed |-> TRUE]

-----------------------------------------------------------------------------
(* The lines of a body, and the events they decode to *)

Parts(i) ==
    LET kind == body.lines[i]
        Part(j, text, thought, call, sig) ==
            [text |-> text, thought |-> thought, call |-> call, sig |-> sig,
             at |-> <<attempt, i, j>>]
    IN CASE kind = "text"     -> <<Part(1, "words", FALSE, None, FALSE)>>
         [] kind = "blank"    -> <<Part(1, "blank", FALSE, None, FALSE)>>
         [] kind = "thinking" -> <<Part(1, "words", TRUE, None, FALSE)>>
         [] kind = "signed"   -> <<Part(1, "empty", TRUE, None, TRUE)>>
         [] kind = "tool"     -> <<Part(1, None, FALSE, "named", TRUE)>>
         [] kind = "pair"     -> <<Part(1, "words", FALSE, None, TRUE),
                                   Part(2, None, FALSE, "blank", FALSE)>>
         [] kind = "unnamed"  -> <<Part(1, None, FALSE, "unnamed", TRUE)>>
         [] kind = "last"     -> <<Part(1, "empty", FALSE, None, TRUE)>>
         [] kind = "cutoff"   -> <<>>

\* Lines of JSON that are no response ("odd") are events which every consumer
\* ignores; anything else without a payload ("junk") is not even an event.
IsEvent(i) == body.lines[i] \notin {"junk", "endless"}

Event(i) ==
    LET kind == body.lines[i]
    IN [parts  |-> Parts(i),
        finish |-> CASE kind = "last" -> "STOP" [] kind = "cutoff" -> "MAX_TOKENS"
                     [] OTHER -> None,
        usage  |-> IF kind \in {"last", "cutoff"} THEN <<attempt, i>> ELSE Nothing]

\* has_client_content, which one event brings about.
ShowsContent(i) == body.lines[i] # "odd" /\ HasClientContent(Event(i))

Length == 3 * Len(body.lines) - (IF body.closed THEN 0 ELSE 1)

-----------------------------------------------------------------------------
(* SseDecoder *)

\* push: the whole lines among the units held, as events.
Decode(f, t) ==
    Picked([i \in DOMAIN body.lines |-> i],
           {i \in DOMAIN body.lines : f <= 3 * (i - 1) /\ 3 * i <= t /\ IsEvent(i)})

\* Mutant of Keep: the unfinished line is dropped with each chunk.
KeepNothing(f, t) == t

\* What the buffer keeps is an unfinished line.
Keep(f, t) == IF 3 * (t \div 3) > f THEN 3 * (t \div 3) ELSE f

\* A line that never ends outgrows the buffer.
Overflows(f, t) ==
    \E k \in f + 1 .. t : k % 3 = 2 /\ body.lines[k \div 3 + 1] = "endless"

\* finish: what is left is decoded as a line, its newline missing.
Leftover ==
    LET i == from \div 3 + 1
    IN IF from % 3 = 0 /\ at - from = 2 /\ IsEvent(i) THEN <<i>> ELSE <<>>

-----------------------------------------------------------------------------
(* The consumers of the four routes *)

NewConsumer ==
    CASE ~route.stream                          -> NewAccumulator
      [] route.stream /\ route.api = "chat"      -> NewTranslator(route.usage)
      [] route.stream /\ route.api = "responses" -> NewResponsesStream

Consume(c, i) ==
    CASE body.lines[i] = "odd" -> c
      [] body.lines[i] # "odd" /\ ~route.stream -> Absorb(c, Event(i))
      [] body.lines[i] # "odd" /\ route.stream /\ route.api = "chat" -> OnResponse(c, Event(i))
      [] body.lines[i] # "odd" /\ route.stream /\ route.api = "responses" ->
            ResponsesOnResponse(c, Event(i))

Finish(c) ==
    CASE ~route.stream /\ route.api = "chat"      -> Completion(c)
      [] ~route.stream /\ route.api = "responses" -> Response(c)
      [] route.stream /\ route.api = "chat"       -> TranslatorFinish(c)
      [] route.stream /\ route.api = "responses"  -> ResponsesFinish(c)

Hear(acc, i) == IF body.lines[i] = "odd" THEN acc ELSE Absorb(acc, Event(i))

-----------------------------------------------------------------------------
(* The request *)

Init ==
    /\ route \in Routes
    /\ stage = "new" /\ attempt = 0
    /\ body = NoBody /\ at = 0 /\ from = 0
    /\ prelude = <<>> /\ due = <<>> /\ consumer = Nothing
    /\ records = <<>> /\ executed = 0
    /\ taken = <<>> /\ heard = Nothing /\ handover = [at |-> 0, ending |-> None]

\* Outcome::of.
Outcome(status) ==
    CASE status \in 200 .. 299 -> "ok"
      [] status \in 500 .. 599 -> "upstream_error"
      [] OTHER -> "client_error"

\* from_dispatch, from_retry and exhausted: the status of what may go wrong in
\* prepare, and in dispatch, by the configured ExhaustedErrorMode.
PrepareErrors == {"resolve", "translate"}
DispatchErrors == {"serialise", "noAccounts", "noCandidate", "modelNotFound", "badRequest",
                   "authInvalid", "accountsExhausted", "poolExhausted"}

ErrorStatus(error, mode) ==
    CASE error \in {"resolve", "translate", "badRequest"} -> 400
      [] error = "authInvalid" -> 401
      [] error = "modelNotFound" -> 404
      [] error = "serialise" -> 500
      [] error \in {"noAccounts", "noCandidate", "accountsExhausted"} -> 503
      [] error = "poolExhausted" -> IF mode = "too_many_requests" THEN 429 ELSE 400

Modes == {"too_many_requests", "bad_request"}

\* execute::record.
Entry(status, usage) == [status |-> status, outcome |-> Outcome(status), usage |-> usage]
Record(status, usage) == records' = Append(records, Entry(status, usage))

\* ApiJson: a body that is too large, or not what the route takes.
RejectBody ==
    /\ stage = "new"
    /\ stage' = "done"
    /\ \E status \in {400, 413, 415, 422} : Record(status, Nothing)
    /\ UNCHANGED <<route, attempt, transfer, reply, executed>>

\* A Responses request that cannot be converted to a chat request.
CannotConvert ==
    /\ stage = "new" /\ route.api = "responses"
    /\ stage' = "done"
    /\ UNCHANGED <<route, attempt, transfer, reply, records, executed>>

Prepare ==
    /\ stage = "new"
    /\ \/ stage' = "dispatch" /\ attempt' = 1 /\ UNCHANGED records
       \/ /\ stage' = "done" /\ UNCHANGED attempt
          /\ \E error \in PrepareErrors, mode \in Modes : Record(ErrorStatus(error, mode), Nothing)
    /\ UNCHANGED <<route, transfer, reply, executed>>

\* Mutant of DispatchFails: the routes and their handler both record it.
DispatchFailsTwice ==
    /\ stage = "dispatch"
    /\ stage' = "done"
    /\ records' = records \o <<Entry(503, Nothing), Entry(503, Nothing)>>
    /\ UNCHANGED <<route, attempt, transfer, reply, executed>>

DispatchFails ==
    /\ stage = "dispatch"
    /\ stage' = "done"
    /\ \E error \in DispatchErrors, mode \in Modes : Record(ErrorStatus(error, mode), Nothing)
    /\ UNCHANGED <<route, attempt, transfer, reply, executed>>

DispatchAnswers ==
    /\ stage = "dispatch"
    /\ \E lines \in Bodies, closed \in BOOLEAN :
          body' = [lines |-> lines, closed |-> closed \/ lines = <<>>]
    /\ stage' = "prelude" /\ at' = 0 /\ from' = 0 /\ prelude' = <<>>
    /\ UNCHANGED <<route, attempt, reply, records, executed>>

\* Mutant of OutOfRetries: one attempt more than the retries allow.
OutOfRetriesLate == attempt > MaxRetries + 1

OutOfRetries == attempt = MaxRetries + 1

\* Mutant of DispatchAgain: an empty answer does not count as an attempt.
DispatchAgainUncounted ==
    /\ stage' = "dispatch"
    /\ body' = NoBody
    /\ UNCHANGED <<attempt, from, reply>>

DispatchAgain ==
    /\ stage' = "dispatch" /\ attempt' = attempt + 1
    /\ body' = NoBody
    /\ UNCHANGED <<from, reply>>

\* The consumer starts with the events of the prelude; whatever follows them is
\* decoded from an empty buffer.
Commit(lines, live) ==
    /\ stage' = IF live THEN "serve" ELSE "close"
    /\ consumer' = NewConsumer /\ heard' = NewAccumulator
    /\ due' = lines /\ from' = at'
    /\ handover' = [at |-> at', ending |-> None]
    /\ UNCHANGED <<attempt, body, taken>>

\* begin, once read_prelude has returned.
Decide(lines, content, live) ==
    IF content \/ OutOfRetries THEN Commit(lines, live) ELSE DispatchAgain

\* read_prelude: the bounds are looked at after a whole chunk is absorbed.
PreludeChunk ==
    /\ stage = "prelude"
    /\ at' \in at + 1 .. Length
    /\ LET lines   == prelude \o Decode(from, at')
           content == \E k \in DOMAIN lines : ShowsContent(lines[k])
       IN IF Overflows(from, at')
          THEN UNCHANGED prelude /\ Decide(prelude, FALSE, FALSE)
          ELSE /\ prelude' = lines
               /\ IF content \/ Len(lines) >= MaxPrelude
                  THEN Decide(lines, content, TRUE)
                  ELSE from' = Keep(from, at') /\ UNCHANGED <<stage, attempt, body, reply>>
    /\ UNCHANGED <<route, records, executed>>

\* The body ends or breaks (no tail), or the deadline passes (the rest is the tail).
PreludeStops ==
    /\ stage = "prelude"
    /\ UNCHANGED <<route, at, prelude, records, executed>>
    /\ \E live \in BOOLEAN : Decide(prelude, FALSE, live)

\* The consumer is given an event.  A stream yields its frames before it looks
\* at the next one, and is dropped there if the client is gone.
Translate ==
    /\ stage \in {"serve", "close"} /\ due # <<>>
    /\ LET i == Head(due)
       IN /\ consumer' = Consume(consumer, i)
          /\ heard' = Hear(heard, i)
          /\ taken' = Append(taken, <<attempt, i>>)
    /\ due' = Tail(due)
    /\ UNCHANGED <<route, stage, attempt, transfer, handover, records, executed>>

\* The rest of the body, through a decoder of its own.
TailChunk ==
    /\ stage = "serve" /\ due = <<>>
    /\ at' \in at + 1 .. Length
    /\ IF Overflows(from, at')
       THEN /\ stage' = "close"
            /\ handover' = [handover EXCEPT !.ending = "overflow"]
            /\ UNCHANGED <<from, due>>
       ELSE /\ due' = Decode(from, at')
            /\ from' = Keep(from, at')
            /\ UNCHANGED <<stage, handover>>
    /\ UNCHANGED <<route, attempt, body, prelude, consumer, taken, heard, records, executed>>

\* The body is over, an error breaks it, or it was idle for too long.
TailStops ==
    /\ stage = "serve" /\ due = <<>>
    /\ stage' = "close"
    /\ due' = Leftover
    /\ handover' = [handover EXCEPT !.ending = IF at = Length THEN "over" ELSE "broken"]
    /\ UNCHANGED <<route, attempt, transfer, consumer, taken, heard, records, executed>>

\* The last frames or the whole reply, complete_execution, and the record.
Close ==
    /\ stage = "close" /\ due = <<>>
    /\ stage' = "done"
    /\ consumer' = Finish(consumer)
    /\ executed' = IF route.api = "responses" /\ ~route.stream THEN executed ELSE executed + 1
    /\ Record(200, consumer.usage)
    /\ UNCHANGED <<route, attempt, transfer, due, taken, heard, handover>>

\* The client closes its connection: the handler or its stream is dropped.
Vanish ==
    /\ stage \notin {"done", "gone"}
    /\ stage' = "gone"
    /\ UNCHANGED <<route, attempt, transfer, reply, records, executed>>

Terminated == stage \in {"done", "gone"} /\ UNCHANGED vars

Next ==
    \/ RejectBody \/ CannotConvert \/ Prepare \/ DispatchFails \/ DispatchAnswers
    \/ PreludeChunk \/ PreludeStops \/ Translate \/ TailChunk \/ TailStops \/ Close
    \/ Vanish \/ Terminated
-----------------------------------------------------------------------------
(* Fairness: no stage lasts for ever.  The handler or its stream is polled *)
(* as long as the client is there, dispatch answers, the prelude has a     *)
(* deadline, and the transport gives up on a body that stays idle.         *)

Leave(s) == stage = s /\ stage' \in Stages \ {s}

Spec ==
    /\ Init /\ [][Next]_vars
    /\ \A s \in {"new", "dispatch", "prelude", "serve", "close"} : WF_stage(Leave(s))

-----------------------------------------------------------------------------
(* Properties *)

\* Types and bounds.
TypeOK ==
    /\ route \in Routes /\ stage \in Stages
    /\ attempt \in 0 .. MaxRetries + 1
    /\ at \in Nat /\ from \in 0 .. at
    /\ Len(records) <= 1 /\ executed \in 0 .. 1

Served == stage = "done" /\ \E k \in DOMAIN records : records[k].status = 200

\* The lines given to the consumer, and those it will be given next.
Sent == [k \in DOMAIN taken |-> taken[k][2]] \o due

\* The line that was under way where the prelude's decoder was dropped.
Cut(i) == 3 * (i - 1) < handover.at /\ handover.at < 3 * i

Endless == \E i \in DOMAIN body.lines : body.lines[i] = "endless" /\ 3 * i - 1 <= at

\* The lines received whole; the last one may lack its newline once the body is over.
ReceivedLines ==
    {i \in DOMAIN body.lines : IsEvent(i) /\ 3 * i - (IF stage = "serve" THEN 0 ELSE 1) <= at}

\* However the body is cut into chunks, the client's reply is built from every
\* event received, once, in order, and from none of an attempt that was
\* discarded; only the line cut where the prelude hands over to the tail is
\* lost (SseDecoder and the replay of Begun::events).
WholeLinesInOrder ==
    (Served \/ stage \in {"serve", "close"}) /\ ~Endless =>
        /\ \A k \in DOMAIN taken : taken[k][1] = attempt
        /\ \A j, k \in DOMAIN Sent : j < k => Sent[j] < Sent[k]
        /\ {Sent[k] : k \in DOMAIN Sent} = {i \in ReceivedLines : ~Cut(i)}

\* The decoder's promise without that exception.
NothingIsLost ==
    Served /\ handover.ending = "over" /\ ~Endless =>
        {Sent[k] : k \in DOMAIN Sent} = ReceivedLines

Whats(out, kind) ==
    Joined([k \in DOMAIN out |-> <<out[k].what>>], {k \in DOMAIN out : out[k].kind = kind})

\* A chat client that streams is told what the buffered reply would have said:
\* the same thinking, text, calls numbered from 0, finish reason and usage,
\* the role once and first; and the same signatures are kept for the next turn.
ChatStreamSaysTheSame ==
    Served /\ route.api = "chat" /\ route.stream =>
        LET want == Completion(heard)
            out  == consumer.out
        IN /\ Whats(out, "thinking") = want.thinking
           /\ Whats(out, "text") = IF want.content = Nothing THEN <<>> ELSE want.content[1]
           /\ Whats(out, "tool") = [k \in DOMAIN want.calls |-> <<k - 1, want.calls[k]>>]
           /\ Whats(out, "finish") = <<want.finish>>
           /\ Whats(out, "usage") =
                 IF route.usage /\ want.usage # Nothing THEN <<want.usage>> ELSE <<>>
           /\ \A k \in DOMAIN out : out[k].role <=> k = 1
           /\ consumer.signed = want.signed

OfType(out, type) == {k \in DOMAIN out : out[k].type = type}

OfItem(out, id) == {k \in DOMAIN out : out[k].item = id}

\* What events S say, one after the other.
Told(out, S) == Joined([k \in DOMAIN out |-> out[k].what], S)

\* The reasoning comes before every other item.
ReasoningFirst(out) ==
    \A j, k \in DOMAIN out :
        j < k /\ out[k].type = "reasoning.delta" /\ out[j].item # Nothing =>
            out[j].item[1] = "reasoning"

Position(id) == CHOOSE n \in DOMAIN consumer.output : consumer.output[n].id = id

\* The event protocol of ResponsesStream, at every moment of the stream:
\* consecutive numbers, the opening event first, an item announced once and
\* before its other events, none after its done event.  At the end every
\* message and call is closed with the text of its deltas.  The file says more
\* than the code keeps, and only the rest is stated here: "the index of an item
\* is how many have been emitted before it" (responses.rs:677) fails for an item
\* that is open when another begins, so indices are asked for only where all
\* reasoning comes first; "a message item is opened at most once, on the first
\* text, and closed once at the end" (488-490) holds for each item, but text
\* after a call opens another; and a reasoning item has no done event at all.
ResponsesProtocol ==
    route.api = "responses" /\ route.stream /\ (Served \/ stage \in {"serve", "close"}) =>
        LET out == consumer.out
            Added(k) == out[k].type = "item.added"
            Done(k)  == out[k].type = "item.done"
        IN /\ \A k \in DOMAIN out :
                 /\ out[k].number = k - 1
                 /\ k = 1 <=> out[k].type = "created"
                 /\ out[k].type = "completed" => k = Len(out) /\ Served
                 /\ out[k].item # Nothing =>
                       /\ Added(k) <=> ~\E j \in 1 .. k - 1 : out[j].item = out[k].item
                       /\ ~\E j \in 1 .. k - 1 : Done(j) /\ out[j].item = out[k].item
           /\ Served =>
                 \A k \in DOMAIN out : Added(k) =>
                    LET id == out[k].item
                    IN /\ id[1] = "message" =>
                             Told(out, OfItem(out, id) \cap OfType(out, "text.delta")) =
                             Told(out, OfItem(out, id) \cap OfType(out, "text.done"))
                       /\ id[1] # "reasoning" => \E j \in DOMAIN out : Done(j) /\ out[j].item = id
                       /\ ReasoningFirst(out) =>
                             \A j \in DOMAIN out : out[j].item = id => out[j].index = Position(id) - 1

\* A Responses client that streams is told the text and the calls of the buffered
\* response in deltas and again in done events, and its reasoning in deltas.
\* Nothing is said of the completed event, with which "a client that only sees
\* the terminal event has the whole picture" (server/responses.rs:10-11): its
\* reasoning item has an empty summary (responses.rs:659-669), and its status is
\* completed even where the buffered one admits that it was cut (456-458).
ResponsesStreamSaysTheSame ==
    Served /\ route.api = "responses" /\ route.stream =>
        LET acc   == heard
            text  == Places(OfKind(acc.parts, "text"))
            calls == OfKind(acc.parts, "tool")
            out   == consumer.out
        IN /\ Told(out, OfType(out, "text.delta")) = text
           /\ Told(out, OfType(out, "text.done")) = text
           /\ Told(out, OfType(out, "arguments.done")) =
                 [k \in DOMAIN calls |-> ResponsesCallId(calls[k])]
           /\ Told(out, OfType(out, "reasoning.delta")) = Places(OfKind(acc.parts, "thinking"))
           /\ consumer.usage = acc.usage

\* A request is answered with nothing only when every retry is spent (begin).  The
\* retries also take what has not come yet: a prelude that its deadline or its
\* bound of events stops before any content is dispatched again with its tail
\* unread, although read_prelude says "commit with what we have; a model this
\* slow to start will not be helped by waiting longer" (execute.rs:122-123).
EmptyOnlyAfterEveryRetry ==
    Served =>
        LET parts == heard.parts
        IN \/ \E k \in DOMAIN parts : parts[k].text = "words" \/ parts[k].call # None
           \/ attempt = MaxRetries + 1

\* "A request that never reached dispatch still belongs in the audit log"
\* (chat.rs:50), and on both routes "only the rendering differs" (server/
\* responses.rs:5-6): every request that ends leaves one record, with the newest
\* usage of what the client was sent - but for the one path that breaks this, a
\* Responses request that cannot be converted (server/responses.rs:44), which
\* leaves none.  The turn of the session is completed with the record, except by
\* the buffered Responses route; a client that vanished leaves no record.
AuditedOnce ==
    /\ stage = "done" =>
          \/ Len(records) = 1
          \/ records = <<>> /\ route.api = "responses" /\ attempt = 0   \* CannotConvert
    /\ stage # "done" => records = <<>> /\ executed = 0
    /\ Served =>
          /\ records[1].usage = heard.usage
          /\ executed = 1 <=> route.api = "chat" \/ route.stream
    /\ executed = 1 => Served

\* Every request ends, whatever the upstream does.
EveryRequestIsAnswered == <>(stage \in {"done", "gone"})
=============================================================================
