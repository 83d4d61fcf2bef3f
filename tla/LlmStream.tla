----------------------------- MODULE LlmStream -----------------------------
(***************************************************************************)
(* The client of an OpenAI-compatible chat endpoint, internal/llm: one     *)
(* conversation is sent, request by request, and each answer is read from  *)
(* a stream of lines or from one body.  The server may pause for ever, the *)
(* connection may break between or within lines, the caller may stop.      *)
(* The runner that keeps the conversation and runs the tools is the ADK's. *)
(*                                                                         *)
(* Texts are sequences of pieces, numbered as the server writes them; the  *)
(* arguments of a call are JSON when all of its pieces are there.          *)
(***************************************************************************)
EXTENDS Filters, FiniteSets

CONSTANTS
    MaxCalls,     \* bound: calls in one answer
    MaxRequests,  \* bound: requests of the conversation
    MaxLines,     \* bound: lines with content, over all answers
    MaxNoise,     \* bound: lines without, over all answers
    WireCap,      \* bound: lines sent and not yet read
    Quirks        \* what servers may do wrong: "careless", leave out the index of calls
                  \* or a name; "short", end the stream in order in the middle

ASSUME StreamAssumption ==
    /\ {MaxCalls, MaxRequests, MaxLines, MaxNoise} \subseteq Nat /\ WireCap \in Nat \ {0}
    /\ Quirks \subseteq {"careless", "short"}

VARIABLES
    contents,   \* the runner's history: what the next request is made of
    request,    \* the messages of the last request
    mode,       \* "stream", or "whole": the summariser's request, read at once
    answer,     \* what the server means to say; it knows its calls apart
    written,    \* lines with content so far
    noise,      \* lines without
    wire,       \* lines sent and not yet read
    conn,       \* "open", "closed" by the server in order, or "broken"
    quirk,      \* what this server does wrong, or "none"
    phase,      \* "idle", "reading", or "ended"
    cancelled,  \* the context of the request is done
    acc,        \* the builders of stream
    yielded,    \* the partial responses yielded, put together
    outcome     \* of the last request: "none", "final", "error" or "stopped", and its response

server == <<answer, written, noise, quirk>>
client == <<acc, yielded>>
llmVars == <<contents, request, mode, server, wire, conn, phase, cancelled, client, outcome>>

\* A name or a reason that is left out.
Missing == ""

-----------------------------------------------------------------------------
(* Responses.                                                              *)

IsJSON(s) == Len(s) = 2 /\ s[1][1] = s[2][1]

\* An argument text that does not parse is kept under a key of its own.
Args(s) == [raw |-> s # <<>> /\ ~IsJSON(s), text |-> s]

TextPart(kind, s) == IF s = <<>> THEN <<>> ELSE <<[kind |-> kind, text |-> s]>>
CallPart(c) == [kind |-> "call", id |-> c.id, name |-> c.name, args |-> Args(c.args)]

mapFinishReason(r) ==
    CASE r = "stop" -> "STOP" [] r \in {"length", "max_tokens"} -> "MAX_TOKENS"
      [] r = Missing -> "UNSPECIFIED" [] OTHER -> "OTHER"

buildFinalLLMResponse(content, reasoning, calls, finish, usage) ==
    [parts |-> TextPart("thought", reasoning) \o TextPart("text", content)
                 \o [i \in DOMAIN calls |-> CallPart(calls[i])],
     finish |-> finish, usage |-> usage]

parseToolCalls(calls) == Those(calls, {c \in ToSet(calls) : c.name # Missing})

\* The answer as complete reads it from one body.
Whole(a) == buildFinalLLMResponse(a.content, a.reasoning, parseToolCalls(a.calls),
                                  mapFinishReason(a.finish), a.usage)

-----------------------------------------------------------------------------
(* Requests.                                                               *)

OfKind(kind, parts) == Those(parts, {p \in ToSet(parts) : p.kind = kind})

FlushedMessage(role, text, calls) ==
    IF text = <<>> /\ calls = <<>> THEN <<>>
    ELSE <<[role |-> role, text |-> text, calls |-> calls, answers |-> 0]>>

mapRole(role) == IF role = "model" THEN "assistant" ELSE "user"

\* Seeded fault: a content that calls tools is sent without its text.
contentToMessagesMute(c) ==
    LET calls == OfKind("call", c.parts)
        results == OfKind("result", c.parts)
        texts == OfKind("text", c.parts)
    IN  FlushedMessage(mapRole(c.role),
                       IF calls # <<>> \/ texts = <<>> THEN <<>> ELSE texts[1].text,
                       [i \in DOMAIN calls |-> calls[i].id])
          \o [i \in DOMAIN results |->
                [role |-> "tool", text |-> <<>>, calls |-> <<>>, answers |-> results[i].id]]

\* Text and calls are gathered until a result or the end flushes them, thoughts
\* are dropped.
NothingGathered == [msgs |-> <<>>, text |-> <<>>, calls |-> <<>>]
Gathered(role, s, p) ==
    CASE p.kind = "call"   -> [s EXCEPT !.calls = Append(@, p.id)]
      [] p.kind = "text"   -> [s EXCEPT !.text = @ \o p.text]
      [] p.kind = "result" ->
           [msgs |-> s.msgs \o FlushedMessage(role, s.text, s.calls)
                       \o <<[role |-> "tool", text |-> <<>>, calls |-> <<>>, answers |-> p.id]>>,
            text |-> <<>>, calls |-> <<>>]
      [] OTHER -> s

contentToMessages(c) ==
    LET role == mapRole(c.role)
        end == FoldLeft(LAMBDA s, p : Gathered(role, s, p), NothingGathered, c.parts)
    IN  end.msgs \o FlushedMessage(role, end.text, end.calls)

toChatMessages(cs) == FlattenSeq([i \in DOMAIN cs |-> contentToMessages(cs[i])])

-----------------------------------------------------------------------------

NoAnswer == [content |-> <<>>, reasoning |-> <<>>, calls |-> <<>>, finish |-> Missing, usage |-> 0]
NoAcc == [content |-> <<>>, reasoning |-> <<>>, order |-> <<>>,
          call |-> [i \in 0 .. MaxCalls - 1 |-> [id |-> 0, name |-> Missing, args |-> <<>>]],
          finish |-> Missing, usage |-> 0]
NoOutcome == [kind |-> "none", final |-> Whole(NoAnswer)]
UserText == [role |-> "user", parts |-> <<[kind |-> "text", text |-> <<0>>]>>]

NoYielded == [content |-> <<>>, reasoning |-> <<>>]

LlmInit ==
    /\ contents = <<UserText>> /\ request = <<>> /\ mode = "stream" /\ phase = "idle"
    /\ written = 0 /\ noise = 0 /\ answer = NoAnswer /\ wire = <<>>
    /\ quirk \in Quirks \cup {"none"}
    /\ conn = "closed" /\ cancelled = FALSE /\ acc = NoAcc /\ yielded = NoYielded
    /\ outcome = NoOutcome

Requests == Cardinality({i \in DOMAIN contents : contents[i].role = "user"})

\* doPost and the reply to it: a status other than 200 is an error.
Post ==
    /\ phase = "idle" /\ Requests =< MaxRequests
    /\ request' = toChatMessages(contents)
    /\ \/ phase' = "reading" /\ conn' = "open" /\ UNCHANGED outcome
       \/ phase' = "ended" /\ outcome' = [NoOutcome EXCEPT !.kind = "error"] /\ UNCHANGED conn
    /\ UNCHANGED <<contents, mode, server, wire, cancelled, client>>

\* complete: nothing is seen of the answer before its body is decoded.  It may
\* hold an error or no choices, or break off; a summary joins no history.
Complete ==
    /\ phase = "idle" /\ Requests =< MaxRequests
    /\ request' = toChatMessages(contents) /\ mode' = "whole" /\ phase' = "ended"
    /\ \/ outcome' = [NoOutcome EXCEPT !.kind = "error"]
       \/ \E name \in {Missing, "tool"}, text \in {<<>>, <<0>>} :
            outcome' = [kind |-> "final", final |->
              Whole([NoAnswer EXCEPT !.content = text, !.finish = "stop",
                       !.calls = <<[id |-> 1, name |-> name, args |-> <<>>]>>])]
    /\ UNCHANGED <<contents, server, wire, conn, cancelled, client>>

-----------------------------------------------------------------------------
(* The server.                                                             *)

Writing == phase = "reading" /\ conn = "open" /\ Len(wire) < WireCap /\ ~cancelled

EmptyChunk == [kind |-> "chunk", content |-> <<>>, reasoning |-> <<>>,
               frags |-> <<>>, finish |-> Missing, usage |-> 0]

SendLine(line) == wire' = Append(wire, line)

WriteText ==
    /\ Writing /\ answer.finish = Missing /\ written < MaxLines
    /\ written' = written + 1
    /\ \E fields \in SUBSET {"content", "reasoning"} \ {{}} :
         LET Delta(f) == IF f \in fields THEN <<written'>> ELSE <<>>
         IN  /\ answer' = [answer EXCEPT !.content = @ \o Delta("content"),
                                         !.reasoning = @ \o Delta("reasoning")]
             /\ SendLine([EmptyChunk EXCEPT !.content = Delta("content"),
                                        !.reasoning = Delta("reasoning")])
    /\ UNCHANGED <<contents, request, mode, noise, quirk, conn, phase, cancelled, client,
                   outcome>>

WithPiece(calls, k, piece) == [calls EXCEPT ![k].args = Append(@, piece)]

\* A piece of the k-th call: the first opens it.  A server that leaves out the
\* index means 0.
WriteCall(k) ==
    /\ Writing /\ answer.finish = Missing /\ written < MaxLines
    /\ k =< Len(answer.calls) + 1 /\ k =< MaxCalls
    /\ written' = written + 1
    /\ \E called \in {"tool"} \cup (IF quirk = "careless" THEN {Missing} ELSE {}) :
         LET opens == k = Len(answer.calls) + 1
             name == IF opens THEN called ELSE Missing
             id == IF opens THEN written' ELSE answer.calls[k].id
             piece == <<id, IF opens THEN 1 ELSE 2>>
             index == IF quirk = "careless" THEN 0 ELSE k - 1
         IN  /\ ~opens => Len(answer.calls[k].args) = 1
             /\ answer' = [answer EXCEPT !.calls =
                  IF opens THEN Append(@, [id |-> id, name |-> name, args |-> <<piece>>])
                  ELSE WithPiece(@, k, piece)]
             /\ SendLine([EmptyChunk EXCEPT !.frags =
                  <<[index |-> index, id |-> IF opens THEN id ELSE 0, name |-> name,
                     args |-> <<piece>>]>>])
    /\ UNCHANGED <<contents, request, mode, noise, quirk, conn, phase, cancelled, client,
                   outcome>>

\* The reason comes with the last choice; the usage, on its own, after it.
WriteFinish ==
    /\ Writing /\ answer.finish = Missing
    /\ \E r \in IF answer.calls = <<>> THEN {"stop", "length"} ELSE {"tool_calls"} :
         /\ answer' = [answer EXCEPT !.finish = r]
         /\ SendLine([EmptyChunk EXCEPT !.finish = r])
    /\ UNCHANGED <<contents, request, mode, written, noise, quirk, conn, phase, cancelled,
                   client, outcome>>

WriteUsage ==
    /\ Writing /\ answer.finish # Missing /\ answer.usage = 0
    /\ answer' = [answer EXCEPT !.usage = 1 + Len(request)]
    /\ SendLine([kind |-> "usage", usage |-> answer'.usage])
    /\ UNCHANGED <<contents, request, mode, written, noise, quirk, conn, phase, cancelled,
                   client, outcome>>

\* A comment, an event line or a payload that is not JSON, all skipped; or an error.
WriteOther ==
    /\ Writing /\ noise < MaxNoise
    /\ noise' = noise + 1
    /\ \E k \in {"junk", "error"} : SendLine([kind |-> k])
    /\ UNCHANGED <<contents, request, mode, answer, written, quirk, conn, phase, cancelled,
                   client, outcome>>

\* [DONE], which some servers leave out, and the orderly end; of a server that
\* gives up, for instance behind a proxy, it may come early.
Close ==
    /\ Writing
    /\ conn' = "closed"
    /\ IF answer.finish # Missing
       THEN SendLine([kind |-> "done"]) \/ UNCHANGED wire
       ELSE quirk = "short" /\ UNCHANGED wire
    /\ UNCHANGED <<contents, request, mode, server, phase, cancelled, client, outcome>>

\* What arrives of the lines on their way; the last may be cut within.
Arrives ==
    \E k \in 0 .. Len(wire) :
       \/ wire' = SubSeq(wire, 1, k)
       \/ k < Len(wire) /\ wire' = Append(SubSeq(wire, 1, k), [kind |-> "junk"])

\* The connection breaks.
Break ==
    /\ phase = "reading" /\ conn = "open"
    /\ conn' = "broken" /\ Arrives
    /\ UNCHANGED <<contents, request, mode, server, phase, cancelled, client, outcome>>

\* The caller's context ends, and with it the request.
Cancel ==
    /\ phase = "reading" /\ ~cancelled
    /\ cancelled' = TRUE /\ conn' = "broken" /\ Arrives
    /\ UNCHANGED <<contents, request, mode, server, phase, client, outcome>>

-----------------------------------------------------------------------------
(* The client.                                                             *)

End(kind, final) ==
    /\ phase' = "ended"
    /\ outcome' = [kind |-> kind, final |-> final]

Fails == End("error", NoOutcome.final)

\* Seeded fault: every fragment is put into the order.
AddCallAgain(a, f) ==
    LET old == a.call[f.index]
    IN  [a EXCEPT
          !.order = Append(@, f.index),
          !.call[f.index] = [id   |-> IF f.id = 0 THEN old.id ELSE f.id,
                             name |-> IF f.name = Missing THEN old.name ELSE f.name,
                             args |-> old.args \o f.args]]

\* One fragment of a call: kept by its index, in the order they are first seen;
\* id and name are those sent last, the argument text grows.
AddCall(a, f) ==
    LET old == a.call[f.index]
    IN  [a EXCEPT
          !.order = IF \E i \in DOMAIN @ : @[i] = f.index THEN @ ELSE Append(@, f.index),
          !.call[f.index] = [id   |-> IF f.id = 0 THEN old.id ELSE f.id,
                             name |-> IF f.name = Missing THEN old.name ELSE f.name,
                             args |-> old.args \o f.args]]

\* A chunk: its text is kept and yielded, then its thought; the caller may stop
\* at either, and what follows in the chunk is not read any more.
ReadChunk ==
    /\ phase = "reading" /\ wire # <<>> /\ Head(wire).kind = "chunk"
    /\ wire' = Tail(wire)
    /\ LET c == Head(wire)
           text == [acc EXCEPT !.content = @ \o c.content]
           thought == [text EXCEPT !.reasoning = @ \o c.reasoning]
           rest == FoldLeft(AddCall, thought, c.frags)
       IN  \/ /\ c.content # <<>> /\ acc' = text
              /\ yielded' = [yielded EXCEPT !.content = @ \o c.content]
              /\ End("stopped", NoOutcome.final)
           \/ /\ c.reasoning # <<>> /\ acc' = thought
              /\ yielded' = [content |-> yielded.content \o c.content,
                           reasoning |-> yielded.reasoning \o c.reasoning]
              /\ End("stopped", NoOutcome.final)
           \/ /\ acc' = IF c.finish = Missing THEN rest
                        ELSE [rest EXCEPT !.finish = mapFinishReason(c.finish)]
              /\ yielded' = [content |-> yielded.content \o c.content,
                           reasoning |-> yielded.reasoning \o c.reasoning]
              /\ UNCHANGED <<phase, outcome>>
    /\ UNCHANGED <<contents, request, mode, server, conn, cancelled>>

\* What is skipped, or kept without being yielded, or ends the answer.
ReadOther ==
    /\ phase = "reading" /\ wire # <<>>
    /\ Head(wire).kind \in {"junk", "usage", "error"}
    /\ wire' = Tail(wire)
    /\ IF Head(wire).kind = "usage"
       THEN acc' = [acc EXCEPT !.usage = Head(wire).usage] ELSE UNCHANGED acc
    /\ IF Head(wire).kind = "error" THEN Fails ELSE UNCHANGED <<phase, outcome>>
    /\ UNCHANGED <<contents, request, mode, server, conn, cancelled, yielded>>

\* Seeded fault: any end of the stream is taken for its end.
AtEndAny == wire = <<>> /\ conn # "open"

\* [DONE], or the end of a stream that was closed in order.
AtEnd == IF wire = <<>> THEN conn = "closed" ELSE Head(wire).kind = "done"

FinalOf(a) ==
    buildFinalLLMResponse(a.content, a.reasoning,
      [i \in DOMAIN a.order |-> a.call[a.order[i]]], a.finish, a.usage)

ReadEnd ==
    /\ phase = "reading" /\ AtEnd
    /\ wire' = <<>> /\ End("final", FinalOf(acc))
    /\ UNCHANGED <<contents, request, mode, server, conn, cancelled, client>>

\* The lines that arrived have been read.
ReadError ==
    /\ phase = "reading" /\ conn = "broken" /\ wire = <<>>
    /\ Fails
    /\ UNCHANGED <<contents, request, mode, server, wire, conn, cancelled, client>>

-----------------------------------------------------------------------------
(* The runner: an answer joins the history, its calls get results, and the  *)
(* user goes on.  After an error or a stop nothing joins.                   *)


Proceed ==
    /\ phase = "ended" /\ phase' = "idle"
    /\ LET parts == outcome.final.parts
           calls == OfKind("call", parts)
           results == [i \in DOMAIN calls |-> [kind |-> "result", id |-> calls[i].id]]
           next == IF calls = <<>> THEN UserText ELSE [role |-> "user", parts |-> results]
       IN  contents' = IF outcome.kind = "final" /\ mode = "stream"
                       THEN contents \o <<[role |-> "model", parts |-> parts], next>>
                       ELSE Append(contents, UserText)
    /\ request' = <<>> /\ mode' = "stream" /\ answer' = NoAnswer /\ wire' = <<>>
    /\ conn' = "closed" /\ cancelled' = FALSE /\ acc' = NoAcc /\ yielded' = NoYielded
    /\ outcome' = NoOutcome
    /\ UNCHANGED <<written, noise, quirk>>

Server ==
    \/ WriteText \/ WriteFinish \/ WriteUsage \/ WriteOther \/ Close \/ Break
    \/ \E k \in 1 .. MaxCalls : WriteCall(k)
Read == ReadChunk \/ ReadOther \/ ReadEnd \/ ReadError

LlmNext == Post \/ Complete \/ Server \/ Read \/ Proceed \/ Cancel

LlmSpec == LlmInit /\ [][LlmNext]_llmVars

-----------------------------------------------------------------------------
(* Correctness.                                                            *)

Texts == Seq(Nat)
Part == [kind : {"thought", "text"}, text : Texts \ {<<>>}]
          \cup [kind : {"result"}, id : Nat \ {0}]
          \cup [kind : {"call"}, id : Nat \ {0}, name : {"tool", Missing},
                args : [raw : BOOLEAN, text : Seq(Nat \X {1, 2})]]

LlmTypeOK ==
    /\ \A i \in DOMAIN contents :
         /\ contents[i].role \in {"user", "model"}
         /\ \A j \in DOMAIN contents[i].parts : contents[i].parts[j] \in Part
    /\ mode \in {"stream", "whole"} /\ phase \in {"idle", "reading", "ended"}
    /\ written \in 0 .. MaxLines /\ noise \in 0 .. MaxNoise /\ quirk \in Quirks \cup {"none"}
    /\ Len(wire) =< WireCap + 1 /\ conn \in {"open", "closed", "broken"} /\ cancelled \in BOOLEAN
    /\ acc.content \in Texts /\ acc.reasoning \in Texts
    /\ \A i \in DOMAIN acc.order : acc.order[i] \in 0 .. MaxCalls - 1
    /\ outcome.kind \in {"none", "final", "error", "stopped"}

Streamed == phase = "ended" /\ mode = "stream" /\ outcome.kind = "final"
TextOf(kind, parts) == FlattenSeq([i \in DOMAIN parts |->
                          IF parts[i].kind = kind THEN parts[i].text ELSE <<>>])

\* However the pieces of text, thoughts and several calls are interleaved, reading
\* them as a stream gives what reading the answer as a whole does, from a server
\* that numbers and names its calls; and from any server the final response is
\* the sum of what was yielded before it, which it replaces on screen.  About
\* stream against complete, and the builders of stream against its yields.
SameAsWhole ==
    Streamed =>
        /\ quirk = "none" => outcome.final = Whole(answer)
        /\ TextOf("text", outcome.final.parts) = yielded.content
        /\ TextOf("thought", outcome.final.parts) = yielded.reasoning

\* An answer that was cut off is not taken for a complete one, wherever it was
\* cut, within a line or between: an error is reported instead.  Only a server
\* that ends its stream in order in the middle is believed.  About io.EOF in stream,
\* and about the partial line that nextSSEData returns before the error.
NoTruncation == Streamed /\ quirk # "short" => answer.finish # Missing

\* What messages tell, and what contents hold, as one sequence.
ToldBy(msgs) == FlattenSeq([i \in DOMAIN msgs |->
    msgs[i].text \o msgs[i].calls \o (IF msgs[i].role = "tool" THEN <<msgs[i].answers>> ELSE <<>>)])
HeldBy(parts) == FlattenSeq([i \in DOMAIN parts |->
    CASE parts[i].kind = "text" -> parts[i].text
      [] parts[i].kind \in {"call", "result"} -> <<parts[i].id>>
      [] OTHER -> <<>>])

\* A request tells the model its own history: texts, calls and results, each once
\* and in order, and no thoughts; a tool's result follows, with nothing but other
\* results in between, the message that calls it.  About toChatMessages with
\* answers that hold several calls, empty texts and thoughts, and with requests
\* that failed.
HistoryTold ==
    phase = "reading" =>
        /\ ToldBy(request) = FlattenSeq([i \in DOMAIN contents |-> HeldBy(contents[i].parts)])
        /\ \A j \in DOMAIN request : request[j].role = "tool" =>
              \E i \in 1 .. j - 1 :
                 /\ request[i].role = "assistant"
                 /\ request[j].answers \in ToSet(request[i].calls)
                 /\ \A n \in i + 1 .. j - 1 : request[n].role = "tool"

=============================================================================
