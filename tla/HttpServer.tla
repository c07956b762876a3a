------------------------------ MODULE HttpServer -----------------------------
(***************************************************************************)
(* libs/http and libs/tcp over core/http.h and core/HTTP_Parser.cc: one    *)
(* connection of a server, from accept to the listeners of its requests.   *)
(*                                                                         *)
(* A client sends messages one after the other.  A message is a sequence   *)
(* of units: "begin" (the request line), for each header the two halves    *)
(* of its name and of its value, "end" (the empty line), and its body, in  *)
(* which a character of two bytes is "lead" and "trail".  A read gives the *)
(* next units, any number up to the buffer's size.  The code that parses   *)
(* them stops at the first NUL, and in a buffer without NUL runs past its  *)
(* end.  What on_body is given becomes a string of its own: half a         *)
(* character in it is replaced.                                            *)
(*                                                                         *)
(* No value is folded over several lines, which llhttp gives to            *)
(* on_header_value as a span for each line, within one read.               *)
(*                                                                         *)
(* A listener runs within the step that emits its event, and may throw.    *)
(* The request line, the upgrade and keep-alive flags and the writes of    *)
(* the response are left out.                                              *)
(***************************************************************************)
EXTENDS Integers, Sequences, SequencesExt

CONSTANTS
    Messages,   \* the messages the client sends at most (the bound)
    Headers,    \* the headers of each
    Bodies,     \* the bodies: sequences of BodyParts
    BufferSize  \* the units a buffer holds

\* A character of one byte, the two bytes of another, and NUL.
TextParts == {"text", "lead", "trail"}
BodyParts == TextParts \cup {"nul"}

ASSUME HttpAssumption ==
    /\ Messages \in Nat /\ Headers \in Nat /\ BufferSize \in Nat \ {0}
    /\ Bodies \subseteq Seq(BodyParts)

VARIABLES
    sent,       \* what the client has sent
    client,     \* "open", "closed" after its FIN, or "reset"
    taken,      \* how much of it the server has read
    conn,       \* see Conns
    chunk,      \* what is still to be parsed of the buffer
    expect,     \* llhttp: the part it is in
    left,       \* llhttp: the body that is to come
    span,       \* llhttp: the part of a name or value since the chunk began
    keys, values, body,     \* the members of HTTP_Parser
    requests,   \* the headers each 'request' was emitted with
    listeners,  \* the handlers that listen on the HTTPRequest
    heard,      \* history: what 'data' gave the handler of a request
    ends,       \* history: how often it heard 'end'
    thrown,     \* an exception is on its way out of parse
    damaged,    \* history: the parser was not given what was sent
    split,      \* history: requests of which a name or value was split
    cut         \* history: where the characters are that a read has cut

clientVars == <<sent, client>>
llhttpVars == <<expect, left, span>>
parserVars == <<keys, values, body>>
handlerVars == <<listeners, heard, ends>>
vars == <<clientVars, taken, conn, chunk, llhttpVars, parserVars, requests,
          handlerVars, thrown, damaged, split, cut>>

\* Not accepted, a read outstanding, parsing; or it is over: 'end' or
\* 'error' was emitted, or a listener threw.
Conns == {"none", "refused", "reading", "parsing", "ended", "failed", "dead"}
Over == conn \in {"failed", "dead"}

Unit(part, msg, index) == [part |-> part, msg |-> msg, index |-> index]
NameOf(m, h) == <<Unit("field", m, h), Unit("fieldEnd", m, h)>>
ValueOf(m, h) == <<Unit("value", m, h), Unit("valueEnd", m, h)>>
Junk == Unit("junk", 0, 0)
Wild == <<Unit("wild", 0, 0)>>
Broken == Unit("broken", 0, 0)   \* U+FFFD

HeaderParts == <<"field", "fieldEnd", "value", "valueEnd">>

\* A message: its "end" has the Content-length.
Message(m, b) ==
       <<Unit("begin", m, 0)>>
    \o [i \in 1..4 * Headers |->
          Unit(HeaderParts[1 + ((i - 1) % 4)], m, 1 + ((i - 1) \div 4))]
    \o <<Unit("end", m, Len(b))>>
    \o [i \in DOMAIN b |-> Unit(b[i], m, i)]

Sent == Cardinality({i \in DOMAIN sent : sent[i].part = "begin"})

Init ==
    /\ sent = <<>> /\ client = "open" /\ taken = 0
    /\ conn = "none" /\ chunk = <<>>
    /\ expect = "begin" /\ left = 0 /\ span = <<>>
    /\ keys = <<>> /\ values = <<>> /\ body = <<>>
    /\ requests = <<>> /\ listeners = <<>>
    /\ heard = [m \in 1..Messages |-> <<>>]
    /\ ends = [m \in 1..Messages |-> 0]
    /\ thrown = FALSE /\ damaged = FALSE /\ split = {} /\ cut = {}

\* A character of two bytes begins at position i of the units.
Character(units, i) ==
    /\ i \in DOMAIN units /\ i + 1 \in DOMAIN units
    /\ units[i].part = "lead" /\ units[i + 1].part = "trail"

\* Of a character the units have both bytes.
Whole(units, i) ==
    units[i].part \in {"lead", "trail"} =>
        Character(units, i) \/ Character(units, i - 1)

-----------------------------------------------------------------------------
(* The client *)

Send(b) ==
    /\ client = "open" /\ Sent < Messages
    /\ sent' = sent \o Message(Sent + 1, b)
    /\ UNCHANGED <<client, taken, conn, chunk, llhttpVars, parserVars,
                   requests, handlerVars, thrown, damaged, split, cut>>

Leave(how) ==
    /\ client = "open"
    /\ client' = how
    /\ UNCHANGED <<sent, taken, conn, chunk, llhttpVars, parserVars,
                   requests, handlerVars, thrown, damaged, split, cut>>

-----------------------------------------------------------------------------
(* The server's socket *)

\* The callback of accept makes a ServerSocket, which reads, of whatever it
\* is given: a descriptor or an error.
Accept(ok) ==
    /\ conn = "none"
    /\ conn' = IF ok THEN "reading" ELSE "refused"
    /\ UNCHANGED <<clientVars, taken, chunk, llhttpVars, parserVars,
                   requests, handlerVars, thrown, damaged, split, cut>>

\* What strlen finds in a buffer with these units: all before the first NUL,
\* or, in a full buffer without NUL, also what follows it in the memory.
Strings(units) ==
    LET nuls == {i \in DOMAIN units : units[i].part = "nul"}
        firsts == {i \in nuls : \A j \in nuls : i <= j}
    IN  IF nuls # {} THEN {SubSeq(units, 1, i - 1) : i \in firsts}
        ELSE IF Len(units) < BufferSize THEN {units}
        ELSE {units, Append(units, Junk)}

\* The callback of read, status > 0: 'data' of the socket calls parse.
ReadData(n) ==
    /\ conn = "reading" /\ client # "reset"
    /\ n \in 1..BufferSize /\ n <= Len(sent) - taken
    /\ taken' = taken + n
    /\ LET units == SubSeq(sent, taken + 1, taken + n)
       IN  /\ chunk' \in Strings(units)
           /\ damaged' = (damaged \/ chunk' # units)
    /\ cut' = IF Character(sent, taken') THEN cut \cup {taken'} ELSE cut
    /\ conn' = "parsing"
    /\ UNCHANGED <<clientVars, llhttpVars, parserVars, requests,
                   handlerVars, thrown, split>>

\* The listeners of an event are called in order, up to one that throws.
Called(upto) == {listeners[i] : i \in 1..upto}

\* Mutant: only the handler that has come last hears 'end'.
ReadEndLast(upto) ==
    /\ conn = "reading" /\ client = "closed" /\ taken = Len(sent)
    /\ upto \in DOMAIN listeners \cup {Len(listeners)}
    /\ ends' = [m \in 1..Messages |->
                  IF upto > 0 /\ m = listeners[upto] THEN ends[m] + 1
                  ELSE ends[m]]
    /\ \/ upto = Len(listeners) /\ conn' = "ended"
       \/ upto > 0 /\ conn' = "dead"
    /\ UNCHANGED <<clientVars, taken, chunk, llhttpVars, parserVars,
                   requests, listeners, heard, thrown, damaged, split, cut>>

\* Status 0: 'end' of the socket is 'end' of the HTTPRequest.
ReadEnd(upto) ==
    /\ conn = "reading" /\ client = "closed" /\ taken = Len(sent)
    /\ upto \in DOMAIN listeners \cup {Len(listeners)}
    /\ ends' = [m \in 1..Messages |->
                  IF m \in Called(upto) THEN ends[m] + 1 ELSE ends[m]]
    /\ \/ upto = Len(listeners) /\ conn' = "ended"
       \/ upto > 0 /\ conn' = "dead"
    /\ UNCHANGED <<clientVars, taken, chunk, llhttpVars, parserVars,
                   requests, listeners, heard, thrown, damaged, split, cut>>

\* Status < 0: 'error' has no listener and is thrown.
ReadFails ==
    /\ \/ conn = "reading" /\ client = "reset"
       \/ conn = "refused"
    /\ conn' = "failed"
    /\ UNCHANGED <<clientVars, taken, chunk, llhttpVars, parserVars,
                   requests, handlerVars, thrown, damaged, split, cut>>

-----------------------------------------------------------------------------
(* llhttp_execute over the chunk, and the callbacks of HTTP_Parser *)

Parse(parts) ==
    /\ conn = "parsing" /\ chunk # <<>> /\ Head(chunk).part \in parts
    /\ chunk' = Tail(chunk)

\* Mutant: the headers of the message before stay.
MessageBeginKeeps ==
    /\ Parse({"begin"}) /\ expect = "begin"
    /\ expect' = "field" /\ body' = <<>>
    /\ UNCHANGED <<clientVars, taken, conn, left, span, keys, values, requests,
                   handlerVars, thrown, damaged, split, cut>>

\* on_message_begin: the members are cleared.
MessageBegin ==
    /\ Parse({"begin"}) /\ expect = "begin"
    /\ expect' = "field"
    /\ keys' = <<>> /\ values' = <<>> /\ body' = <<>>
    /\ UNCHANGED <<clientVars, taken, conn, left, span, requests,
                   handlerVars, thrown, damaged, split, cut>>

\* The first half of a name or value, or junk in the middle of one.
SpanGoesOn ==
    /\ \/ Parse({"field"}) /\ expect = "field" /\ expect' = "fieldEnd"
       \/ Parse({"value"}) /\ expect = "value" /\ expect' = "valueEnd"
       \/ /\ Parse({"junk"}) /\ expect \in {"fieldEnd", "valueEnd"}
          /\ UNCHANGED expect
    /\ span' = Append(span, Head(chunk))
    /\ UNCHANGED <<clientVars, taken, conn, left, parserVars, requests,
                   handlerVars, thrown, damaged, split, cut>>

\* on_header_field, on_header_value: each span is an entry of its own.
OnHeaderField(at) == keys' = Append(keys, at) /\ UNCHANGED <<values, body>>
OnHeaderValue(at) == values' = Append(values, at) /\ UNCHANGED <<keys, body>>

SpanEnds ==
    /\ \/ /\ Parse({"fieldEnd"}) /\ expect = "fieldEnd"
          /\ expect' = "value"
          /\ OnHeaderField(Append(span, Head(chunk)))
       \/ /\ Parse({"valueEnd"}) /\ expect = "valueEnd"
          /\ expect' = "field"
          /\ OnHeaderValue(Append(span, Head(chunk)))
    /\ span' = <<>>
    /\ UNCHANGED <<clientVars, taken, conn, left, requests, handlerVars,
                   thrown, damaged, split, cut>>

\* The headers of a request: values[i] of a key without value is read out of
\* the range of the vector.
HeadersOf ==
    [i \in DOMAIN keys |->
       <<keys[i], IF i \in DOMAIN values THEN values[i] ELSE Wild>>]

\* on_headers_complete: 'request' is emitted, whose handler may listen on
\* the HTTPRequest, which is the same for all messages, and may throw.
HeadersComplete(listens, throws) ==
    /\ Parse({"end"}) /\ expect = "field"
    /\ left' = Head(chunk).index
    /\ expect' = IF left' = 0 THEN "begin" ELSE "body"
    /\ requests' = Append(requests, HeadersOf)
    /\ listeners' = IF listens THEN Append(listeners, Len(requests'))
                    ELSE listeners
    /\ thrown' = (thrown \/ throws)
    /\ UNCHANGED <<clientVars, taken, conn, span, parserVars, heard, ends,
                   damaged, split, cut>>

\* The string of these bytes: a byte that is half a character is replaced.
NewFromUtf8(at) ==
    [i \in DOMAIN at |-> IF Whole(at, i) THEN at[i] ELSE Broken]

\* Mutant: emits all of the body so far.
OnBodyWhole(at, upto) ==
    /\ body' = body \o at
    /\ heard' = [m \in 1..Messages |->
                   IF m \in Called(upto) THEN heard[m] \o NewFromUtf8(body')
                   ELSE heard[m]]

\* on_body, of what the chunk has of the body: 'data' of the HTTPRequest, with
\* a string of that part alone.
OnBody(at, upto) ==
    /\ body' = body \o at
    /\ heard' = [m \in 1..Messages |->
                   IF m \in Called(upto) THEN heard[m] \o NewFromUtf8(at)
                   ELSE heard[m]]

\* Mutant: takes the rest of the chunk for body, beyond Content-length.
BodyTakesAll(upto) ==
    /\ conn = "parsing" /\ chunk # <<>> /\ expect = "body"
    /\ upto \in DOMAIN listeners \cup {Len(listeners)}
    /\ OnBody(chunk, upto)
    /\ chunk' = <<>>
    /\ left' = left - Len(chunk)
    /\ expect' = IF left' = 0 THEN "begin" ELSE "body"
    /\ \/ upto = Len(listeners) /\ UNCHANGED thrown
       \/ upto > 0 /\ thrown' = TRUE
    /\ UNCHANGED <<clientVars, taken, conn, span, keys, values, requests,
                   listeners, ends, damaged, split, cut>>

\* A listener may throw: those after it are not called.
Body(upto) ==
    /\ conn = "parsing" /\ chunk # <<>> /\ expect = "body"
    /\ upto \in DOMAIN listeners \cup {Len(listeners)}
    /\ LET length == IF left < Len(chunk) THEN left ELSE Len(chunk)
       IN  /\ OnBody(SubSeq(chunk, 1, length), upto)
           /\ chunk' = SubSeq(chunk, length + 1, Len(chunk))
           /\ left' = left - length
    /\ expect' = IF left' = 0 THEN "begin" ELSE "body"
    /\ \/ upto = Len(listeners) /\ UNCHANGED thrown
       \/ upto > 0 /\ thrown' = TRUE
    /\ UNCHANGED <<clientVars, taken, conn, span, keys, values, requests,
                   listeners, ends, damaged, split, cut>>

\* What llhttp does not expect is an error; the rest is not parsed, now and
\* in the calls that follow.
Expected ==
    CASE expect = "error" -> {}
      [] expect = "field" -> {"field", "end"}
      [] expect \in {"fieldEnd", "valueEnd"} -> {expect, "junk"}
      [] OTHER -> {expect}

ParseError ==
    /\ conn = "parsing" /\ chunk # <<>>
    /\ expect # "body" /\ Head(chunk).part \notin Expected
    /\ expect' = "error" /\ chunk' = <<>> /\ span' = <<>>
    /\ UNCHANGED <<clientVars, taken, conn, left, parserVars, requests,
                   handlerVars, thrown, damaged, split, cut>>

\* Mutant: does not read again after an error of the parser.
ParseReturnsOnError ==
    /\ conn = "parsing" /\ chunk = <<>>
    /\ CASE span = <<>> -> UNCHANGED parserVars
         [] span # <<>> /\ expect = "fieldEnd" -> OnHeaderField(span)
         [] span # <<>> /\ expect = "valueEnd" -> OnHeaderValue(span)
    /\ split' = IF span = <<>> THEN split
                ELSE split \cup {Len(requests) + 1}
    /\ span' = <<>>
    /\ conn' = CASE thrown -> "dead"
                 [] ~thrown /\ expect = "error" -> "ended"
                 [] OTHER -> "reading"
    /\ UNCHANGED <<clientVars, taken, chunk, expect, left, requests,
                   handlerVars, thrown, damaged, cut>>

\* The end of the chunk ends the span.  parse returns, whatever its result,
\* and the socket reads again, unless a listener threw.
ParseReturns ==
    /\ conn = "parsing" /\ chunk = <<>>
    /\ CASE span = <<>> -> UNCHANGED parserVars
         [] span # <<>> /\ expect = "fieldEnd" -> OnHeaderField(span)
         [] span # <<>> /\ expect = "valueEnd" -> OnHeaderValue(span)
    /\ split' = IF span = <<>> THEN split
                ELSE split \cup {Len(requests) + 1}
    /\ span' = <<>>
    /\ conn' = IF thrown THEN "dead" ELSE "reading"
    /\ UNCHANGED <<clientVars, taken, chunk, expect, left, requests,
                   handlerVars, thrown, damaged, cut>>

-----------------------------------------------------------------------------
ClientStep == \/ \E b \in Bodies : Send(b)
              \/ \E how \in {"closed", "reset"} : Leave(how)
              \/ \E ok \in BOOLEAN : Accept(ok)

ServerStep ==
    \/ \E n \in 1..BufferSize : ReadData(n)
    \/ \E upto \in 0..Messages : ReadEnd(upto) \/ Body(upto)
    \/ ReadFails
    \/ MessageBegin \/ SpanGoesOn \/ SpanEnds
    \/ \E listens, throws \in BOOLEAN : HeadersComplete(listens, throws)
    \/ ParseError \/ ParseReturns

\* The server waits for the client, or the connection is over.
Idle == /\ Over \/ conn \in {"ended", "reading"}
        /\ UNCHANGED vars

Next == ClientStep \/ ServerStep \/ Idle

\* The loop runs the server's callbacks and the kernel completes reads.
Spec == Init /\ [][Next]_vars /\ WF_vars(ServerStep)
-----------------------------------------------------------------------------
(* Properties *)

Parts == {"begin", "field", "fieldEnd", "value", "valueEnd", "end", "junk",
          "broken"} \cup BodyParts
Units == [part : Parts, msg : 0..Messages, index : Nat]
Expects == {"begin", "field", "fieldEnd", "value", "valueEnd", "body",
            "error"}

\* Types of the state.
HttpTypeOK ==
    /\ sent \in Seq(Units) /\ client \in {"open", "closed", "reset"}
    /\ taken \in 0..Len(sent) /\ conn \in Conns /\ chunk \in Seq(Units)
    /\ expect \in Expects /\ left \in Nat /\ span \in Seq(Units)
    /\ keys \in Seq(Seq(Units)) /\ values \in Seq(Seq(Units))
    /\ body \in Seq(Units)
    /\ requests \in Seq(Seq(Seq(Units) \X (Seq(Units) \cup {Wild})))
    /\ listeners \in Seq(1..Len(requests))
    /\ heard \in [1..Messages -> Seq(Units)]
    /\ ends \in [1..Messages -> Nat]
    /\ thrown \in BOOLEAN /\ damaged \in BOOLEAN
    /\ split \subseteq Nat /\ cut \subseteq Nat

\* What the parser has consumed, if it was given what was sent; the heads in
\* it, and the texts of message m and of those after it.
Parsed == 1..taken - Len(chunk)
Heads == {i \in Parsed : sent[i].part = "end"}
Texts(m) == {i \in Parsed : sent[i].part \in TextParts /\ sent[i].msg >= m}

\* What a string has for a unit of a body: the unit itself, unless it is half
\* a character as it was sent, or of a character that a read has cut.
Shown(i) ==
    IF Whole(sent, i) /\ i \notin cut /\ i - 1 \notin cut THEN sent[i]
    ELSE Broken

\* What is shown for the units at the positions, each once and in order.
Selects(units, positions) ==
    /\ Len(units) = Cardinality(positions)
    /\ \A i \in positions :
         units[Cardinality({j \in positions : j <= i})] = Shown(i)

\* Only a header that a read splits makes on_headers_complete read values[i]
\* out of the range of the vector, whatever the parser is given.
NoWildHeader ==
    \A m \in DOMAIN requests : m \notin split =>
        \A i \in DOMAIN requests[m] : requests[m][i][2] # Wild

\* However the stream is cut into reads: one request for each head, in order,
\* with the headers of its message and of no other, unless the reads split
\* one of them.
HeadersAsSent ==
    /\ NoWildHeader
    /\ ~damaged =>
         /\ Len(requests) = Cardinality(Heads)
         /\ \A m \in DOMAIN requests : m \notin split =>
              requests[m] =
                [h \in 1..Headers |-> <<NameOf(m, h), ValueOf(m, h)>>]

\* A handler hears the bodies from its own message on, each unit once and in
\* order: the HTTPRequest of a connection is shared by its messages.  However
\* the reads cut them, only the two halves of a character that a read has cut
\* are replaced, and both of them are.
BodiesReachTheirHandlers ==
    ~damaged /\ ~thrown =>
        \A m \in {listeners[i] : i \in DOMAIN listeners} :
            Selects(heard[m], Texts(m))

\* What is sent is read and parsed or dropped: neither an error of the
\* parser nor the shape of the reads stops the connection, only its end, its
\* failure or a listener that throws.
EverythingIsRead ==
    []<>(taken - Len(chunk) = Len(sent) \/ Over \/ conn = "none")

\* A handler hears 'end' once at most.
EndsOnce == \A m \in 1..Messages : ends[m] <= 1

\* A client that closes is heard, once and for all, by every handler that
\* listens.
EndIsHeard ==
    client = "closed" /\ conn = "reading" ~>
        [](Over \/ \A i \in DOMAIN listeners : ends[listeners[i]] = 1)
=============================================================================
