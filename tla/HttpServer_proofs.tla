-------------------------- MODULE HttpServer_proofs --------------------------
(***************************************************************************)
(* One connection of module HttpServer, for any messages, headers, bodies  *)
(* and size of buffer.  First, whatever the parser is given: the types,    *)
(* that only a header split by a read makes the code read beyond the       *)
(* values, and that 'end' is heard once.  Then, as long as the parser is   *)
(* given what was sent: StreamsInv knows the parser's place in the stream, *)
(* so that the requests and bodies come out as they were sent.             *)
(***************************************************************************)
EXTENDS HttpServer, SequenceTheorems, FiniteSetTheorems, TLAPS

USE DEF TextParts, BodyParts

Names == Seq(Units)
Values == Seq(Units) \cup {Wild}

\* A span is open only within a name or a value.
SpanInv == span # <<>> => expect \in {"fieldEnd", "valueEnd"}

\* In a head that no read has split, each name but the last has its value.
HeaderInv ==
    expect \in {"field", "fieldEnd", "value", "valueEnd"}
      /\ Len(requests) + 1 \notin split =>
        Len(keys) = Len(values) + (IF expect \in {"value", "valueEnd"}
                                   THEN 1 ELSE 0)

\* 'end' is emitted once, and then the connection is over.
EndInv ==
    /\ conn \in {"none", "refused", "reading", "parsing"} =>
         \A m \in 1..Messages : ends[m] = 0
    /\ EndsOnce

HttpIInv == HttpTypeOK /\ SpanInv /\ HeaderInv /\ NoWildHeader /\ EndInv
-----------------------------------------------------------------------------
(* Lemmas about the helpers *)

\* A function on 1..n is a sequence.
LEMMA FunctionIsSeq ==
    ASSUME NEW S, NEW n \in Nat, NEW f \in [1..n -> S]
    PROVE  f \in Seq(S)
BY DEF Seq

\* Units that are not Wild's.
LEMMA UnitType ==
    /\ \A part \in Parts, m \in 0..Messages, i \in Nat :
         Unit(part, m, i) \in Units
    /\ Junk \in Units
    /\ Wild \notin Seq(Units)
<1>1. /\ \A part \in Parts, m \in 0..Messages, i \in Nat :
           Unit(part, m, i) \in Units
      /\ Junk \in Units
  BY HttpAssumption DEF Unit, Units, Parts, Junk
<1>2. Wild \notin Seq(Units)
  <2>1. SUFFICES ASSUME Wild \in Seq(Units) PROVE FALSE
    OBVIOUS
  <2>2. Wild[1] \in Units
    <3>1. Len(Wild) = 1
      BY DEF Wild
    <3> QED BY <2>1, <3>1, ElementOfSeq
  <2>3. Wild[1].part = "wild"
    BY DEF Wild, Unit
  <2> QED BY <2>2, <2>3 DEF Units, Parts
<1> QED BY <1>1, <1>2

\* The four parts of a message are sequences of units.
LEMMA MessageParts ==
    ASSUME NEW m \in 1..Messages, NEW b \in Bodies
    PROVE  /\ <<Unit("begin", m, 0)>> \in Seq(Units)
           /\ [i \in 1..4 * Headers |->
                Unit(HeaderParts[1 + ((i - 1) % 4)], m,
                     1 + ((i - 1) \div 4))] \in Seq(Units)
           /\ <<Unit("end", m, Len(b))>> \in Seq(Units)
           /\ [i \in DOMAIN b |-> Unit(b[i], m, i)] \in Seq(Units)
<1>1. b \in Seq(BodyParts) /\ m \in 0..Messages /\ Headers \in Nat
  BY HttpAssumption
<1> DEFINE head == [i \in 1..4 * Headers |->
          Unit(HeaderParts[1 + ((i - 1) % 4)], m, 1 + ((i - 1) \div 4))]
           text == [i \in DOMAIN b |-> Unit(b[i], m, i)]
<1>2. head \in Seq(Units)
  <2>1. 4 * Headers \in Nat
    BY <1>1
  <2>2. \A i \in 1..4 * Headers : head[i] \in Units
    <3>1. TAKE i \in 1..4 * Headers
    <3>2. 1 + ((i - 1) % 4) \in 1..4 /\ 1 + ((i - 1) \div 4) \in Nat
      BY <3>1, <2>1
    <3>3. \A k \in 1..4 : HeaderParts[k] \in Parts
      BY DEF HeaderParts, Parts
    <3> QED BY <1>1, <3>1, <3>2, <3>3, UnitType
  <2> HIDE DEF head
  <2>3. DOMAIN head = 1..4 * Headers
    BY DEF head
  <2>4. head = [i \in 1..4 * Headers |-> head[i]]
    BY DEF head
  <2>5. head \in [1..4 * Headers -> Units]
    BY <2>2, <2>4
  <2> QED BY <2>1, <2>5, FunctionIsSeq
<1>3. text \in Seq(Units)
  <2>1. Len(b) \in Nat /\ DOMAIN b = 1..Len(b)
    BY <1>1
  <2>2. \A i \in 1..Len(b) : b[i] \in Parts
    BY <1>1, ElementOfSeq DEF Parts
  <2>3. \A i \in 1..Len(b) : Unit(b[i], m, i) \in Units
    BY <1>1, <2>1, <2>2, UnitType
  <2>4. text \in [1..Len(b) -> Units]
    BY <2>1, <2>3
  <2> QED BY <2>1, <2>4, FunctionIsSeq
<1>4. <<Unit("begin", m, 0)>> \in Seq(Units)
  <2>1. Unit("begin", m, 0) \in Units
    BY <1>1, UnitType DEF Parts
  <2> QED BY <2>1
<1>5. <<Unit("end", m, Len(b))>> \in Seq(Units)
  <2>1. Unit("end", m, Len(b)) \in Units
    BY <1>1, UnitType DEF Parts
  <2> QED BY <2>1
<1> QED BY <1>2, <1>3, <1>4, <1>5

\* A message is a sequence of units.
LEMMA MessageType ==
    ASSUME NEW m \in 1..Messages, NEW b \in Bodies
    PROVE  Message(m, b) \in Seq(Units)
BY MessageParts, ConcatProperties DEF Message

\* The string of some bytes has a unit for each.
LEMMA StringType ==
    ASSUME NEW at \in Seq(Units)
    PROVE  /\ NewFromUtf8(at) \in Seq(Units) /\ Len(NewFromUtf8(at)) = Len(at)
           /\ \A i \in 1..Len(at) :
                NewFromUtf8(at)[i] = IF Whole(at, i) THEN at[i] ELSE Broken
<1>1. Len(at) \in Nat /\ DOMAIN at = 1..Len(at)
  BY LenProperties
<1>2. \A i \in 1..Len(at) : at[i] \in Units
  BY ElementOfSeq
<1>3. Broken \in Units
  BY HttpAssumption DEF Broken, Unit, Units, Parts
<1>4. NewFromUtf8(at) \in [1..Len(at) -> Units]
  BY <1>1, <1>2, <1>3 DEF NewFromUtf8
<1>5. NewFromUtf8(at) \in Seq(Units)
  BY <1>1, <1>4, FunctionIsSeq
<1>6. Len(NewFromUtf8(at)) = Len(at)
  BY <1>1, <1>4, <1>5, LenProperties
<1> QED BY <1>1, <1>5, <1>6 DEF NewFromUtf8

\* What strlen finds are units.
LEMMA StringsType ==
    ASSUME NEW units \in Seq(Units)
    PROVE  Strings(units) \subseteq Seq(Units)
<1>1. \A i \in DOMAIN units : SubSeq(units, 1, i - 1) \in Seq(Units)
  <2>1. TAKE i \in DOMAIN units
  <2>2. i \in 1..Len(units) /\ Len(units) \in Nat
    BY <2>1, LenProperties
  <2>3. \A j \in 1..(i - 1) : units[j] \in Units
    BY <2>2, ElementOfSeq
  <2> QED BY <2>2, <2>3, SubSeqProperties
<1>2. Append(units, Junk) \in Seq(Units)
  BY UnitType
<1> QED BY <1>1, <1>2 DEF Strings

\* The headers of a request, of keys that all have values and of any.
LEMMA HeadersOfType ==
    ASSUME keys \in Seq(Seq(Units)), values \in Seq(Seq(Units))
    PROVE  /\ HeadersOf \in Seq(Names \X Values)
           /\ DOMAIN HeadersOf = 1..Len(keys)
           /\ Len(keys) = Len(values) =>
                \A i \in 1..Len(keys) : HeadersOf[i][2] \in Seq(Units)
<1>1. /\ Len(keys) \in Nat /\ DOMAIN keys = 1..Len(keys)
      /\ Len(values) \in Nat /\ DOMAIN values = 1..Len(values)
  BY LenProperties
<1>2. \A i \in 1..Len(keys) : keys[i] \in Names
  BY ElementOfSeq DEF Names
<1>3. \A i \in 1..Len(values) : values[i] \in Seq(Units)
  BY ElementOfSeq
<1>4. \A i \in 1..Len(keys) :
        <<keys[i], IF i \in DOMAIN values THEN values[i] ELSE Wild>>
          \in Names \X Values
  BY <1>1, <1>2, <1>3 DEF Values
<1>5. HeadersOf \in [1..Len(keys) -> Names \X Values]
  BY <1>1, <1>4 DEF HeadersOf
<1>6. HeadersOf \in Seq(Names \X Values)
  BY <1>1, <1>5, FunctionIsSeq
<1>7. ASSUME Len(keys) = Len(values), NEW i \in 1..Len(keys)
      PROVE  HeadersOf[i][2] \in Seq(Units)
  BY <1>1, <1>3, <1>7 DEF HeadersOf
<1> QED BY <1>1, <1>5, <1>6, <1>7

\* The client has sent some number of messages.
LEMMA SentType ==
    ASSUME sent \in Seq(Units)
    PROVE  Sent \in Nat
<1> DEFINE begins == {i \in DOMAIN sent : sent[i].part = "begin"}
<1>1. DOMAIN sent = 1..Len(sent) /\ Len(sent) \in Nat
  BY LenProperties
<1>2. IsFiniteSet(1..Len(sent))
  BY <1>1, FS_Interval
<1>3. IsFiniteSet(begins)
  BY <1>1, <1>2, FS_Subset
<1> QED BY <1>3, FS_CardinalityType DEF Sent

-----------------------------------------------------------------------------
(* The invariant *)

LEMMA HttpInit == Init => HttpIInv
<1> SUFFICES ASSUME Init PROVE HttpIInv
  OBVIOUS
<1>1. <<>> \in Seq(Units) /\ Len(<<>>) = 0
  BY EmptySeq
<1>2. HttpTypeOK
  <2>1. /\ <<>> \in Seq(Seq(Units)) /\ <<>> \in Seq(1..0)
        /\ <<>> \in Seq(Seq(Seq(Units) \X (Seq(Units) \cup {Wild})))
    BY EmptySeq
  <2>2. /\ heard \in [1..Messages -> Seq(Units)]
        /\ ends \in [1..Messages -> Nat]
    BY <1>1 DEF Init
  <2>3. /\ sent \in Seq(Units) /\ taken \in 0..Len(sent)
        /\ chunk \in Seq(Units) /\ span \in Seq(Units)
        /\ body \in Seq(Units)
    BY <1>1 DEF Init
  <2>4. /\ keys \in Seq(Seq(Units)) /\ values \in Seq(Seq(Units))
        /\ requests \in Seq(Seq(Seq(Units) \X (Seq(Units) \cup {Wild})))
        /\ listeners \in Seq(1..Len(requests))
    BY <1>1, <2>1 DEF Init
  <2>5. /\ client \in {"open", "closed", "reset"} /\ conn \in Conns
        /\ expect \in Expects /\ left \in Nat /\ thrown \in BOOLEAN
        /\ damaged \in BOOLEAN /\ split \subseteq Nat /\ cut \subseteq Nat
    BY DEF Init, Conns, Expects
  <2> QED BY <2>2, <2>3, <2>4, <2>5 DEF HttpTypeOK
<1>3. SpanInv /\ HeaderInv /\ NoWildHeader /\ EndInv
  BY <1>1 DEF Init, SpanInv, HeaderInv, NoWildHeader, EndInv, EndsOnce
<1> QED BY <1>2, <1>3 DEF HttpIInv

\* A unit of the chunk is parsed.
LEMMA ParseType ==
    ASSUME HttpTypeOK, NEW parts, Parse(parts)
    PROVE  /\ Head(chunk) \in Units /\ chunk' \in Seq(Units)
           /\ Head(chunk).part \in parts /\ Head(chunk).index \in Nat
           /\ conn = "parsing"
<1>1. Head(chunk) \in Units /\ chunk' \in Seq(Units)
  BY HeadTailProperties DEF Parse, HttpTypeOK
<1> QED BY <1>1 DEF Parse, Units

\* The client sends or leaves.
LEMMA ClientKeepsInv ==
    ASSUME HttpIInv,
           (\E b \in Bodies : Send(b))
             \/ (\E how \in {"closed", "reset"} : Leave(how))
    PROVE  HttpIInv'
<1> USE DEF HttpIInv
<1>1. sent' \in Seq(Units) /\ Len(sent') >= Len(sent) /\ Len(sent') \in Nat
  <2>1. sent \in Seq(Units) /\ Len(sent) \in Nat
    BY LenProperties DEF HttpTypeOK
  <2>2. CASE sent' = sent
    BY <2>1, <2>2
  <2>3. CASE \E b \in Bodies : Send(b)
    <3>1. PICK b \in Bodies : Send(b)
      BY <2>3
    <3>2. Sent + 1 \in 1..Messages
      BY <2>1, <3>1, SentType, HttpAssumption DEF Send
    <3>3. Message(Sent + 1, b) \in Seq(Units)
      BY <3>2, MessageType
    <3> HIDE DEF Sent
    <3>4. sent' = sent \o Message(Sent + 1, b)
      BY <3>1 DEF Send
    <3>5. /\ sent' \in Seq(Units)
          /\ Len(sent') = Len(sent) + Len(Message(Sent + 1, b))
          /\ Len(Message(Sent + 1, b)) \in Nat
      BY <2>1, <3>3, <3>4, ConcatProperties, LenProperties
    <3> QED BY <2>1, <3>5
  <2> QED BY <2>2, <2>3 DEF Leave
<1>2. client' \in {"open", "closed", "reset"}
  BY DEF Send, Leave, HttpTypeOK
<1>3. UNCHANGED <<taken, conn, chunk, expect, left, span, keys, values, body,
                  requests, listeners, heard, ends, thrown, damaged, split,
                  cut>>
  BY DEF Send, Leave, llhttpVars, parserVars, handlerVars
<1>4. HttpTypeOK'
  BY <1>1, <1>2, <1>3 DEF HttpTypeOK
<1>5. (SpanInv /\ HeaderInv /\ NoWildHeader /\ EndInv)'
  BY <1>3 DEF SpanInv, HeaderInv, NoWildHeader, EndInv, EndsOnce
<1> QED BY <1>4, <1>5

\* The socket's callbacks.
LEMMA AcceptKeepsInv ==
    ASSUME HttpIInv, NEW ok \in BOOLEAN, Accept(ok)
    PROVE  HttpIInv'
<1> USE DEF HttpIInv
<1>1. UNCHANGED <<sent, client, taken, chunk, expect, left, span, keys,
                  values, body, requests, listeners, heard, ends, thrown,
                  damaged, split, cut>>
  BY DEF Accept, clientVars, llhttpVars, parserVars, handlerVars
<1>2. conn = "none" /\ conn' \in {"reading", "refused"}
  BY DEF Accept
<1>3. HttpTypeOK'
  BY <1>1, <1>2 DEF HttpTypeOK, Conns
<1>4. (SpanInv /\ HeaderInv /\ NoWildHeader /\ EndInv)'
  BY <1>1, <1>2 DEF SpanInv, HeaderInv, NoWildHeader, EndInv, EndsOnce
<1> QED BY <1>3, <1>4

LEMMA ReadFailsKeepsInv ==
    ASSUME HttpIInv, ReadFails
    PROVE  HttpIInv'
<1> USE DEF HttpIInv
<1>1. UNCHANGED <<sent, client, taken, chunk, expect, left, span, keys,
                  values, body, requests, listeners, heard, ends, thrown,
                  damaged, split, cut>>
  BY DEF ReadFails, clientVars, llhttpVars, parserVars, handlerVars
<1>2. conn' = "failed"
  BY DEF ReadFails
<1>3. HttpTypeOK'
  BY <1>1, <1>2 DEF HttpTypeOK, Conns
<1>4. (SpanInv /\ HeaderInv /\ NoWildHeader /\ EndInv)'
  BY <1>1, <1>2 DEF SpanInv, HeaderInv, NoWildHeader, EndInv, EndsOnce
<1> QED BY <1>3, <1>4

LEMMA ReadDataKeepsInv ==
    ASSUME HttpIInv, NEW n \in 1..BufferSize, ReadData(n)
    PROVE  HttpIInv'
<1> USE DEF HttpIInv
<1>1. UNCHANGED <<sent, client, expect, left, span, keys, values, body,
                  requests, listeners, heard, ends, thrown, split>>
  BY DEF ReadData, clientVars, llhttpVars, parserVars, handlerVars
<1>2. conn = "reading" /\ conn' = "parsing"
  BY DEF ReadData
<1> DEFINE units == SubSeq(sent, taken + 1, taken + n)
<1>3. taken' \in 0..Len(sent) /\ taken + n <= Len(sent) /\ taken \in Nat
      /\ n \in Nat \ {0} /\ Len(sent) \in Nat
  BY HttpAssumption, LenProperties DEF ReadData, HttpTypeOK
<1>4. units \in Seq(Units)
  <2>1. \A i \in (taken + 1)..(taken + n) : i \in 1..Len(sent)
    BY <1>3
  <2>2. \A i \in (taken + 1)..(taken + n) : sent[i] \in Units
    BY <2>1, ElementOfSeq DEF HttpTypeOK
  <2> QED BY <1>3, <2>2, SubSeqProperties
<1>5. chunk' \in Strings(units) /\ damaged' = (damaged \/ chunk' # units)
  BY DEF ReadData
<1> HIDE DEF units
<1>6. chunk' \in Seq(Units) /\ damaged' \in BOOLEAN /\ cut' \subseteq Nat
  BY <1>3, <1>4, <1>5, StringsType DEF HttpTypeOK, ReadData
<1>7. HttpTypeOK'
  BY <1>1, <1>2, <1>3, <1>6 DEF HttpTypeOK, Conns
<1>8. (SpanInv /\ HeaderInv /\ NoWildHeader /\ EndInv)'
  BY <1>1, <1>2 DEF SpanInv, HeaderInv, NoWildHeader, EndInv, EndsOnce
<1> QED BY <1>7, <1>8

LEMMA ReadEndKeepsInv ==
    ASSUME HttpIInv, NEW upto \in 0..Messages, ReadEnd(upto)
    PROVE  HttpIInv'
<1> USE DEF HttpIInv
<1>1. UNCHANGED <<sent, client, taken, chunk, expect, left, span, keys,
                  values, body, requests, listeners, heard, thrown,
                  damaged, split, cut>>
  BY DEF ReadEnd, clientVars, llhttpVars, parserVars
<1>2. conn = "reading" /\ conn' \in {"ended", "dead"}
  BY DEF ReadEnd
<1>3. \A m \in 1..Messages : ends[m] = 0
  BY <1>2 DEF EndInv
<1>4. ends' = [m \in 1..Messages |->
                 IF m \in Called(upto) THEN ends[m] + 1 ELSE ends[m]]
  BY DEF ReadEnd
<1>5. ends' \in [1..Messages -> Nat] /\ EndsOnce'
  BY <1>3, <1>4 DEF EndsOnce
<1>6. HttpTypeOK'
  BY <1>1, <1>2, <1>5 DEF HttpTypeOK, Conns
<1>7. (SpanInv /\ HeaderInv /\ NoWildHeader /\ EndInv)'
  BY <1>1, <1>2, <1>5 DEF SpanInv, HeaderInv, NoWildHeader, EndInv
<1> QED BY <1>6, <1>7
-----------------------------------------------------------------------------
(* The parser's steps *)

LEMMA MessageBeginKeepsInv ==
    ASSUME HttpIInv, MessageBegin
    PROVE  HttpIInv'
<1> USE DEF HttpIInv
<1>1. UNCHANGED <<sent, client, taken, conn, left, span, requests, listeners,
                  heard, ends, thrown, damaged, split, cut>>
  BY DEF MessageBegin, clientVars, handlerVars
<1>2. /\ expect = "begin" /\ expect' = "field"
      /\ keys' = <<>> /\ values' = <<>> /\ body' = <<>>
  BY DEF MessageBegin
<1>3. chunk' \in Seq(Units)
  BY ParseType DEF MessageBegin
<1>4. HttpTypeOK'
  <2>1. <<>> \in Seq(Units) /\ <<>> \in Seq(Seq(Units))
    BY EmptySeq
  <2> QED BY <1>1, <1>2, <1>3, <2>1 DEF HttpTypeOK, Expects
<1>5. SpanInv'
  BY <1>1, <1>2 DEF SpanInv
<1>6. HeaderInv'
  BY <1>1, <1>2, EmptySeq DEF HeaderInv
<1>7. (NoWildHeader /\ EndInv)'
  BY <1>1 DEF NoWildHeader, EndInv, EndsOnce
<1> QED BY <1>4, <1>5, <1>6, <1>7

LEMMA SpanGoesOnKeepsInv ==
    ASSUME HttpIInv, SpanGoesOn
    PROVE  HttpIInv'
<1> USE DEF HttpIInv
<1>1. UNCHANGED <<sent, client, taken, conn, left, keys, values, body,
                  requests, listeners, heard, ends, thrown, damaged, split,
                  cut>>
  BY DEF SpanGoesOn, clientVars, parserVars, handlerVars
<1>2. /\ chunk' \in Seq(Units) /\ Head(chunk) \in Units
      /\ span' = Append(span, Head(chunk))
  BY ParseType DEF SpanGoesOn
<1>3. \/ expect = "field" /\ expect' = "fieldEnd"
      \/ expect = "value" /\ expect' = "valueEnd"
      \/ expect \in {"fieldEnd", "valueEnd"} /\ expect' = expect
  BY DEF SpanGoesOn
<1>4. HttpTypeOK'
  BY <1>1, <1>2, <1>3 DEF HttpTypeOK, Expects
<1>5. SpanInv' /\ HeaderInv'
  BY <1>1, <1>3 DEF SpanInv, HeaderInv
<1>6. (NoWildHeader /\ EndInv)'
  BY <1>1 DEF NoWildHeader, EndInv, EndsOnce
<1> QED BY <1>4, <1>5, <1>6

\* An entry of the keys or of the values.
LEMMA EntryType ==
    ASSUME HttpTypeOK, NEW at \in Seq(Units)
    PROVE  /\ OnHeaderField(at) =>
                /\ keys' \in Seq(Seq(Units)) /\ Len(keys') = Len(keys) + 1
                /\ values' = values /\ body' = body
           /\ OnHeaderValue(at) =>
                /\ values' \in Seq(Seq(Units))
                /\ Len(values') = Len(values) + 1
                /\ keys' = keys /\ body' = body
           /\ Len(keys) \in Nat /\ Len(values) \in Nat
<1>1. Append(keys, at) \in Seq(Seq(Units))
      /\ Len(Append(keys, at)) = Len(keys) + 1
  BY AppendProperties DEF HttpTypeOK
<1>2. Append(values, at) \in Seq(Seq(Units))
      /\ Len(Append(values, at)) = Len(values) + 1
  BY AppendProperties DEF HttpTypeOK
<1>3. Len(keys) \in Nat /\ Len(values) \in Nat
  BY LenProperties DEF HttpTypeOK
<1> QED BY <1>1, <1>2, <1>3 DEF OnHeaderField, OnHeaderValue

LEMMA SpanEndsKeepsInv ==
    ASSUME HttpIInv, SpanEnds
    PROVE  HttpIInv'
<1> USE DEF HttpIInv
<1>1. UNCHANGED <<sent, client, taken, conn, left, requests, listeners,
                  heard, ends, thrown, damaged, split, cut>>
  BY DEF SpanEnds, clientVars, handlerVars
<1>2. /\ chunk' \in Seq(Units) /\ Head(chunk) \in Units /\ span' = <<>>
  BY ParseType DEF SpanEnds
<1> DEFINE at == Append(span, Head(chunk))
<1>3. at \in Seq(Units)
  BY <1>2 DEF HttpTypeOK
<1>4. \/ expect = "fieldEnd" /\ expect' = "value" /\ OnHeaderField(at)
      \/ expect = "valueEnd" /\ expect' = "field" /\ OnHeaderValue(at)
  BY DEF SpanEnds
<1> HIDE DEF at
<1>5. HttpTypeOK'
  <2>1. keys' \in Seq(Seq(Units)) /\ values' \in Seq(Seq(Units))
        /\ body' = body
    BY <1>3, <1>4, EntryType DEF HttpTypeOK
  <2>2. span' \in Seq(Units)
    BY <1>2, EmptySeq
  <2> QED BY <1>1, <1>2, <1>4, <2>1, <2>2 DEF HttpTypeOK, Expects
<1>6. SpanInv'
  BY <1>2 DEF SpanInv
<1>7. HeaderInv'
  <2>1. CASE expect = "fieldEnd" /\ expect' = "value" /\ OnHeaderField(at)
    <3>1. Len(keys') = Len(keys) + 1 /\ values' = values
          /\ Len(keys) \in Nat /\ Len(values) \in Nat
      BY <1>3, <2>1, EntryType
    <3> QED BY <1>1, <2>1, <3>1 DEF HeaderInv
  <2>2. CASE expect = "valueEnd" /\ expect' = "field" /\ OnHeaderValue(at)
    <3>1. Len(values') = Len(values) + 1 /\ keys' = keys
          /\ Len(keys) \in Nat /\ Len(values) \in Nat
      BY <1>3, <2>2, EntryType
    <3> QED BY <1>1, <2>2, <3>1 DEF HeaderInv
  <2> QED BY <1>4, <2>1, <2>2
<1>8. (NoWildHeader /\ EndInv)'
  BY <1>1 DEF NoWildHeader, EndInv, EndsOnce
<1> QED BY <1>5, <1>6, <1>7, <1>8

LEMMA ParseErrorKeepsInv ==
    ASSUME HttpIInv, ParseError
    PROVE  HttpIInv'
<1> USE DEF HttpIInv
<1>1. UNCHANGED <<sent, client, taken, conn, left, keys, values, body,
                  requests, listeners, heard, ends, thrown, damaged, split,
                  cut>>
  BY DEF ParseError, clientVars, parserVars, handlerVars
<1>2. expect' = "error" /\ chunk' = <<>> /\ span' = <<>>
  BY DEF ParseError
<1>3. HttpTypeOK'
  <2>1. <<>> \in Seq(Units)
    BY EmptySeq
  <2> QED BY <1>1, <1>2, <2>1 DEF HttpTypeOK, Expects
<1>4. (SpanInv /\ HeaderInv /\ NoWildHeader /\ EndInv)'
  BY <1>1, <1>2 DEF SpanInv, HeaderInv, NoWildHeader, EndInv, EndsOnce
<1> QED BY <1>3, <1>4

LEMMA ParseReturnsKeepsInv ==
    ASSUME HttpIInv, ParseReturns
    PROVE  HttpIInv'
<1> USE DEF HttpIInv
<1>1. UNCHANGED <<sent, client, taken, chunk, expect, left, requests,
                  listeners, heard, ends, thrown, damaged, cut>>
  BY DEF ParseReturns, clientVars, handlerVars
<1>2. /\ conn = "parsing" /\ conn' \in {"dead", "reading"} /\ span' = <<>>
      /\ split' = IF span = <<>> THEN split
                  ELSE split \cup {Len(requests) + 1}
  BY DEF ParseReturns
<1>3. /\ span = <<>> => UNCHANGED <<keys, values, body>>
      /\ span # <<>> => OnHeaderField(span) \/ OnHeaderValue(span)
  BY DEF ParseReturns, SpanInv, parserVars
<1>4. Len(requests) \in Nat /\ DOMAIN requests = 1..Len(requests)
  BY LenProperties DEF HttpTypeOK
<1>5. HttpTypeOK'
  <2>1. keys' \in Seq(Seq(Units)) /\ values' \in Seq(Seq(Units))
        /\ body' \in Seq(Units)
    <3>1. span \in Seq(Units)
      BY DEF HttpTypeOK
    <3> QED BY <1>3, <3>1, EntryType DEF HttpTypeOK
  <2>2. span' \in Seq(Units)
    BY <1>2, EmptySeq
  <2>3. split' \subseteq Nat
    <3>1. split \subseteq Nat
      BY DEF HttpTypeOK
    <3> DEFINE m == Len(requests) + 1
    <3>2. m \in Nat
      BY <1>4
    <3>3. split' = split \/ split' = split \cup {m}
      BY <1>2
    <3> HIDE DEF m
    <3> QED BY <3>1, <3>2, <3>3
  <2> QED BY <1>1, <1>2, <2>1, <2>2, <2>3 DEF HttpTypeOK, Conns
<1>6. SpanInv'
  BY <1>2 DEF SpanInv
<1>7. HeaderInv'
  <2>1. CASE span = <<>>
    BY <1>1, <1>2, <1>3, <2>1 DEF HeaderInv
  <2>2. CASE span # <<>>
    BY <1>1, <1>2, <2>2 DEF HeaderInv
  <2> QED BY <2>1, <2>2
<1>8. NoWildHeader'
  BY <1>1, <1>2 DEF NoWildHeader
<1>9. EndInv'
  BY <1>1, <1>2 DEF EndInv, EndsOnce
<1> QED BY <1>5, <1>6, <1>7, <1>8, <1>9

\* 'request': the headers of a request that no read has split have values.
LEMMA HeadersCompleteKeepsInv ==
    ASSUME HttpIInv, NEW listens \in BOOLEAN, NEW throws \in BOOLEAN,
           HeadersComplete(listens, throws)
    PROVE  HttpIInv'
<1> USE DEF HttpIInv
<1> DEFINE Requests == Seq(Names \X Values)
           m == Len(requests) + 1
<1>1. UNCHANGED <<sent, client, taken, conn, span, keys, values, body, heard,
                  ends, damaged, split, cut>>
  BY DEF HeadersComplete, clientVars, parserVars
<1>2. /\ chunk' \in Seq(Units) /\ left' \in Nat /\ conn = "parsing"
      /\ expect = "field" /\ expect' \in {"begin", "body"}
      /\ requests' = Append(requests, HeadersOf)
  BY ParseType DEF HeadersComplete
<1>3. /\ keys \in Seq(Seq(Units)) /\ values \in Seq(Seq(Units))
      /\ requests \in Seq(Requests) /\ listeners \in Seq(1..Len(requests))
      /\ thrown \in BOOLEAN
  BY DEF HttpTypeOK, Names, Values
<1>4. HeadersOf \in Requests
  BY <1>3, HeadersOfType
<1> HIDE DEF Requests
<1>5. /\ requests' \in Seq(Requests) /\ Len(requests') = m
      /\ Len(requests) \in Nat /\ DOMAIN requests = 1..Len(requests)
      /\ DOMAIN requests' = 1..m
      /\ \A i \in 1..Len(requests) : requests'[i] = requests[i]
      /\ requests'[m] = HeadersOf
  <2>1. Len(requests) \in Nat /\ DOMAIN requests = 1..Len(requests)
    BY <1>3, LenProperties
  <2> QED BY <1>2, <1>3, <1>4, <2>1, AppendProperties, LenProperties
<1>6. listeners' \in Seq(1..Len(requests'))
  <2>1. listeners \in Seq(1..m)
    BY <1>3, <1>5, SeqMonotonic
  <2>2. Append(listeners, m) \in Seq(1..m)
    BY <1>5, <2>1
  <2>3. listeners' = IF listens THEN Append(listeners, m) ELSE listeners
    BY <1>5 DEF HeadersComplete
  <2> QED BY <1>5, <2>1, <2>2, <2>3
<1>7. HttpTypeOK'
  <2>1. thrown' \in BOOLEAN
    BY <1>3 DEF HeadersComplete
  <2>2. requests' \in Seq(Seq(Seq(Units) \X (Seq(Units) \cup {Wild})))
    BY <1>5 DEF Requests, Names, Values
  <2>3. expect' \in Expects
    BY <1>2 DEF Expects
  <2> QED BY <1>1, <1>2, <1>6, <2>1, <2>2, <2>3 DEF HttpTypeOK
<1>8. SpanInv' /\ HeaderInv'
  BY <1>1, <1>2 DEF SpanInv, HeaderInv
<1>9. NoWildHeader'
  <2>1. SUFFICES ASSUME NEW k \in 1..m, k \notin split,
                        NEW i \in DOMAIN requests'[k]
                 PROVE  requests'[k][i][2] # Wild
    BY <1>1, <1>5 DEF NoWildHeader
  <2>2. CASE k \in 1..Len(requests)
    BY <1>5, <2>1, <2>2 DEF NoWildHeader
  <2>3. CASE k = m
    <3>1. Len(keys) = Len(values)
      <4>1. Len(keys) \in Nat /\ Len(values) \in Nat
        BY <1>3, LenProperties
      <4> QED BY <1>2, <2>1, <2>3, <4>1 DEF HeaderInv
    <3>2. requests'[k] = HeadersOf
      BY <1>5, <2>3
    <3>3. i \in 1..Len(keys)
      BY <1>3, <2>1, <3>2, HeadersOfType
    <3>4. HeadersOf[i][2] \in Seq(Units)
      BY <1>3, <3>1, <3>3, HeadersOfType
    <3> QED BY <3>2, <3>4, UnitType
  <2> QED BY <1>5, <2>1, <2>2, <2>3
<1>10. EndInv'
  BY <1>1 DEF EndInv, EndsOnce
<1> QED BY <1>7, <1>8, <1>9, <1>10

LEMMA BodyKeepsInv ==
    ASSUME HttpIInv, NEW upto \in 0..Messages, Body(upto)
    PROVE  HttpIInv'
<1> USE DEF HttpIInv
<1> DEFINE length == IF left < Len(chunk) THEN left ELSE Len(chunk)
           at == SubSeq(chunk, 1, length)
<1>1. UNCHANGED <<sent, client, taken, conn, span, keys, values, requests,
                  listeners, ends, damaged, split, cut>>
  BY DEF Body, clientVars
<1>2. /\ expect = "body" /\ expect' \in {"begin", "body"}
      /\ OnBody(at, upto) /\ left' = left - length
      /\ chunk' = SubSeq(chunk, length + 1, Len(chunk))
  BY DEF Body
<1>3. /\ chunk \in Seq(Units) /\ body \in Seq(Units) /\ left \in Nat
      /\ heard \in [1..Messages -> Seq(Units)] /\ thrown \in BOOLEAN
      /\ Len(chunk) \in Nat
  BY LenProperties DEF HttpTypeOK
<1>4. length \in Nat /\ length <= left /\ length <= Len(chunk)
  BY <1>3
<1> HIDE DEF length
<1>5. at \in Seq(Units) /\ chunk' \in Seq(Units) /\ left' \in Nat
  <2>1. \A i \in 1..Len(chunk) : chunk[i] \in Units
    BY <1>3, ElementOfSeq
  <2>2. \A i \in 1..length : chunk[i] \in Units
    BY <1>3, <1>4, <2>1
  <2>3. \A i \in (length + 1)..Len(chunk) : chunk[i] \in Units
    BY <1>3, <1>4, <2>1
  <2>4. at \in Seq(Units)
    BY <1>4, <2>2, SubSeqProperties
  <2>5. chunk' \in Seq(Units)
    BY <1>2, <1>3, <1>4, <2>3, SubSeqProperties
  <2> QED BY <1>2, <1>3, <1>4, <2>4, <2>5
<1> HIDE DEF at
<1>6. body' \in Seq(Units) /\ heard' \in [1..Messages -> Seq(Units)]
  <2>1. body \o at \in Seq(Units)
    BY <1>3, <1>5, ConcatProperties
  <2>2. \A k \in 1..Messages : heard[k] \o NewFromUtf8(at) \in Seq(Units)
    BY <1>3, <1>5, ConcatProperties, StringType
  <2> QED BY <1>2, <1>3, <2>1, <2>2 DEF OnBody
<1>7. HttpTypeOK'
  <2>1. thrown' \in BOOLEAN
    BY <1>3 DEF Body
  <2> QED BY <1>1, <1>2, <1>5, <1>6, <2>1 DEF HttpTypeOK, Expects
<1>8. (SpanInv /\ HeaderInv /\ NoWildHeader /\ EndInv)'
  BY <1>1, <1>2 DEF SpanInv, HeaderInv, NoWildHeader, EndInv, EndsOnce
<1> QED BY <1>7, <1>8

-----------------------------------------------------------------------------
(* Theorems *)

LEMMA HttpStep == HttpIInv /\ [Next]_vars => HttpIInv'
<1> SUFFICES ASSUME HttpIInv, [Next]_vars PROVE HttpIInv'
  OBVIOUS
<1>1. CASE \E b \in Bodies : Send(b)
  BY <1>1, ClientKeepsInv
<1>2. CASE \E how \in {"closed", "reset"} : Leave(how)
  BY <1>2, ClientKeepsInv
<1>3. CASE \E ok \in BOOLEAN : Accept(ok)
  BY <1>3, AcceptKeepsInv
<1>4. CASE \E n \in 1..BufferSize : ReadData(n)
  BY <1>4, ReadDataKeepsInv
<1>5. CASE \E upto \in 0..Messages : ReadEnd(upto) \/ Body(upto)
  BY <1>5, ReadEndKeepsInv, BodyKeepsInv
<1>6. CASE ReadFails
  BY <1>6, ReadFailsKeepsInv
<1>7. CASE MessageBegin \/ SpanGoesOn \/ SpanEnds
  BY <1>7, MessageBeginKeepsInv, SpanGoesOnKeepsInv, SpanEndsKeepsInv
<1>8. CASE \E listens, throws \in BOOLEAN : HeadersComplete(listens, throws)
  BY <1>8, HeadersCompleteKeepsInv
<1>9. CASE ParseError \/ ParseReturns
  BY <1>9, ParseErrorKeepsInv, ParseReturnsKeepsInv
<1>10. CASE UNCHANGED vars
  <2>1. UNCHANGED <<sent, client, taken, conn, chunk, expect, left, span,
                    keys, values, body, requests, listeners, heard, ends,
                    thrown, damaged, split, cut>>
    BY <1>10 DEF vars, clientVars, llhttpVars, parserVars, handlerVars
  <2>2. HttpTypeOK'
    BY <2>1 DEF HttpIInv, HttpTypeOK
  <2>3. (SpanInv /\ HeaderInv /\ NoWildHeader /\ EndInv)'
    BY <2>1 DEF HttpIInv, SpanInv, HeaderInv, NoWildHeader, EndInv, EndsOnce
  <2> QED BY <2>2, <2>3 DEF HttpIInv
<1> QED BY <1>1, <1>2, <1>3, <1>4, <1>5, <1>6, <1>7, <1>8, <1>9, <1>10
           DEF Next, ClientStep, ServerStep, Idle

LEMMA HttpInvariance == Spec => []HttpIInv
<1>1. Init => HttpIInv
  BY HttpInit
<1>2. HttpIInv /\ [Next]_vars => HttpIInv'
  BY HttpStep
<1> QED BY <1>1, <1>2, PTL DEF Spec

\* The types of the connection's state.
THEOREM HttpTypes == Spec => []HttpTypeOK
<1>1. HttpIInv => HttpTypeOK
  BY DEF HttpIInv
<1> QED BY <1>1, HttpInvariance, PTL

\* on_headers_complete reads values[i] out of its range only for a head that
\* a read has split within a name or a value, whatever the client sends and
\* whatever lies behind the buffer.
THEOREM NoWildHeaderUnlessSplit == Spec => []NoWildHeader
<1>1. HttpIInv => NoWildHeader
  BY DEF HttpIInv
<1> QED BY <1>1, HttpInvariance, PTL

\* No handler hears 'end' twice.
THEOREM EndIsEmittedOnce == Spec => []EndsOnce
<1>1. HttpIInv => EndsOnce
  BY DEF HttpIInv, EndInv
<1> QED BY <1>1, HttpInvariance, PTL
-----------------------------------------------------------------------------
(* What the parser makes of a stream that reaches it as it was sent        *)

\* The number of units the parser has consumed.
Done == taken - Len(chunk)

\* The head of message m begins at position q of stream s.
HeadAt(s, q, m) ==
    /\ s[q] = Unit("begin", m, 0)
    /\ q + 4 * Headers + 1 <= Len(s)
    /\ \A h \in 1..Headers :
         /\ s[q + 4 * h - 3] = Unit("field", m, h)
         /\ s[q + 4 * h - 2] = Unit("fieldEnd", m, h)
         /\ s[q + 4 * h - 1] = Unit("value", m, h)
         /\ s[q + 4 * h] = Unit("valueEnd", m, h)
    /\ s[q + 4 * Headers + 1].part = "end"
    /\ s[q + 4 * Headers + 1].msg = m

\* Its body follows the empty line at position e, and then the next message,
\* unless this is the last of n.
BodyAt(s, e, m, n) ==
    LET last == e + s[e].index
    IN  /\ last <= Len(s)
        /\ \A i \in e + 1..last :
             s[i].part \in BodyParts /\ s[i].msg = m
        /\ IF last < Len(s) THEN s[last + 1] = Unit("begin", m + 1, 0)
           ELSE m = n

\* A stream of n messages, numbered from 1.
IsStream(s, n) ==
    /\ IF s = <<>> THEN n = 0 ELSE s[1] = Unit("begin", 1, 0)
    /\ \A i \in DOMAIN s :
         /\ s[i].part = "begin" => HeadAt(s, i, s[i].msg)
         /\ s[i].part = "end" => BodyAt(s, i, s[i].msg, n)

StreamInv == IsStream(sent, Sent)

\* The chunk is what was read and not parsed.
ChunkInv ==
    /\ conn # "parsing" => chunk = <<>>
    /\ ~damaged =>
         /\ Len(chunk) <= taken
         /\ \A i \in 1..Len(chunk) : chunk[i] = sent[Done + i]
         /\ \A i \in 1..taken : sent[i].part # "nul"

\* The entries of the first h names and values of message m.
KeysOf(m, h) == [i \in 1..h |-> NameOf(m, i)]
ValuesOf(m, h) == [i \in 1..h |-> ValueOf(m, i)]

\* In the head that begins at q, h headers are parsed, and r units of the next.
InHead(q, h, r) ==
    LET m == Len(requests) + 1
    IN  /\ HeadAt(sent, q, m) /\ Done = q + 4 * h + r
        /\ r > 0 => h < Headers
        /\ expect = HeaderParts[r + 1]
        /\ m \notin split =>
             /\ keys = KeysOf(m, IF r > 1 THEN h + 1 ELSE h)
             /\ values = ValuesOf(m, h)
             /\ span = CASE r = 1 -> <<Unit("field", m, h + 1)>>
                         [] r = 3 -> <<Unit("value", m, h + 1)>>
                         [] OTHER -> <<>>

\* In the body of the message whose empty line is at e, or at its end.
InBody(e) ==
    /\ sent[e].part = "end" /\ sent[e].msg = Len(requests)
    /\ left = e + sent[e].index - Done
    /\ expect = IF left = 0 THEN "begin" ELSE "body"

\* The place of the parser in the stream.
PlaceInv ==
    ~damaged =>
        \/ Done = 0 /\ expect = "begin" /\ requests = <<>>
        \/ \E q \in 1..Done, h \in 0..Headers, r \in 0..3 : InHead(q, h, r)
        \/ \E e \in 1..Done : InBody(e)

\* The requests that were emitted.
RequestsInv ==
    ~damaged =>
        /\ Len(requests) = Cardinality(Heads)
        /\ \A m \in DOMAIN requests : m \notin split =>
             requests[m] =
               [h \in 1..Headers |-> <<NameOf(m, h), ValueOf(m, h)>>]

\* What the listeners heard: nothing was sent to those that are to come.
HeardInv ==
    ~damaged =>
        /\ \A m \in 1..Messages : m > Len(requests) => heard[m] = <<>>
        /\ \A i \in Parsed :
             sent[i].part \in TextParts => sent[i].msg <= Len(requests)
        /\ BodiesReachTheirHandlers

\* What was cut: a character each, at the end of a read.  The parser is never
\* within a character that is not cut.
CutInv ==
    ~damaged =>
        /\ \A i \in cut : Character(sent, i) /\ (i <= Done \/ i = taken)
        /\ \A i \in {Done, taken} : Character(sent, i) => i \in cut

StreamsInv ==
    StreamInv /\ ChunkInv /\ PlaceInv /\ RequestsInv /\ HeardInv /\ CutInv
-----------------------------------------------------------------------------
\* The units of two streams joined.
LEMMA Joined ==
    ASSUME NEW s \in Seq(Units), NEW t \in Seq(Units)
    PROVE  /\ s \o t \in Seq(Units)
           /\ Len(s) \in Nat /\ Len(t) \in Nat
           /\ Len(s \o t) = Len(s) + Len(t)
           /\ \A i \in 1..Len(s) : (s \o t)[i] = s[i]
           /\ \A i \in 1..Len(t) : (s \o t)[Len(s) + i] = t[i]
<1>1. Len(s) \in Nat /\ Len(t) \in Nat
  BY LenProperties
<1>2. \A i \in 1..Len(s) : i \in 1..Len(s) + Len(t) /\ i <= Len(s)
  BY <1>1
<1>3. \A i \in 1..Len(t) : /\ Len(s) + i \in 1..Len(s) + Len(t)
                           /\ ~(Len(s) + i <= Len(s))
                           /\ Len(s) + i - Len(s) = i
  BY <1>1
<1> QED BY <1>1, <1>2, <1>3, ConcatProperties

\* What a message consists of, by position.
LEMMA MessageIs ==
    ASSUME NEW m \in 1..Messages, NEW b \in Bodies
    PROVE  /\ Message(m, b) \in Seq(Units)
           /\ Len(b) \in Nat
           /\ Len(Message(m, b)) = 4 * Headers + 2 + Len(b)
           /\ Message(m, b)[1] = Unit("begin", m, 0)
           /\ \A h \in 1..Headers :
                /\ Message(m, b)[4 * h - 2] = Unit("field", m, h)
                /\ Message(m, b)[4 * h - 1] = Unit("fieldEnd", m, h)
                /\ Message(m, b)[4 * h] = Unit("value", m, h)
                /\ Message(m, b)[4 * h + 1] = Unit("valueEnd", m, h)
           /\ \A i \in 2..4 * Headers + 1 :
                Message(m, b)[i].part \in Range(HeaderParts)
           /\ Message(m, b)[4 * Headers + 2] = Unit("end", m, Len(b))
           /\ \A i \in 1..Len(b) :
                /\ b[i] \in BodyParts
                /\ Message(m, b)[4 * Headers + 2 + i] = Unit(b[i], m, i)
<1> DEFINE n == 4 * Headers
           first == <<Unit("begin", m, 0)>>
           head == [i \in 1..n |->
                      Unit(HeaderParts[1 + ((i - 1) % 4)], m,
                           1 + ((i - 1) \div 4))]
           line == <<Unit("end", m, Len(b))>>
           text == [i \in DOMAIN b |-> Unit(b[i], m, i)]
<1>1. b \in Seq(BodyParts) /\ Headers \in Nat
  BY HttpAssumption
<1>2. Len(b) \in Nat /\ DOMAIN b = 1..Len(b) /\ n \in Nat
  BY <1>1
<1>3. Len(first) = 1 /\ first[1] = Unit("begin", m, 0)
  OBVIOUS
<1>4. Len(line) = 1 /\ line[1] = Unit("end", m, Len(b))
  OBVIOUS
<1>5. Len(head) = n /\ \A i \in 1..n :
        head[i] = Unit(HeaderParts[1 + ((i - 1) % 4)], m,
                       1 + ((i - 1) \div 4))
  BY <1>2
<1>6. Len(text) = Len(b) /\ \A i \in 1..Len(b) : text[i] = Unit(b[i], m, i)
  BY <1>2
<1>7. \A h \in 1..Headers :
        /\ head[4 * h - 3] = Unit("field", m, h)
        /\ head[4 * h - 2] = Unit("fieldEnd", m, h)
        /\ head[4 * h - 1] = Unit("value", m, h)
        /\ head[4 * h] = Unit("valueEnd", m, h)
  <2>1. TAKE h \in 1..Headers
  <2>2. \A r \in 0..3 : 4 * h - 3 + r \in 1..n
    BY <1>1, <2>1
  <2>3. \A r \in 0..3 : (4 * h - 3 + r - 1) % 4 = r
                        /\ (4 * h - 3 + r - 1) \div 4 = h - 1
    BY <1>1, <2>1
  <2>4. 1 + (h - 1) = h
    BY <1>1
  <2> HIDE DEF head, n
  <2>8. \A r \in 0..3 : head[4 * h - 3 + r] = Unit(HeaderParts[1 + r], m, h)
    <3>1. TAKE r \in 0..3
    <3> DEFINE i == 4 * h - 3 + r
    <3>2. i \in 1..n /\ (i - 1) % 4 = r /\ 1 + ((i - 1) \div 4) = h
      BY <2>2, <2>3, <2>4
    <3> HIDE DEF i
    <3>3. head[i] = Unit(HeaderParts[1 + r], m, h)
      BY <1>5, <3>2
    <3> QED BY <3>3 DEF i
  <2>5. 4 * h - 3 + 0 = 4 * h - 3 /\ 4 * h - 3 + 1 = 4 * h - 2
        /\ 4 * h - 3 + 2 = 4 * h - 1 /\ 4 * h - 3 + 3 = 4 * h
    BY <1>1, <2>1
  <2>6. HeaderParts[1] = "field" /\ HeaderParts[2] = "fieldEnd"
        /\ HeaderParts[3] = "value" /\ HeaderParts[4] = "valueEnd"
    BY DEF HeaderParts
  <2>7. head[4 * h - 3 + 0] = Unit(HeaderParts[1 + 0], m, h)
        /\ head[4 * h - 3 + 1] = Unit(HeaderParts[1 + 1], m, h)
        /\ head[4 * h - 3 + 2] = Unit(HeaderParts[1 + 2], m, h)
        /\ head[4 * h - 3 + 3] = Unit(HeaderParts[1 + 3], m, h)
    BY <2>8
  <2> QED BY <2>5, <2>6, <2>7
<1>8. Message(m, b) = first \o head \o line \o text
  BY DEF Message
<1>9. Message(m, b) \in Seq(Units)
  BY MessageType
<1>10. /\ first \in Seq(Units) /\ head \in Seq(Units)
       /\ line \in Seq(Units) /\ text \in Seq(Units)
  BY MessageParts
<1> HIDE DEF first, head, line, text, n
<1> DEFINE begun == first \o head
           most == begun \o line
           all == most \o text
<1>11. /\ begun \in Seq(Units) /\ Len(begun) = 1 + n
       /\ begun[1] = Unit("begin", m, 0)
       /\ \A i \in 1..n : begun[1 + i] = head[i]
  <2>1. /\ begun \in Seq(Units) /\ Len(begun) = Len(first) + Len(head)
        /\ \A i \in 1..Len(first) : begun[i] = first[i]
        /\ \A i \in 1..Len(head) : begun[Len(first) + i] = head[i]
    BY <1>10, Joined
  <2> HIDE DEF begun
  <2>2. Len(head) = n /\ Len(first) = 1 /\ 1 \in 1..1
    BY <1>3, <1>5
  <2> QED BY <1>2, <1>3, <2>1, <2>2
<1> HIDE DEF begun
<1>12. /\ most \in Seq(Units) /\ Len(most) = n + 2
       /\ \A i \in 1..n + 1 : most[i] = begun[i]
       /\ most[n + 2] = Unit("end", m, Len(b))
  <2>1. /\ most \in Seq(Units) /\ Len(most) = Len(begun) + Len(line)
        /\ \A i \in 1..Len(begun) : most[i] = begun[i]
        /\ \A i \in 1..Len(line) : most[Len(begun) + i] = line[i]
    BY <1>10, <1>11, Joined
  <2> HIDE DEF most
  <2>2. Len(begun) + 1 = n + 2 /\ 1 + n = n + 1 /\ 1 \in 1..Len(line)
    BY <1>2, <1>4, <1>11
  <2> QED BY <1>2, <1>4, <1>11, <2>1, <2>2
<1> HIDE DEF most
<1>13. /\ Len(all) = n + 2 + Len(b)
       /\ \A i \in 1..n + 2 : all[i] = most[i]
       /\ \A i \in 1..Len(b) : all[n + 2 + i] = text[i]
  <2>1. /\ Len(all) = Len(most) + Len(text)
        /\ \A i \in 1..Len(most) : all[i] = most[i]
        /\ \A i \in 1..Len(text) : all[Len(most) + i] = text[i]
    BY <1>10, <1>12, Joined
  <2> HIDE DEF all
  <2> QED BY <1>2, <1>6, <1>12, <2>1
<1> HIDE DEF all
<1>14. Message(m, b) = all
  BY <1>8 DEF all, most, begun
<1>15. /\ Message(m, b)[1] = Unit("begin", m, 0)
       /\ \A i \in 1..n : Message(m, b)[1 + i] = head[i]
       /\ Message(m, b)[n + 2] = Unit("end", m, Len(b))
  <2>1. 1 \in 1..n + 1 /\ 1 \in 1..n + 2 /\ n + 2 \in 1..n + 2
    BY <1>2
  <2>2. \A i \in 1..n : 1 + i \in 1..n + 1 /\ 1 + i \in 1..n + 2
    BY <1>2
  <2> QED BY <1>11, <1>12, <1>13, <1>14, <2>1, <2>2
<1>16. ASSUME NEW h \in 1..Headers
       PROVE  /\ Message(m, b)[4 * h - 2] = Unit("field", m, h)
              /\ Message(m, b)[4 * h - 1] = Unit("fieldEnd", m, h)
              /\ Message(m, b)[4 * h] = Unit("value", m, h)
              /\ Message(m, b)[4 * h + 1] = Unit("valueEnd", m, h)
  <2>1. 1 + (4 * h - 3) = 4 * h - 2 /\ 1 + (4 * h - 2) = 4 * h - 1
        /\ 1 + (4 * h - 1) = 4 * h /\ 1 + (4 * h - 0) = 4 * h + 1
        /\ 4 * h - 0 = 4 * h
    BY <1>1
  <2>2. \A r \in 0..3 : 4 * h - r \in 1..n
    BY <1>1 DEF n
  <2>3. \A r \in 0..3 : Message(m, b)[1 + (4 * h - r)] = head[4 * h - r]
    BY <1>15, <2>2
  <2>4. /\ Message(m, b)[1 + (4 * h - 3)] = head[4 * h - 3]
        /\ Message(m, b)[1 + (4 * h - 2)] = head[4 * h - 2]
        /\ Message(m, b)[1 + (4 * h - 1)] = head[4 * h - 1]
        /\ Message(m, b)[1 + (4 * h - 0)] = head[4 * h - 0]
    BY <2>3
  <2> QED BY <1>7, <2>1, <2>4
<1>17. ASSUME NEW i \in 1..Len(b)
       PROVE  /\ b[i] \in BodyParts
              /\ Message(m, b)[n + 2 + i] = Unit(b[i], m, i)
  BY <1>1, <1>6, <1>13, <1>14, ElementOfSeq
<1>18. ASSUME NEW i \in 2..n + 1
       PROVE  Message(m, b)[i].part \in Range(HeaderParts)
  <2> DEFINE j == i - 1
  <2>1. j \in 1..n /\ 1 + j = i
    BY <1>2
  <2>2. 1 + ((j - 1) % 4) \in 1..4
    BY <1>2, <2>1
  <2>3. \A k \in 1..4 : HeaderParts[k] \in Range(HeaderParts)
    BY DEF HeaderParts, Range
  <2>4. Message(m, b)[i] = Unit(HeaderParts[1 + ((j - 1) % 4)], m,
                                1 + ((j - 1) \div 4))
    BY <1>5, <1>15, <2>1
  <2> QED BY <2>2, <2>3, <2>4 DEF Unit
<1> QED BY <1>2, <1>9, <1>13, <1>14, <1>15, <1>16, <1>17, <1>18 DEF n

LEMMA UnitIs ==
    \A part, m, i : /\ Unit(part, m, i).part = part
                    /\ Unit(part, m, i).msg = m
                    /\ Unit(part, m, i).index = i
BY DEF Unit

\* A stream that goes on keeps its heads, and its bodies that another message
\* follows.
LEMMA StreamStays ==
    ASSUME NEW s \in Seq(Units), NEW t \in Seq(Units), NEW k \in Nat,
           NEW n \in Nat, Len(s) <= Len(t),
           \A i \in 1..Len(s) : t[i] = s[i]
    PROVE  /\ \A q \in 1..Len(s), m \in Nat :
                HeadAt(s, q, m) => HeadAt(t, q, m)
           /\ \A e \in 1..Len(s), m \in Nat :
                BodyAt(s, e, m, k) /\ e + s[e].index < Len(s) =>
                    BodyAt(t, e, m, n)
<1>1. Len(s) \in Nat /\ Len(t) \in Nat /\ Headers \in Nat
  BY HttpAssumption
<1>2. ASSUME NEW q \in 1..Len(s), NEW m \in Nat, HeadAt(s, q, m)
      PROVE  HeadAt(t, q, m)
  <2>1. q + 4 * Headers + 1 \in 1..Len(s)
    BY <1>1, <1>2 DEF HeadAt
  <2>2. \A h \in 1..Headers :
          /\ q + 4 * h - 3 \in 1..Len(s) /\ q + 4 * h - 2 \in 1..Len(s)
          /\ q + 4 * h - 1 \in 1..Len(s) /\ q + 4 * h \in 1..Len(s)
    BY <1>1, <2>1
  <2>3. q + 4 * Headers + 1 <= Len(t)
    BY <1>1, <2>1
  <2> QED BY <1>2, <2>1, <2>2, <2>3 DEF HeadAt
<1>3. ASSUME NEW e \in 1..Len(s), NEW m \in Nat, BodyAt(s, e, m, k),
             e + s[e].index < Len(s)
      PROVE  BodyAt(t, e, m, n)
  <2>1. s[e] \in Units
    BY ElementOfSeq
  <2>2. s[e].index \in Nat
    BY <2>1 DEF Units
  <2> DEFINE last == e + s[e].index
  <2>3. /\ last \in 1..Len(s) /\ last + 1 \in 1..Len(s)
        /\ e + t[e].index = last
        /\ \A i \in e + 1..last : i \in 1..Len(s)
    <3>1. t[e] = s[e] /\ last < Len(s)
      BY <1>3
    <3>2. last \in Nat /\ e + t[e].index = last /\ last >= 1
      BY <2>2, <3>1
    <3> HIDE DEF last
    <3> QED BY <1>1, <3>1, <3>2
  <2>4. /\ \A i \in e + 1..last :
             s[i].part \in BodyParts /\ s[i].msg = m
        /\ s[last + 1] = Unit("begin", m + 1, 0)
    BY <1>3 DEF BodyAt
  <2>5. last < Len(t) /\ last <= Len(t)
    BY <1>1, <1>3, <2>3
  <2> HIDE DEF last
  <2>6. /\ \A i \in e + 1..last :
             t[i].part \in BodyParts /\ t[i].msg = m
        /\ t[last + 1] = Unit("begin", m + 1, 0)
    BY <2>3, <2>4
  <2> QED BY <2>3, <2>5, <2>6 DEF BodyAt
<1> QED BY <1>2, <1>3

\* A stream and one message more.
LEMMA OneMore ==
    ASSUME NEW s \in Seq(Units), NEW k \in Nat, k + 1 \in 1..Messages,
           NEW b \in Bodies, IsStream(s, k)
    PROVE  LET t == s \o Message(k + 1, b)
           IN  /\ IsStream(t, k + 1)
               /\ {i \in DOMAIN t : t[i].part = "begin"} =
                    {i \in DOMAIN s : s[i].part = "begin"} \cup {Len(s) + 1}
<1>a. SUFFICES ASSUME NEW t, t = s \o Message(k + 1, b)
               PROVE  /\ IsStream(t, k + 1)
                      /\ {i \in DOMAIN t : t[i].part = "begin"} =
                           {i \in DOMAIN s : s[i].part = "begin"}
                             \cup {Len(s) + 1}
  BY Zenon
<1>b. PICK m \in 1..Messages : m = k + 1
  OBVIOUS
<1>c. PICK M : M = Message(m, b)
  OBVIOUS
<1>d. PICK L \in Nat : L = Len(s)
  BY LenProperties
<1>e. PICK last \in Nat : last = 4 * Headers + 2
  BY HttpAssumption
<1>f. t = s \o M
  BY <1>a, <1>b, <1>c
<1>1. /\ M \in Seq(Units) /\ t \in Seq(Units) /\ L \in Nat
      /\ Headers \in Nat /\ Len(b) \in Nat /\ last > 1
      /\ last = 4 * Headers + 2 /\ m = k + 1 /\ m \in Nat /\ L = Len(s)
      /\ Len(t) = L + last + Len(b)
      /\ \A i \in 1..L : t[i] = s[i]
      /\ \A i \in 1..last + Len(b) : t[L + i] = M[i]
  <2>1. /\ M \in Seq(Units) /\ Len(M) = last + Len(b) /\ Len(b) \in Nat
        /\ Headers \in Nat /\ last = 4 * Headers + 2
    BY <1>c, <1>e, MessageIs, HttpAssumption
  <2>2. /\ t \in Seq(Units) /\ L \in Nat /\ Len(t) = L + Len(M)
        /\ \A i \in 1..L : t[i] = s[i]
        /\ \A i \in 1..Len(M) : t[L + i] = M[i]
    BY <1>d, <1>f, <2>1, Joined
  <2>3. last > 1 /\ Len(t) = L + last + Len(b)
    BY <2>1, <2>2
  <2>4. \A i \in 1..last + Len(b) : t[L + i] = M[i]
    BY <2>1, <2>2
  <2>5. m = k + 1 /\ m \in Nat /\ L = Len(s)
    BY <1>b, <1>d
  <2> QED BY <2>1, <2>2, <2>3, <2>4, <2>5
<1>2. /\ M[1] = Unit("begin", m, 0)
      /\ \A i \in 2..last - 1 : M[i].part \in Range(HeaderParts)
      /\ M[last] = Unit("end", m, Len(b))
  <2>1. last - 1 = 4 * Headers + 1
    BY <1>1
  <2> QED BY <1>c, <1>e, <2>1, MessageIs
<1>3. \A h \in 1..Headers :
        /\ M[4 * h - 2] = Unit("field", m, h)
        /\ M[4 * h - 1] = Unit("fieldEnd", m, h)
        /\ M[4 * h] = Unit("value", m, h)
        /\ M[4 * h + 1] = Unit("valueEnd", m, h)
  BY <1>c, <1>e, MessageIs
<1>4. \A i \in 1..Len(b) :
        b[i] \in BodyParts /\ M[last + i] = Unit(b[i], m, i)
  BY <1>c, <1>e, MessageIs
<1>5. /\ t[L + 1] = Unit("begin", m, 0)
      /\ t[L + last] = Unit("end", m, Len(b))
  <2>1. 1 \in 1..last + Len(b) /\ last \in 1..last + Len(b)
    BY <1>1
  <2> QED BY <1>1, <1>2, <2>1
<1>6. ASSUME NEW i \in 2..last - 1
      PROVE  t[L + i].part \notin {"begin", "end"}
  <2>1. "begin" \notin Range(HeaderParts) /\ "end" \notin Range(HeaderParts)
    BY DEF HeaderParts, Range
  <2>2. i \in 1..last + Len(b)
    BY <1>1
  <2> QED BY <1>1, <1>2, <2>1, <2>2
<1>7. ASSUME NEW i \in 1..Len(b)
      PROVE  /\ t[L + last + i].part \in BodyParts
             /\ t[L + last + i].msg = m
  <2>1. last + i \in 1..last + Len(b) /\ L + (last + i) = L + last + i
    BY <1>1
  <2>2. t[L + last + i] = Unit(b[i], m, i)
    BY <1>1, <1>4, <2>1
  <2> QED BY <1>4, <2>2, UnitIs
<1>8. ASSUME NEW h \in 1..Headers
      PROVE  /\ t[L + 1 + 4 * h - 3] = Unit("field", m, h)
             /\ t[L + 1 + 4 * h - 2] = Unit("fieldEnd", m, h)
             /\ t[L + 1 + 4 * h - 1] = Unit("value", m, h)
             /\ t[L + 1 + 4 * h] = Unit("valueEnd", m, h)
  <2>1. /\ 4 * h - 2 \in 1..last + Len(b) /\ 4 * h - 1 \in 1..last + Len(b)
        /\ 4 * h \in 1..last + Len(b) /\ 4 * h + 1 \in 1..last + Len(b)
    BY <1>1
  <2>2. /\ L + (4 * h - 2) = L + 1 + 4 * h - 3
        /\ L + (4 * h - 1) = L + 1 + 4 * h - 2
        /\ L + (4 * h) = L + 1 + 4 * h - 1
        /\ L + (4 * h + 1) = L + 1 + 4 * h
    BY <1>1
  <2>3. /\ t[L + (4 * h - 2)] = M[4 * h - 2]
        /\ t[L + (4 * h - 1)] = M[4 * h - 1]
        /\ t[L + (4 * h)] = M[4 * h]
        /\ t[L + (4 * h + 1)] = M[4 * h + 1]
    BY <1>1, <2>1
  <2> QED BY <1>3, <2>2, <2>3
<1>9. HeadAt(t, L + 1, m)
  <2>1. L + 1 + 4 * Headers + 1 = L + last /\ L + last <= Len(t)
    BY <1>1
  <2>2. t[L + last].part = "end" /\ t[L + last].msg = m
    BY <1>5, UnitIs
  <2> QED BY <1>5, <1>8, <2>1, <2>2 DEF HeadAt
<1>10. BodyAt(t, L + last, m, m)
  <2>1. t[L + last].index = Len(b)
    BY <1>5, UnitIs
  <2>2. L + last + t[L + last].index = Len(t)
    BY <1>1, <2>1
  <2>3. \A i \in L + last + 1..Len(t) :
          i - (L + last) \in 1..Len(b) /\ L + last + (i - (L + last)) = i
    BY <1>1
  <2>4. \A i \in L + last + 1..Len(t) :
          t[i].part \in BodyParts /\ t[i].msg = m
    BY <1>7, <2>3
  <2>5. Len(t) <= Len(t) /\ ~(Len(t) < Len(t))
    BY <1>1
  <2> QED BY <2>2, <2>4, <2>5 DEF BodyAt
<1>11. DOMAIN s = 1..L /\ DOMAIN t = 1..L + last + Len(b)
  BY <1>1
<1>12. ASSUME NEW i \in 1..L
       PROVE  /\ t[i].part = "begin" => HeadAt(t, i, t[i].msg)
              /\ t[i].part = "end" => BodyAt(t, i, t[i].msg, m)
  <2>1. t[i] = s[i] /\ s[i] \in Units /\ i \in DOMAIN s
    BY <1>1, <1>11, ElementOfSeq
  <2>2. s[i].msg \in Nat /\ s[i].index \in Nat
    BY <2>1, HttpAssumption DEF Units
  <2>3. Len(s) <= Len(t) /\ m \in Nat
    BY <1>1
  <2>4. CASE s[i].part = "begin"
    <3>1. HeadAt(s, i, s[i].msg)
      BY <2>1, <2>4 DEF IsStream
    <3>2. HeadAt(t, i, s[i].msg)
      BY <1>1, <2>2, <2>3, <3>1, StreamStays
    <3> QED BY <2>1, <2>4, <3>2
  <2>5. CASE s[i].part = "end"
    <3>1. BodyAt(s, i, s[i].msg, k)
      BY <2>1, <2>5 DEF IsStream
    <3>2. CASE i + s[i].index < Len(s)
      <4>1. BodyAt(t, i, s[i].msg, m)
        BY <1>1, <2>2, <2>3, <3>1, <3>2, StreamStays
      <4> QED BY <2>1, <2>5, <4>1
    <3>3. CASE ~(i + s[i].index < Len(s))
      <4>1. i + s[i].index = L /\ s[i].msg = k
        BY <1>1, <2>2, <3>1, <3>3 DEF BodyAt
      <4>2. /\ i + t[i].index = L /\ L <= Len(t) /\ L < Len(t)
            /\ t[L + 1] = Unit("begin", k + 1, 0)
        BY <1>1, <1>5, <2>1, <4>1
      <4>3. \A j \in i + 1..L : j \in 1..L
        BY <1>1
      <4>4. \A j \in i + 1..L :
              s[j].part \in BodyParts /\ s[j].msg = k
        BY <3>1, <4>1 DEF BodyAt
      <4>5. \A j \in i + 1..L :
              t[j].part \in BodyParts /\ t[j].msg = k
        BY <1>1, <4>3, <4>4
      <4>6. BodyAt(t, i, k, m)
        BY <4>2, <4>5 DEF BodyAt
      <4> QED BY <2>1, <2>5, <4>1, <4>6
    <3> QED BY <3>2, <3>3
  <2> QED BY <2>1, <2>4, <2>5
<1>13. ASSUME NEW i \in 1..last + Len(b)
       PROVE  /\ t[L + i].part = "begin" =>
                   HeadAt(t, L + i, t[L + i].msg) /\ i = 1
              /\ t[L + i].part = "end" =>
                   BodyAt(t, L + i, t[L + i].msg, m)
  <2>1. CASE i = 1
    <3>1. t[L + i].msg = m /\ t[L + i].part = "begin"
      BY <1>5, <2>1, UnitIs
    <3> QED BY <1>9, <2>1, <3>1
  <2>2. CASE i \in 2..last - 1
    BY <1>6, <2>2
  <2>3. CASE i = last
    <3>1. t[L + i].msg = m /\ t[L + i].part = "end"
      BY <1>5, <2>3, UnitIs
    <3> QED BY <1>10, <2>3, <3>1
  <2>4. CASE i > last
    <3>1. i - last \in 1..Len(b) /\ L + last + (i - last) = L + i
      BY <1>1, <2>4
    <3>2. t[L + i].part \in BodyParts
      BY <1>7, <3>1
    <3> QED BY <3>2
  <2>5. i = 1 \/ i \in 2..last - 1 \/ i = last \/ i > last
    BY <1>1
  <2> QED BY <2>1, <2>2, <2>3, <2>4, <2>5
<1>14. \A i \in DOMAIN t : i \in 1..L \/ \E j \in 1..last + Len(b) : i = L + j
  <2>1. TAKE i \in DOMAIN t
  <2>2. i \in 1..L \/ (i - L \in 1..last + Len(b) /\ i = L + (i - L))
    BY <1>1, <1>11
  <2> QED BY <2>2
<1>15. \A i \in DOMAIN t :
         /\ t[i].part = "begin" => HeadAt(t, i, t[i].msg)
         /\ t[i].part = "end" => BodyAt(t, i, t[i].msg, m)
  BY <1>12, <1>13, <1>14
<1>16. t # <<>> /\ t[1] = Unit("begin", 1, 0)
  <2>1. Len(t) > 0
    BY <1>1
  <2>2. CASE s = <<>>
    <3>1. k = 0 /\ Len(s) = 0
      BY <2>2, EmptySeq DEF IsStream
    <3>2. L = 0 /\ m = 1
      BY <1>1, <3>1
    <3> QED BY <1>5, <2>1, <3>2
  <2>3. CASE s # <<>>
    <3>1. s[1] = Unit("begin", 1, 0)
      BY <2>3 DEF IsStream
    <3>2. 1 \in 1..L
      BY <1>1, <2>3
    <3> QED BY <1>1, <2>1, <3>1, <3>2
  <2> QED BY <2>2, <2>3
<1>17. {i \in DOMAIN t : t[i].part = "begin"} =
         {i \in DOMAIN s : s[i].part = "begin"} \cup {L + 1}
  <2>1. ASSUME NEW i \in DOMAIN t, t[i].part = "begin"
        PROVE  \/ i \in DOMAIN s /\ s[i].part = "begin"
               \/ i = L + 1
    BY <1>1, <1>11, <1>13, <1>14, <2>1
  <2>2. ASSUME NEW i \in DOMAIN s, s[i].part = "begin"
        PROVE  i \in DOMAIN t /\ t[i].part = "begin"
    BY <1>1, <1>11, <2>2
  <2>3. L + 1 \in DOMAIN t /\ t[L + 1].part = "begin"
    BY <1>1, <1>5, <1>11, UnitIs
  <2> QED BY <2>1, <2>2, <2>3
<1> QED BY <1>1, <1>15, <1>16, <1>17 DEF IsStream

LEMMA SendKeepsStream ==
    ASSUME HttpTypeOK, StreamInv, NEW b \in Bodies, Send(b)
    PROVE  StreamInv'
<1> DEFINE Begins(s) == {i \in DOMAIN s : s[i].part = "begin"}
<1>1. sent \in Seq(Units) /\ Sent \in Nat /\ Sent + 1 \in 1..Messages
  <2>1. sent \in Seq(Units) /\ Sent < Messages /\ Messages \in Nat
    BY HttpAssumption DEF HttpTypeOK, Send
  <2>2. Sent \in Nat
    BY <2>1, SentType
  <2> HIDE DEF Sent
  <2> QED BY <2>1, <2>2
<1>2. /\ IsStream(sent', Sent + 1)
      /\ Begins(sent') = Begins(sent) \cup {Len(sent) + 1}
  <2>1. IsStream(sent, Sent) /\ sent' = sent \o Message(Sent + 1, b)
    BY DEF StreamInv, Send
  <2> HIDE DEF Sent
  <2>2. PICK t : t = sent \o Message(Sent + 1, b)
    OBVIOUS
  <2>3. /\ IsStream(t, Sent + 1)
        /\ {i \in DOMAIN t : t[i].part = "begin"} =
             {i \in DOMAIN sent : sent[i].part = "begin"}
               \cup {Len(sent) + 1}
    BY <1>1, <2>1, <2>2, OneMore
  <2>4. t = sent'
    BY <2>1, <2>2
  <2> QED BY <2>3, <2>4
<1>3. Len(sent) \in Nat /\ DOMAIN sent = 1..Len(sent)
  BY <1>1
<1>4. Len(sent) + 1 \notin Begins(sent)
  BY <1>3
<1>5. IsFiniteSet(Begins(sent))
  <2>1. IsFiniteSet(1..Len(sent))
    BY <1>3, FS_Interval
  <2> QED BY <1>3, <2>1, FS_Subset
<1>6. Cardinality(Begins(sent')) = Cardinality(Begins(sent)) + 1
  BY <1>2, <1>4, <1>5, FS_AddElement
<1>7. Sent' = Sent + 1
  BY <1>6 DEF Sent
<1> QED BY <1>2, <1>7 DEF StreamInv

\* Numbers and units of the stream.
LEMMA StreamTypes ==
    ASSUME HttpTypeOK
    PROVE  /\ sent \in Seq(Units) /\ Len(sent) \in Nat /\ Sent \in Nat
           /\ DOMAIN sent = 1..Len(sent)
           /\ taken \in Nat /\ taken <= Len(sent)
           /\ chunk \in Seq(Units) /\ Len(chunk) \in Nat
           /\ Done \in Int /\ Done <= taken
           /\ Headers \in Nat /\ Messages \in Nat
           /\ Len(requests) \in Nat /\ DOMAIN requests = 1..Len(requests)
           /\ \A i \in 1..Len(sent) :
                /\ sent[i].part \in Parts /\ sent[i].msg \in 0..Messages
                /\ sent[i].index \in Nat
<1>1. sent \in Seq(Units) /\ Len(sent) \in Nat /\ DOMAIN sent = 1..Len(sent)
  BY LenProperties DEF HttpTypeOK
<1>2. taken \in Nat /\ taken <= Len(sent)
  BY <1>1 DEF HttpTypeOK
<1>3. chunk \in Seq(Units) /\ Len(chunk) \in Nat
  BY LenProperties DEF HttpTypeOK
<1>4. Done \in Int /\ Done <= taken
  BY <1>2, <1>3 DEF Done
<1>5. Len(requests) \in Nat /\ DOMAIN requests = 1..Len(requests)
  BY LenProperties DEF HttpTypeOK
<1>6. \A i \in 1..Len(sent) : sent[i] \in Units
  BY <1>1, ElementOfSeq
<1>7. \A i \in 1..Len(sent) :
        /\ sent[i].part \in Parts /\ sent[i].msg \in 0..Messages
        /\ sent[i].index \in Nat
  BY <1>6 DEF Units
<1> QED BY <1>1, <1>2, <1>3, <1>4, <1>5, <1>7, SentType, HttpAssumption

\* What the parser takes next is the next unit of the stream.
LEMMA NextUnit ==
    ASSUME HttpTypeOK, ChunkInv, ~damaged, chunk # <<>>
    PROVE  /\ Done \in Nat /\ Done + 1 \in 1..taken /\ Done + 1 \in 1..Len(sent)
           /\ Head(chunk) = sent[Done + 1]
           /\ Head(chunk).part # "nul"
<1>1. Len(chunk) \in Nat \ {0} /\ Head(chunk) = chunk[1]
  BY StreamTypes, EmptySeq
<1>2. /\ Len(chunk) <= taken
      /\ \A i \in 1..Len(chunk) : chunk[i] = sent[Done + i]
      /\ \A i \in 1..taken : sent[i].part # "nul"
  BY DEF ChunkInv
<1>3. Done \in Nat /\ Done + 1 \in 1..taken /\ Done + 1 \in 1..Len(sent)
  BY <1>1, <1>2, StreamTypes DEF Done
<1>4. Head(chunk) = sent[Done + 1]
  BY <1>1, <1>2
<1> QED BY <1>2, <1>3, <1>4

\* It has taken one unit.
LEMMA OneParsed ==
    ASSUME HttpTypeOK, ChunkInv, chunk # <<>>, chunk' = Tail(chunk),
           UNCHANGED <<sent, taken, conn, damaged>>, conn = "parsing"
    PROVE  /\ ChunkInv' /\ Done' = Done + 1
<1>1. /\ Len(chunk') = Len(chunk) - 1
      /\ \A i \in 1..Len(chunk') : chunk'[i] = chunk[i + 1]
  BY StreamTypes, HeadTailProperties
<1>2. Len(chunk) \in Nat /\ Len(chunk) > 0 /\ taken \in Nat
  BY StreamTypes, EmptySeq
<1>3. Done' = Done + 1
  BY <1>1, <1>2 DEF Done
<1>4. ASSUME ~damaged'
      PROVE  /\ Len(chunk') <= taken'
             /\ \A i \in 1..Len(chunk') : chunk'[i] = sent'[Done' + i]
             /\ \A i \in 1..taken' : sent'[i].part # "nul"
  <2>1. /\ Len(chunk) <= taken
        /\ \A i \in 1..Len(chunk) : chunk[i] = sent[Done + i]
        /\ \A i \in 1..taken : sent[i].part # "nul"
    BY <1>4 DEF ChunkInv
  <2>2. ASSUME NEW i \in 1..Len(chunk') PROVE chunk'[i] = sent[Done' + i]
    <3>1. i + 1 \in 1..Len(chunk) /\ Done + (i + 1) = Done' + i
      BY <1>1, <1>2, <1>3, StreamTypes
    <3> QED BY <1>1, <2>1, <3>1
  <2> QED BY <1>1, <1>2, <2>1, <2>2
<1> QED BY <1>3, <1>4 DEF ChunkInv

\* While the parser stands still, or consumes neither the end of a head nor
\* text, the requests and what was heard of the stream are as they were.
LEMMA ParsedStays ==
    ASSUME HttpTypeOK, RequestsInv, HeardInv, ~damaged, Done \in Nat,
           Done' \in Nat, Done <= Done',
           \A i \in 1..Done : sent'[i] = sent[i],
           \A i \in Done + 1..Done' :
             sent'[i].part \notin TextParts \cup {"end"},
           \A i \in 1..Done : Shown(i)' = Shown(i),
           UNCHANGED <<requests, listeners, heard>>,
           split \subseteq split', thrown => thrown'
    PROVE  RequestsInv' /\ HeardInv'
<1>1. Parsed = 1..Done /\ Parsed' = 1..Done'
  BY DEF Parsed, Done
<1>2. \A i : i \in 1..Done' <=> i \in 1..Done \/ i \in Done + 1..Done'
  OBVIOUS
<1>3. Heads' = Heads
  BY <1>1, <1>2 DEF Heads
<1>4. \A m : Texts(m)' = Texts(m)
  <2>1. TAKE m
  <2>2. Texts(m)' = {i \in 1..Done' :
                       sent'[i].part \in TextParts /\ sent'[i].msg >= m}
    BY <1>1 DEF Texts
  <2>3. Texts(m) = {i \in 1..Done :
                       sent[i].part \in TextParts /\ sent[i].msg >= m}
    BY <1>1 DEF Texts
  <2> QED BY <1>2, <2>2, <2>3
<1>5. RequestsInv'
  BY <1>3 DEF RequestsInv
<1>6. \A m \in 1..Messages : m > Len(requests') => heard'[m] = <<>>
  BY DEF HeardInv
<1>7. \A i \in Parsed' :
        sent'[i].part \in TextParts => sent'[i].msg <= Len(requests')
  BY <1>1, <1>2 DEF HeardInv
<1>8. ASSUME ~thrown', NEW m \in {listeners[i] : i \in DOMAIN listeners}
      PROVE  Selects(heard[m], Texts(m))'
  <2>1. Selects(heard[m], Texts(m))
    BY <1>8 DEF HeardInv, BodiesReachTheirHandlers
  <2>2. \A i \in Texts(m) : Shown(i)' = Shown(i)
    BY <1>1 DEF Texts
  <2>3. Texts(m)' = Texts(m)
    BY <1>4
  <2> QED BY <2>1, <2>2, <2>3 DEF Selects
<1>9. BodiesReachTheirHandlers'
  BY <1>8 DEF BodiesReachTheirHandlers
<1> QED BY <1>5, <1>6, <1>7, <1>9 DEF HeardInv

\* What is shown of the stream depends on it and on where it was cut.
LEMMA ShownStays ==
    ASSUME UNCHANGED <<sent, cut>>
    PROVE  \A i : Shown(i)' = Shown(i)
BY DEF Shown, Whole, Character

\* The parser moves on to a place that is not within a character, or where one
\* was cut.
LEMMA CutStays ==
    ASSUME CutInv, ~damaged, Done \in Nat, Done' \in Nat, Done <= Done',
           cut \subseteq Nat, UNCHANGED <<sent, taken, cut>>,
           Character(sent, Done') => Done' \in cut
    PROVE  CutInv'
BY DEF CutInv, Character

\* The parser stays where it is, in a stream that may go on.
LEMMA PlaceStays ==
    ASSUME HttpTypeOK, PlaceInv, ~damaged, sent' \in Seq(Units),
           Len(sent) <= Len(sent'), \A i \in 1..Len(sent) : sent'[i] = sent[i],
           Done' = Done,
           UNCHANGED <<expect, left, span, keys, values, requests, split>>
    PROVE  PlaceInv'
<1>1. \A i \in 1..Done : i \in 1..Len(sent)
  BY StreamTypes
<1>2. CASE Done = 0 /\ expect = "begin" /\ requests = <<>>
  BY <1>2 DEF PlaceInv
<1>3. ASSUME NEW q \in 1..Done, NEW h \in 0..Headers, NEW r \in 0..3,
             InHead(q, h, r)
      PROVE  InHead(q, h, r)'
  <2>1. Len(requests) + 1 \in Nat /\ HeadAt(sent, q, Len(requests) + 1)
    BY <1>3, StreamTypes DEF InHead
  <2>2. HeadAt(sent', q, Len(requests) + 1)
    BY <1>1, <2>1, StreamStays, StreamTypes
  <2> QED BY <1>3, <2>2 DEF InHead
<1>4. ASSUME NEW e \in 1..Done, InBody(e)
      PROVE  InBody(e)'
  BY <1>1, <1>4 DEF InBody
<1> QED BY <1>2, <1>3, <1>4 DEF PlaceInv

\* Steps of the client, of accept and of the end of the connection.
LEMMA ParserStands ==
    ASSUME HttpIInv, StreamsInv,
           UNCHANGED <<sent, taken, chunk, expect, left, span, keys, values,
                       requests, listeners, heard, thrown, damaged, split,
                       cut>>,
           conn' = conn \/ conn # "parsing"
    PROVE  StreamsInv'
<1>1. HttpTypeOK
  BY DEF HttpIInv
<1>2. Done' = Done /\ Sent' = Sent
  BY DEF Done, Sent
<1>3. StreamInv'
  BY <1>2 DEF StreamsInv, StreamInv
<1>4. ChunkInv'
  BY <1>2 DEF StreamsInv, ChunkInv
<1>5. CASE damaged
  BY <1>3, <1>4, <1>5 DEF StreamsInv, PlaceInv, RequestsInv, HeardInv, CutInv
<1>6. CASE ~damaged
  <2>1. Done \in Nat
    <3>1. Len(chunk) <= taken
      BY <1>6 DEF StreamsInv, ChunkInv
    <3> QED BY <1>1, <3>1, StreamTypes DEF Done
  <2>2. PlaceInv'
    BY <1>1, <1>2, <1>6, PlaceStays, StreamTypes DEF StreamsInv
  <2>3. RequestsInv' /\ HeardInv'
    <3>1. \A i \in Done + 1..Done' : FALSE
      BY <1>2, <2>1
    <3>2. Done <= Done'
      BY <1>2, <2>1
    <3> QED BY <1>1, <1>2, <1>6, <2>1, <3>1, <3>2, ParsedStays, ShownStays
            DEF StreamsInv
  <2>4. CutInv'
    BY <1>2 DEF StreamsInv, CutInv, Character
  <2> QED BY <1>3, <1>4, <2>2, <2>3, <2>4 DEF StreamsInv
<1> QED BY <1>5, <1>6

\* The client sends a message behind what it has sent.
LEMMA SendKeepsStreams ==
    ASSUME HttpIInv, StreamsInv, NEW b \in Bodies, Send(b)
    PROVE  StreamsInv'
<1>1. HttpTypeOK
  BY DEF HttpIInv
<1>2. UNCHANGED <<taken, conn, chunk, expect, left, span, keys, values,
                  requests, listeners, heard, thrown, damaged, split, cut>>
  BY DEF Send, llhttpVars, parserVars, handlerVars
<1>3. Done' = Done
  BY <1>2 DEF Done
<1>4. StreamInv'
  BY <1>1, SendKeepsStream DEF StreamsInv
<1>5. /\ sent' \in Seq(Units) /\ Len(sent) < Len(sent')
      /\ \A i \in 1..Len(sent) : sent'[i] = sent[i]
      /\ sent'[Len(sent) + 1].part = "begin"
  <2>1. Sent \in Nat /\ Sent + 1 \in 1..Messages
    <3>1. Sent \in Nat /\ Messages \in Nat /\ Sent < Messages
      BY <1>1, StreamTypes DEF Send
    <3> HIDE DEF Sent
    <3> QED BY <3>1
  <2>2. Message(Sent + 1, b) \in Seq(Units)
    BY <2>1, MessageType
  <2>3. sent' = sent \o Message(Sent + 1, b)
    BY DEF Send
  <2> DEFINE M == Message(Sent + 1, b)
  <2> HIDE DEF M
  <2>4. /\ sent \o M \in Seq(Units) /\ Len(sent) \in Nat /\ Len(M) \in Nat
        /\ Len(sent \o M) = Len(sent) + Len(M)
        /\ \A i \in 1..Len(sent) : (sent \o M)[i] = sent[i]
        /\ \A i \in 1..Len(M) : (sent \o M)[Len(sent) + i] = M[i]
    BY <1>1, <2>2, Joined, StreamTypes DEF M
  <2>5. sent' = sent \o M
    BY <2>3 DEF M
  <2>6. 1 \in 1..Len(M) /\ M[1].part = "begin"
    <3>1. PICK m \in 1..Messages : m = Sent + 1
      BY <2>1
    <3>2. M = Message(m, b)
      BY <3>1 DEF M
    <3>3. /\ Len(M) = 4 * Headers + 2 + Len(b) /\ Len(b) \in Nat
          /\ Headers \in Nat /\ M[1] = Unit("begin", m, 0)
      BY <3>2, MessageIs, HttpAssumption
    <3> QED BY <3>3, UnitIs
  <2> QED BY <2>4, <2>5, <2>6
<1>6. ChunkInv'
  <2>1. \A i \in 1..taken : i \in 1..Len(sent)
    BY <1>1, StreamTypes
  <2>2. ASSUME ~damaged PROVE \A i \in 1..Len(chunk) : Done + i \in 1..taken
    <3>1. Len(chunk) <= taken
      BY <2>2 DEF StreamsInv, ChunkInv
    <3> QED BY <1>1, <3>1, StreamTypes DEF Done
  <2> QED BY <1>2, <1>3, <1>5, <2>1, <2>2 DEF StreamsInv, ChunkInv
<1>7. CASE damaged
  BY <1>2, <1>4, <1>6, <1>7
     DEF StreamsInv, PlaceInv, RequestsInv, HeardInv, CutInv
<1>8. CASE ~damaged
  <2>1. Done \in Nat
    <3>1. Len(chunk) <= taken
      BY <1>8 DEF StreamsInv, ChunkInv
    <3> QED BY <1>1, <3>1, StreamTypes DEF Done
  <2>2. PlaceInv'
    <3>1. Len(sent) <= Len(sent')
      BY <1>1, <1>5, StreamTypes
    <3> QED BY <1>1, <1>2, <1>3, <1>5, <1>8, <3>1, PlaceStays DEF StreamsInv
  <2>4. \A i : i <= Len(sent) => Character(sent', i) = Character(sent, i)
    <3>1. /\ Len(sent) \in Nat /\ Len(sent') \in Nat
          /\ DOMAIN sent = 1..Len(sent) /\ DOMAIN sent' = 1..Len(sent')
      BY <1>1, <1>5, StreamTypes, LenProperties
    <3>2. \A i \in 1..Len(sent) : Character(sent', i) = Character(sent, i)
      BY <1>5, <3>1 DEF Character
    <3> QED BY <1>5, <3>1, <3>2 DEF Character
  <2>3. RequestsInv' /\ HeardInv'
    <3>1. \A i \in Done + 1..Done' : FALSE
      BY <1>3, <2>1
    <3>2. Done <= Done'
      BY <1>3, <2>1
    <3>3. \A i \in 1..Done : sent'[i] = sent[i]
      BY <1>1, <1>5, StreamTypes
    <3>4. ASSUME NEW i \in 1..Done PROVE Shown(i)' = Shown(i)
      <4>1. i <= Len(sent) /\ i - 1 <= Len(sent)
        BY <1>1, <2>1, StreamTypes
      <4>2. /\ Character(sent', i) = Character(sent, i)
            /\ Character(sent', i - 1) = Character(sent, i - 1)
        BY <2>4, <4>1
      <4>3. sent'[i] = sent[i] /\ cut' = cut
        BY <1>2, <3>3
      <4> HIDE DEF Done
      <4> QED BY <4>2, <4>3 DEF Shown, Whole
    <3> QED BY <1>1, <1>2, <1>3, <1>8, <2>1, <3>1, <3>2, <3>3, <3>4,
               ParsedStays
            DEF StreamsInv
  <2>5. CutInv'
    <3>1. Done <= Len(sent) /\ taken <= Len(sent)
      BY <1>1, StreamTypes
    <3>2. /\ \A i \in cut : Character(sent, i) /\ (i <= Done \/ i = taken)
          /\ \A i \in {Done, taken} : Character(sent, i) => i \in cut
      BY <1>8 DEF StreamsInv, CutInv
    <3>3. \A i \in cut : i \in DOMAIN sent /\ i <= Len(sent)
      BY <1>1, <3>2, StreamTypes DEF Character
    <3>4. /\ \A i \in cut : Character(sent', i)
          /\ \A i \in {Done, taken} : Character(sent', i) => i \in cut
      BY <2>4, <3>1, <3>2, <3>3
    <3> QED BY <1>2, <1>3, <3>2, <3>4 DEF CutInv
  <2> QED BY <1>4, <1>6, <2>2, <2>3, <2>5 DEF StreamsInv
<1> QED BY <1>7, <1>8

\* A read: what reaches the parser undamaged has no NUL.
LEMMA ReadDataKeepsStreams ==
    ASSUME HttpIInv, StreamsInv, NEW n \in 1..BufferSize, ReadData(n)
    PROVE  StreamsInv'
<1> DEFINE units == SubSeq(sent, taken + 1, taken + n)
<1>1. HttpTypeOK /\ HttpTypeOK'
  BY ReadDataKeepsInv DEF HttpIInv
<1>2. UNCHANGED <<sent, expect, left, span, keys, values, requests, listeners,
                  heard, thrown, split>>
  BY DEF ReadData, clientVars, llhttpVars, parserVars, handlerVars
<1>3. /\ conn = "reading" /\ conn' = "parsing" /\ taken' = taken + n
      /\ taken \in Nat /\ taken + n <= Len(sent) /\ n \in Nat /\ n > 0
      /\ chunk' \in Strings(units)
      /\ damaged' = (damaged \/ chunk' # units)
  BY <1>1, StreamTypes, HttpAssumption DEF ReadData
<1>4. chunk = <<>> /\ Len(chunk) = 0 /\ Done = taken
  BY <1>1, <1>3, EmptySeq, StreamTypes DEF StreamsInv, ChunkInv, Done
<1>5. /\ units \in Seq(Units) /\ Len(units) = n
      /\ \A i \in 1..n : units[i] = sent[taken + i]
  <2>1. \A i \in taken + 1..taken + n : sent[i] \in Units
    BY <1>1, <1>3, ElementOfSeq, StreamTypes
  <2>2. /\ taken + 1 \in Int /\ taken + n \in Int /\ taken + 1 <= taken + n
        /\ taken + n - (taken + 1) + 1 = n
        /\ \A i \in 1..n : taken + 1 + i - 1 = taken + i
    BY <1>3
  <2> QED BY <2>1, <2>2, SubSeqProperties
<1>6. Sent' = Sent /\ StreamInv'
  BY <1>2 DEF StreamsInv, StreamInv, Sent
<1> HIDE DEF units
<1>7. ASSUME ~damaged'
      PROVE  /\ ~damaged /\ chunk' = units /\ Done' = Done
             /\ \A i \in 1..n : units[i].part # "nul"
  <2>1. ~damaged /\ chunk' = units
    BY <1>3, <1>7
  <2>2. Done' = taken + n - n
    <3>1. Done' = taken' - Len(chunk')
      BY DEF Done
    <3> QED BY <1>3, <1>5, <2>1, <3>1
  <2>3. Done' = Done
    BY <1>3, <1>4, <2>2
  <2>4. ASSUME NEW j \in 1..n, units[j].part = "nul" PROVE FALSE
    <3> DEFINE nuls == {i \in DOMAIN units : units[i].part = "nul"}
    <3>1. nuls # {} /\ DOMAIN units = 1..n
      BY <1>5, <2>4, LenProperties
    <3>2. PICK i \in nuls : chunk' = SubSeq(units, 1, i - 1)
      BY <1>3, <3>1 DEF Strings
    <3>3. i \in 1..n /\ i - 1 \in Int
      BY <3>1
    <3>4. \A k \in 1..i - 1 : units[k] \in Units
      BY <1>3, <1>5, <3>3, ElementOfSeq
    <3>5. Len(chunk') = IF 1 <= i - 1 THEN i - 1 - 1 + 1 ELSE 0
      BY <3>2, <3>3, <3>4, SubSeqProperties
    <3>6. Len(chunk') < n
      BY <1>3, <3>3, <3>5
    <3> QED BY <1>3, <1>5, <2>1, <3>6
  <2> QED BY <2>1, <2>3, <2>4
<1>8. ChunkInv'
  <2>1. ASSUME ~damaged'
        PROVE  /\ Len(chunk') <= taken'
               /\ \A i \in 1..Len(chunk') : chunk'[i] = sent'[Done' + i]
               /\ \A i \in 1..taken' : sent'[i].part # "nul"
    <3>1. \A i \in 1..taken : sent[i].part # "nul"
      BY <1>7, <2>1 DEF StreamsInv, ChunkInv
    <3>2. \A i \in 1..taken' : i \in 1..taken \/ (i - taken \in 1..n
                                                /\ taken + (i - taken) = i)
      BY <1>1, <1>3, StreamTypes
    <3>3. Len(chunk') = n /\ n <= taken'
      BY <1>1, <1>3, <1>5, <1>7, <2>1, StreamTypes
    <3>4. \A i \in 1..taken' : sent'[i].part # "nul"
      BY <1>2, <1>5, <1>7, <2>1, <3>1, <3>2
    <3> QED BY <1>2, <1>4, <1>5, <1>7, <2>1, <3>3, <3>4
  <2> QED BY <1>3, <2>1 DEF ChunkInv
<1>9. CASE damaged'
  BY <1>6, <1>8, <1>9 DEF StreamsInv, PlaceInv, RequestsInv, HeardInv, CutInv
<1>10. CASE ~damaged'
  <2>1. Done \in Nat /\ Done' = Done /\ ~damaged
    BY <1>1, <1>4, <1>7, <1>10, StreamTypes
  <2>2. PlaceInv'
    BY <1>1, <1>2, <2>1, PlaceStays, StreamTypes DEF StreamsInv
  <2>3. RequestsInv' /\ HeardInv'
    <3>1. \A i \in Done + 1..Done' : FALSE
      BY <2>1
    <3>2. Done <= Done'
      BY <2>1
    <3>3. \A i \in 1..Done : i # taken' /\ i - 1 # taken'
      BY <1>3, <1>4
    <3>4. \A i \in 1..Done : Shown(i)' = Shown(i)
      BY <1>2, <3>3 DEF ReadData, Shown, Whole, Character
    <3> QED BY <1>1, <1>2, <2>1, <3>1, <3>2, <3>4, ParsedStays DEF StreamsInv
  <2>4. CutInv'
    <3>1. \A i \in cut : Character(sent, i) /\ i <= Done
      BY <1>3, <1>4, <2>1 DEF StreamsInv, CutInv
    <3>2. Character(sent, Done) => Done \in cut
      BY <2>1 DEF StreamsInv, CutInv
    <3>3. cut' = IF Character(sent, taken') THEN cut \cup {taken'} ELSE cut
      BY DEF ReadData
    <3> QED BY <1>2, <2>1, <3>1, <3>2, <3>3 DEF CutInv
  <2> QED BY <1>6, <1>8, <2>2, <2>3, <2>4 DEF StreamsInv
<1> QED BY <1>9, <1>10

\* The parts of a header, by the number of them that are parsed.
LEMMA PartsAre ==
    /\ HeaderParts[1] = "field" /\ HeaderParts[2] = "fieldEnd"
    /\ HeaderParts[3] = "value" /\ HeaderParts[4] = "valueEnd"
BY DEF HeaderParts

\* What comes next within a head.
LEMMA NextInHead ==
    ASSUME HttpTypeOK, ChunkInv, ~damaged, chunk # <<>>,
           NEW q \in 1..Done, NEW h \in 0..Headers, NEW r \in 0..3,
           InHead(q, h, r)
    PROVE  LET m == Len(requests) + 1
           IN  \/ /\ r = 0 /\ h = Headers
                  /\ Head(chunk).part = "end" /\ Head(chunk).msg = m
               \/ /\ h < Headers
                  /\ Head(chunk) = Unit(HeaderParts[r + 1], m, h + 1)
<1> DEFINE m == Len(requests) + 1
<1>1. /\ Done \in Nat /\ Head(chunk) = sent[Done + 1]
      /\ Headers \in Nat /\ h \in Nat /\ q \in Nat
      /\ Done = q + 4 * h + r /\ (r > 0 => h < Headers)
      /\ HeadAt(sent, q, m)
  BY NextUnit, StreamTypes DEF InHead
<1>2. CASE r = 0 /\ h = Headers
  <2>1. Done + 1 = q + 4 * Headers + 1
    BY <1>1, <1>2
  <2> QED BY <1>1, <1>2, <2>1 DEF HeadAt
<1>3. CASE h < Headers
  <2> DEFINE k == h + 1
  <2>1. k \in 1..Headers
    BY <1>1, <1>3
  <2>2. /\ r = 0 => Done + 1 = q + 4 * k - 3
        /\ r = 1 => Done + 1 = q + 4 * k - 2
        /\ r = 2 => Done + 1 = q + 4 * k - 1
        /\ r = 3 => Done + 1 = q + 4 * k
    BY <1>1
  <2> HIDE DEF k
  <2>3. /\ sent[q + 4 * k - 3] = Unit("field", m, k)
        /\ sent[q + 4 * k - 2] = Unit("fieldEnd", m, k)
        /\ sent[q + 4 * k - 1] = Unit("value", m, k)
        /\ sent[q + 4 * k] = Unit("valueEnd", m, k)
    BY <1>1, <2>1 DEF HeadAt
  <2>4. r = 0 \/ r = 1 \/ r = 2 \/ r = 3
    OBVIOUS
  <2>5. sent[Done + 1] = Unit(HeaderParts[r + 1], m, k)
    BY <2>2, <2>3, <2>4, PartsAre
  <2> QED BY <1>1, <1>3, <2>5 DEF k
<1>4. (r = 0 /\ h = Headers) \/ h < Headers
  BY <1>1
<1> QED BY <1>2, <1>3, <1>4

\* What comes next within a body, and after it.
LEMMA NextInBody ==
    ASSUME HttpTypeOK, StreamInv, ChunkInv, ~damaged,
           NEW e \in 1..Done, InBody(e)
    PROVE  /\ left \in Nat /\ Done + left <= Len(sent)
           /\ \A i \in Done + 1..Done + left :
                /\ sent[i].part \in BodyParts
                /\ sent[i].msg = Len(requests)
           /\ Done + left < Len(sent) =>
                sent[Done + left + 1] = Unit("begin", Len(requests) + 1, 0)
           /\ left = 0 /\ chunk # <<>> =>
                sent[Done + 1] = Unit("begin", Len(requests) + 1, 0)
<1>1. /\ Done \in Int /\ Done <= Len(sent) /\ Len(sent) \in Nat
      /\ e \in 1..Len(sent) /\ e <= Done /\ e \in DOMAIN sent
  BY StreamTypes
<1>2. sent[e].index \in Nat /\ sent[e].part = "end"
      /\ sent[e].msg = Len(requests) /\ left = e + sent[e].index - Done
      /\ left \in Nat
  BY <1>1, StreamTypes DEF InBody, HttpTypeOK
<1>3. BodyAt(sent, e, Len(requests), Sent)
  BY <1>1, <1>2 DEF StreamInv, IsStream
<1> DEFINE last == e + sent[e].index
<1>4. last = Done + left /\ last \in Nat
  BY <1>1, <1>2
<1>5. /\ last <= Len(sent)
      /\ \A i \in e + 1..last :
           sent[i].part \in BodyParts /\ sent[i].msg = Len(requests)
      /\ last < Len(sent) =>
           sent[last + 1] = Unit("begin", Len(requests) + 1, 0)
  BY <1>3 DEF BodyAt
<1> HIDE DEF last
<1>6. \A i \in Done + 1..Done + left : i \in e + 1..last
  BY <1>1, <1>2, <1>4
<1>7. ASSUME left = 0, chunk # <<>>
      PROVE  sent[Done + 1] = Unit("begin", Len(requests) + 1, 0)
  <2>1. Done + 1 \in 1..Len(sent) /\ Done + 1 = last + 1
    BY <1>1, <1>4, <1>7, NextUnit
  <2>2. last < Len(sent)
    BY <1>1, <1>4, <2>1
  <2> QED BY <1>5, <2>1, <2>2
<1>8. \A i \in Done + 1..Done + left :
        sent[i].part \in BodyParts /\ sent[i].msg = Len(requests)
  BY <1>5, <1>6
<1> QED BY <1>2, <1>4, <1>5, <1>7, <1>8

\* What comes next between two messages and before the first.
LEMMA NextBetween ==
    ASSUME HttpTypeOK, StreamInv, ChunkInv, PlaceInv, ~damaged, chunk # <<>>,
           expect = "begin"
    PROVE  /\ Head(chunk) = Unit("begin", Len(requests) + 1, 0)
           /\ HeadAt(sent, Done + 1, Len(requests) + 1)
<1>1. /\ Done \in Nat /\ Head(chunk) = sent[Done + 1]
      /\ Done + 1 \in 1..Len(sent) /\ Done + 1 \in DOMAIN sent
  BY NextUnit, StreamTypes
<1>2. CASE Done = 0 /\ requests = <<>>
  <2>1. sent # <<>>
    BY <1>1, EmptySeq, StreamTypes
  <2>2. sent[1] = Unit("begin", 1, 0)
    BY <2>1 DEF StreamInv, IsStream
  <2>3. Len(requests) + 1 = 1 /\ Done + 1 = 1
    BY <1>2, EmptySeq
  <2>4. sent[Done + 1] = Unit("begin", Len(requests) + 1, 0)
    BY <2>2, <2>3
  <2> QED BY <1>1, <2>4, UnitIs DEF StreamInv, IsStream
<1>3. ASSUME NEW e \in 1..Done, InBody(e)
      PROVE  sent[Done + 1] = Unit("begin", Len(requests) + 1, 0)
  <2>1. left = 0
    BY <1>3 DEF InBody
  <2> QED BY <1>3, <2>1, NextInBody
<1>4. ASSUME NEW q \in 1..Done, NEW h \in 0..Headers, NEW r \in 0..3,
             InHead(q, h, r)
      PROVE  FALSE
  <2>1. expect = HeaderParts[r + 1]
    BY <1>4 DEF InHead
  <2>2. r = 0 \/ r = 1 \/ r = 2 \/ r = 3
    OBVIOUS
  <2> QED BY <2>1, <2>2, PartsAre
<1>5. CASE \E e \in 1..Done : InBody(e)
  <2>1. sent[Done + 1] = Unit("begin", Len(requests) + 1, 0)
    BY <1>3, <1>5
  <2> QED BY <1>1, <2>1, UnitIs DEF StreamInv, IsStream
<1> QED BY <1>2, <1>4, <1>5 DEF PlaceInv

\* The parser is within a head when it expects a part of one, and within a
\* body when it expects that.
LEMMA PlaceOfHead ==
    ASSUME HttpTypeOK, PlaceInv, ~damaged, expect \in Range(HeaderParts)
    PROVE  \E q \in 1..Done, h \in 0..Headers, r \in 0..3 : InHead(q, h, r)
<1>1. expect # "begin" /\ expect # "body"
  BY DEF HeaderParts, Range
<1> QED BY <1>1 DEF PlaceInv, InBody

LEMMA PlaceOfBody ==
    ASSUME HttpTypeOK, PlaceInv, ~damaged, expect = "body"
    PROVE  \E e \in 1..Done : InBody(e) /\ left # 0
<1>1. ASSUME NEW q \in 1..Done, NEW h \in 0..Headers, NEW r \in 0..3,
             InHead(q, h, r)
      PROVE  FALSE
  <2>1. expect = HeaderParts[r + 1]
    BY <1>1 DEF InHead
  <2>2. r = 0 \/ r = 1 \/ r = 2 \/ r = 3
    OBVIOUS
  <2> QED BY <2>1, <2>2, PartsAre
<1>2. PICK e \in 1..Done : InBody(e)
  BY <1>1 DEF PlaceInv
<1>3. left # 0
  BY <1>2 DEF InBody
<1> QED BY <1>2, <1>3

\* One unit of a head is parsed.
LEMMA HeadParsed ==
    ASSUME HttpTypeOK, StreamsInv, ~damaged, chunk # <<>>,
           chunk' = Tail(chunk), conn = "parsing",
           UNCHANGED <<sent, taken, conn, requests, listeners, heard, thrown,
                       damaged, split, cut>>,
           Head(chunk).part \notin TextParts \cup {"end"}
    PROVE  /\ StreamInv' /\ ChunkInv' /\ RequestsInv' /\ HeardInv' /\ CutInv'
           /\ Done \in Nat /\ Done' = Done + 1
<1>1. Done \in Nat /\ Head(chunk) = sent[Done + 1]
  BY NextUnit DEF StreamsInv
<1>2. Done' = Done + 1 /\ ChunkInv'
  BY OneParsed DEF StreamsInv
<1>3. Sent' = Sent /\ StreamInv'
  BY DEF StreamsInv, StreamInv, Sent
<1>4. \A i \in Done + 1..Done' : i = Done + 1
  BY <1>1, <1>2
<1>5. /\ Done' \in Nat /\ Done <= Done' /\ \A i \in 1..Done : sent'[i] = sent[i]
      /\ \A i \in Done + 1..Done' : sent'[i].part \notin TextParts \cup {"end"}
      /\ split \subseteq split' /\ thrown => thrown'
  BY <1>1, <1>2, <1>4
<1>6. RequestsInv' /\ HeardInv'
  BY <1>1, <1>5, ParsedStays, ShownStays DEF StreamsInv
<1>7. CutInv'
  <2>1. ~Character(sent, Done')
    BY <1>1, <1>2 DEF Character
  <2> QED BY <1>5, <1>1, <2>1, CutStays DEF StreamsInv, HttpTypeOK
<1> QED BY <1>1, <1>2, <1>3, <1>6, <1>7

\* Once something was damaged only the stream and the place of the chunk
\* matter.
LEMMA DamagedKeeps ==
    ASSUME HttpTypeOK, StreamsInv, damaged,
           UNCHANGED <<sent, damaged>>,
           (conn' = conn /\ conn = "parsing") \/ chunk' = <<>>
    PROVE  StreamsInv'
<1>1. Sent' = Sent /\ StreamInv'
  BY DEF StreamsInv, StreamInv, Sent
<1> QED BY <1>1
        DEF StreamsInv, ChunkInv, PlaceInv, RequestsInv, HeardInv, CutInv

\* on_message_begin: the members are clear for the head that begins.
LEMMA MessageBeginKeepsStreams ==
    ASSUME HttpIInv, StreamsInv, MessageBegin
    PROVE  StreamsInv'
<1>1. HttpTypeOK
  BY DEF HttpIInv
<1>2. /\ conn = "parsing" /\ chunk # <<>> /\ chunk' = Tail(chunk)
      /\ Head(chunk).part = "begin" /\ expect = "begin" /\ expect' = "field"
      /\ keys' = <<>> /\ values' = <<>>
      /\ UNCHANGED <<sent, taken, conn, left, span, requests, listeners, heard,
                     thrown, damaged, split, cut>>
  BY DEF MessageBegin, Parse, clientVars, handlerVars
<1>3. CASE damaged
  BY <1>1, <1>2, <1>3, DamagedKeeps
<1>4. CASE ~damaged
  <2>1. /\ StreamInv' /\ ChunkInv' /\ RequestsInv' /\ HeardInv' /\ CutInv'
        /\ Done \in Nat /\ Done' = Done + 1
    BY <1>1, <1>2, <1>4, HeadParsed
  <2> DEFINE q == Done + 1
             m == Len(requests) + 1
  <2>2. HeadAt(sent, q, m)
    BY <1>1, <1>2, <1>4, NextBetween DEF StreamsInv
  <2>3. q \in 1..Done' /\ Done' = q + 4 * 0 + 0 /\ 0 \in 0..Headers /\ 0 \in 0..3
    BY <1>1, <2>1, StreamTypes
  <2>4. expect' = HeaderParts[0 + 1]
    BY <1>2, PartsAre
  <2>5. keys' = KeysOf(m, 0) /\ values' = ValuesOf(m, 0)
    BY <1>2 DEF KeysOf, ValuesOf
  <2>6. span' = <<>>
    BY <1>2 DEF HttpIInv, SpanInv
  <2>7. PICK p \in 1..Done' : p = q
    BY <2>3
  <2>8. InHead(p, 0, 0)'
    BY <1>2, <2>2, <2>3, <2>4, <2>5, <2>6, <2>7 DEF InHead
  <2>9. PlaceInv'
    BY <2>3, <2>8 DEF PlaceInv
  <2> QED BY <2>1, <2>9 DEF StreamsInv
<1> QED BY <1>3, <1>4

\* The first half of a name or of a value.
LEMMA SpanGoesOnKeepsStreams ==
    ASSUME HttpIInv, StreamsInv, SpanGoesOn
    PROVE  StreamsInv'
<1>1. HttpTypeOK
  BY DEF HttpIInv
<1>2. /\ conn = "parsing" /\ chunk # <<>> /\ chunk' = Tail(chunk)
      /\ span' = Append(span, Head(chunk))
      /\ UNCHANGED <<sent, taken, conn, left, keys, values, requests,
                     listeners, heard, thrown, damaged, split, cut>>
  BY DEF SpanGoesOn, Parse, clientVars, parserVars, handlerVars
<1>3. \/ Head(chunk).part = "field" /\ expect = "field" /\ expect' = "fieldEnd"
      \/ Head(chunk).part = "value" /\ expect = "value" /\ expect' = "valueEnd"
      \/ Head(chunk).part = "junk" /\ expect \in {"fieldEnd", "valueEnd"}
  BY DEF SpanGoesOn, Parse
<1>4. CASE damaged
  BY <1>1, <1>2, <1>4, DamagedKeeps
<1>5. CASE ~damaged
  <2>1. /\ StreamInv' /\ ChunkInv' /\ RequestsInv' /\ HeardInv' /\ CutInv'
        /\ Done \in Nat /\ Done' = Done + 1
    <3>1. Head(chunk).part \notin TextParts \cup {"end"}
      BY <1>3
    <3> QED BY <1>1, <1>2, <1>5, <3>1, HeadParsed
  <2>2. PICK q \in 1..Done, h \in 0..Headers, r \in 0..3 : InHead(q, h, r)
    <3>1. expect \in Range(HeaderParts)
      BY <1>3 DEF HeaderParts, Range
    <3> QED BY <1>1, <1>5, <3>1, PlaceOfHead DEF StreamsInv
  <2> DEFINE m == Len(requests) + 1
  <2>3. /\ HeadAt(sent, q, m) /\ Done = q + 4 * h + r
        /\ expect = HeaderParts[r + 1]
        /\ m \notin split =>
             /\ keys = KeysOf(m, IF r > 1 THEN h + 1 ELSE h)
             /\ values = ValuesOf(m, h)
             /\ span = CASE r = 1 -> <<Unit("field", m, h + 1)>>
                         [] r = 3 -> <<Unit("value", m, h + 1)>>
                         [] OTHER -> <<>>
    BY <2>2 DEF InHead
  <2>4. /\ h < Headers
        /\ Head(chunk) = Unit(HeaderParts[r + 1], m, h + 1)
        /\ Head(chunk).part = HeaderParts[r + 1]
    <3>1. Head(chunk).part # "end"
      BY <1>3
    <3> QED BY <1>1, <1>2, <1>5, <2>2, <3>1, NextInHead, UnitIs DEF StreamsInv
  <2>5. /\ r = 0 \/ r = 2
        /\ expect' = HeaderParts[r + 2]
    <3>1. r = 0 \/ r = 1 \/ r = 2 \/ r = 3
      OBVIOUS
    <3>2. /\ HeaderParts[0 + 1] = "field" /\ HeaderParts[1 + 1] = "fieldEnd"
          /\ HeaderParts[2 + 1] = "value" /\ HeaderParts[3 + 1] = "valueEnd"
          /\ HeaderParts[0 + 2] = "fieldEnd" /\ HeaderParts[2 + 2] = "valueEnd"
      BY PartsAre
    <3> QED BY <1>3, <2>3, <2>4, <3>1, <3>2
  <2>6. PICK s \in 1..3 : s = r + 1
    BY <2>5
  <2>7. /\ Done' = q + 4 * h + s /\ s + 1 = r + 2 /\ s # 2
        /\ q \in 1..Done' /\ s \in 0..3
    <3>1. Done \in Nat /\ Done' = Done + 1 /\ Done = q + 4 * h + r
      BY <2>1, <2>3
    <3>2. h \in Nat /\ q \in Nat
      BY <1>1, <3>1, StreamTypes
    <3> QED BY <2>5, <2>6, <3>1, <3>2
  <2>8. ASSUME m \notin split
        PROVE  /\ keys' = KeysOf(m, IF s > 1 THEN h + 1 ELSE h)
               /\ values' = ValuesOf(m, h)
               /\ span' = CASE s = 1 -> <<Unit("field", m, h + 1)>>
                            [] s = 3 -> <<Unit("value", m, h + 1)>>
                            [] OTHER -> <<>>
    <3>1. CASE r = 0
      <4>1. s = 1 /\ ~(s > 1) /\ ~(r > 1) /\ r # 1 /\ r # 3
        BY <2>6, <3>1
      <4>2. span = <<>> /\ keys = KeysOf(m, h) /\ values = ValuesOf(m, h)
        BY <2>3, <2>8, <4>1
      <4>3. Head(chunk) = Unit("field", m, h + 1)
        BY <2>4, <3>1, PartsAre
      <4>4. span' = <<Unit("field", m, h + 1)>>
        BY <1>2, <4>2, <4>3
      <4> QED BY <1>2, <4>1, <4>2, <4>4
    <3>2. CASE r = 2
      <4>1. s = 3 /\ s > 1 /\ r > 1 /\ r # 1 /\ r # 3
        BY <2>6, <3>2
      <4>2. span = <<>> /\ keys = KeysOf(m, h + 1) /\ values = ValuesOf(m, h)
        BY <2>3, <2>8, <4>1
      <4>3. Head(chunk) = Unit("value", m, h + 1)
        BY <2>4, <3>2, PartsAre
      <4>4. span' = <<Unit("value", m, h + 1)>>
        BY <1>2, <4>2, <4>3
      <4> QED BY <1>2, <4>1, <4>2, <4>4
    <3> QED BY <2>5, <3>1, <3>2
  <2>9. expect' = HeaderParts[s + 1]
    BY <2>5, <2>7
  <2>10. InHead(q, h, s)'
    BY <1>2, <2>3, <2>4, <2>7, <2>8, <2>9 DEF InHead
  <2>11. PlaceInv'
    BY <2>7, <2>10 DEF PlaceInv
  <2> QED BY <2>1, <2>11 DEF StreamsInv
<1> QED BY <1>4, <1>5

\* The entry that a name or value adds, if no read has split it.
LEMMA EntriesGrow ==
    ASSUME NEW m, NEW h \in Nat
    PROVE  /\ Append(KeysOf(m, h), NameOf(m, h + 1)) = KeysOf(m, h + 1)
           /\ Append(ValuesOf(m, h), ValueOf(m, h + 1)) = ValuesOf(m, h + 1)
<1>1. /\ KeysOf(m, h) \in Seq({NameOf(m, i) : i \in 1..h + 1})
      /\ Len(KeysOf(m, h)) = h
  BY DEF KeysOf
<1> QED BY <1>1 DEF KeysOf, ValuesOf

\* Two units are a name or a value.
LEMMA Pair ==
    ASSUME NEW a, NEW b
    PROVE  Append(<<a>>, b) = <<a, b>>
<1> DEFINE S == {a, b}
<1>1. /\ <<a>> \in Seq(S) /\ b \in S /\ Len(<<a>>) = 1 /\ <<a>>[1] = a
      /\ <<a, b>> \in Seq(S) /\ Len(<<a, b>>) = 2
      /\ <<a, b>>[1] = a /\ <<a, b>>[2] = b
  OBVIOUS
<1> HIDE DEF S
<1> DEFINE s == Append(<<a>>, b)
<1>2. /\ s \in Seq(S) /\ Len(s) = 2 /\ s[1] = a /\ s[2] = b
  BY <1>1, AppendProperties
<1> HIDE DEF s
<1>3. s = <<a, b>>
  BY <1>1, <1>2, SeqEqual
<1> QED BY <1>3 DEF s

\* The second half: an entry of the keys or of the values.
LEMMA SpanEndsKeepsStreams ==
    ASSUME HttpIInv, StreamsInv, SpanEnds
    PROVE  StreamsInv'
<1>1. HttpTypeOK
  BY DEF HttpIInv
<1>2. /\ conn = "parsing" /\ chunk # <<>> /\ chunk' = Tail(chunk)
      /\ span' = <<>>
      /\ UNCHANGED <<sent, taken, conn, left, requests, listeners, heard,
                     thrown, damaged, split, cut>>
  BY DEF SpanEnds, Parse, clientVars, handlerVars
<1>3. \/ /\ Head(chunk).part = "fieldEnd" /\ expect = "fieldEnd"
         /\ expect' = "value" /\ values' = values
         /\ keys' = Append(keys, Append(span, Head(chunk)))
      \/ /\ Head(chunk).part = "valueEnd" /\ expect = "valueEnd"
         /\ expect' = "field" /\ keys' = keys
         /\ values' = Append(values, Append(span, Head(chunk)))
  BY DEF SpanEnds, Parse, OnHeaderField, OnHeaderValue
<1>4. CASE damaged
  BY <1>1, <1>2, <1>4, DamagedKeeps
<1>5. CASE ~damaged
  <2>1. /\ StreamInv' /\ ChunkInv' /\ RequestsInv' /\ HeardInv' /\ CutInv'
        /\ Done \in Nat /\ Done' = Done + 1
    <3>1. Head(chunk).part \notin TextParts \cup {"end"}
      BY <1>3
    <3> QED BY <1>1, <1>2, <1>5, <3>1, HeadParsed
  <2>2. PICK q \in 1..Done, h \in 0..Headers, r \in 0..3 : InHead(q, h, r)
    <3>1. expect \in Range(HeaderParts)
      BY <1>3 DEF HeaderParts, Range
    <3> QED BY <1>1, <1>5, <3>1, PlaceOfHead DEF StreamsInv
  <2> DEFINE m == Len(requests) + 1
  <2>3. /\ HeadAt(sent, q, m) /\ Done = q + 4 * h + r
        /\ expect = HeaderParts[r + 1]
        /\ m \notin split =>
             /\ keys = KeysOf(m, IF r > 1 THEN h + 1 ELSE h)
             /\ values = ValuesOf(m, h)
             /\ span = CASE r = 1 -> <<Unit("field", m, h + 1)>>
                         [] r = 3 -> <<Unit("value", m, h + 1)>>
                         [] OTHER -> <<>>
    BY <2>2 DEF InHead
  <2>4. /\ h < Headers /\ h \in Nat /\ Headers \in Nat
        /\ Head(chunk) = Unit(HeaderParts[r + 1], m, h + 1)
        /\ Head(chunk).part = HeaderParts[r + 1]
    <3>1. Head(chunk).part # "end"
      BY <1>3
    <3>2. Headers \in Nat
      BY <1>1, StreamTypes
    <3> QED BY <1>1, <1>2, <1>5, <2>2, <3>1, <3>2, NextInHead, UnitIs
            DEF StreamsInv
  <2>5. r = 1 \/ r = 3
    <3>1. r = 0 \/ r = 1 \/ r = 2 \/ r = 3
      OBVIOUS
    <3>2. HeaderParts[0 + 1] = "field" /\ HeaderParts[2 + 1] = "value"
      BY PartsAre
    <3> QED BY <1>3, <2>4, <3>1, <3>2
  <2>6. CASE r = 1
    <3>1. Head(chunk) = Unit("fieldEnd", m, h + 1) /\ expect = "fieldEnd"
      BY <2>3, <2>4, <2>6, PartsAre
    <3>2. /\ expect' = HeaderParts[2 + 1] /\ values' = values
          /\ keys' = Append(keys, Append(span, Head(chunk)))
      BY <1>3, <3>1, PartsAre
    <3>3. ASSUME m \notin split
          PROVE  keys' = KeysOf(m, h + 1) /\ values' = ValuesOf(m, h)
      <4>1. /\ keys = KeysOf(m, h) /\ values = ValuesOf(m, h)
            /\ span = <<Unit("field", m, h + 1)>>
        BY <2>3, <2>6, <3>3
      <4>2. NameOf(m, h + 1) = Append(<<Unit("field", m, h + 1)>>,
                                      Unit("fieldEnd", m, h + 1))
        BY Pair DEF NameOf
      <4>3. Append(span, Head(chunk)) = NameOf(m, h + 1)
        BY <3>1, <4>1, <4>2
      <4> QED BY <2>4, <3>2, <4>1, <4>3, EntriesGrow
    <3>4. Done' = q + 4 * h + 2 /\ q \in 1..Done'
      <4>1. Done \in Nat /\ Done' = Done + 1 /\ Done = q + 4 * h + 1
        BY <2>1, <2>3, <2>6
      <4> QED BY <4>1
    <3>5. PICK s \in 0..3 : s = 2
      OBVIOUS
    <3>6. ASSUME m \notin split
          PROVE  /\ keys' = KeysOf(m, IF s > 1 THEN h + 1 ELSE h)
                 /\ values' = ValuesOf(m, h)
                 /\ span' = CASE s = 1 -> <<Unit("field", m, h + 1)>>
                              [] s = 3 -> <<Unit("value", m, h + 1)>>
                              [] OTHER -> <<>>
      BY <1>2, <3>3, <3>5, <3>6
    <3>7. Done' = q + 4 * h + s /\ expect' = HeaderParts[s + 1]
      BY <3>2, <3>4, <3>5
    <3>8. InHead(q, h, s)'
      BY <1>2, <2>3, <2>4, <3>6, <3>7 DEF InHead
    <3>9. PlaceInv'
      BY <3>4, <3>8 DEF PlaceInv
    <3> QED BY <2>1, <3>9 DEF StreamsInv
  <2>7. CASE r = 3
    <3>1. Head(chunk) = Unit("valueEnd", m, h + 1) /\ expect = "valueEnd"
      BY <2>3, <2>4, <2>7, PartsAre
    <3>2. /\ expect' = HeaderParts[0 + 1] /\ keys' = keys
          /\ values' = Append(values, Append(span, Head(chunk)))
      BY <1>3, <3>1, PartsAre
    <3>3. ASSUME m \notin split
          PROVE  keys' = KeysOf(m, h + 1) /\ values' = ValuesOf(m, h + 1)
      <4>1. /\ keys = KeysOf(m, h + 1) /\ values = ValuesOf(m, h)
            /\ span = <<Unit("value", m, h + 1)>>
        BY <2>3, <2>7, <3>3
      <4>2. ValueOf(m, h + 1) = Append(<<Unit("value", m, h + 1)>>,
                                       Unit("valueEnd", m, h + 1))
        BY Pair DEF ValueOf
      <4>3. Append(span, Head(chunk)) = ValueOf(m, h + 1)
        BY <3>1, <4>1, <4>2
      <4> QED BY <2>4, <3>2, <4>1, <4>3, EntriesGrow
    <3>4. PICK k \in 0..Headers : k = h + 1
      BY <2>4
    <3>5. Done' = q + 4 * k + 0 /\ q \in 1..Done'
      <4>1. 4 * k = 4 * h + 4 /\ q \in Nat
        BY <2>1, <2>4, <3>4
      <4>2. Done' = q + 4 * h + 3 + 1
        BY <2>1, <2>3, <2>7
      <4> QED BY <2>1, <2>4, <4>1, <4>2
    <3>6. PICK s \in 0..3 : s = 0
      OBVIOUS
    <3>7. ASSUME m \notin split
          PROVE  /\ keys' = KeysOf(m, IF s > 1 THEN k + 1 ELSE k)
                 /\ values' = ValuesOf(m, k)
                 /\ span' = CASE s = 1 -> <<Unit("field", m, k + 1)>>
                              [] s = 3 -> <<Unit("value", m, k + 1)>>
                              [] OTHER -> <<>>
      BY <1>2, <3>3, <3>4, <3>6, <3>7
    <3>8. /\ Done' = q + 4 * k + s /\ expect' = HeaderParts[s + 1]
          /\ ~(s > 0)
      BY <3>2, <3>5, <3>6
    <3>9. InHead(q, k, s)'
      BY <1>2, <2>3, <3>7, <3>8 DEF InHead
    <3>10. PlaceInv'
      BY <3>5, <3>9 DEF PlaceInv
    <3> QED BY <2>1, <3>10 DEF StreamsInv
  <2> QED BY <2>5, <2>6, <2>7
<1> QED BY <1>4, <1>5

\* An error of the parser means that something was damaged.
LEMMA ParseErrorKeepsStreams ==
    ASSUME HttpIInv, StreamsInv, ParseError
    PROVE  StreamsInv'
<1>1. HttpTypeOK
  BY DEF HttpIInv
<1>2. /\ conn = "parsing" /\ chunk # <<>> /\ chunk' = <<>>
      /\ expect # "body" /\ Head(chunk).part \notin Expected
      /\ UNCHANGED <<sent, damaged>>
  BY DEF ParseError, clientVars
<1>3. ASSUME ~damaged PROVE FALSE
  <2>1. CASE expect = "begin"
    <3>1. Head(chunk).part = "begin"
      BY <1>1, <1>2, <1>3, <2>1, NextBetween, UnitIs DEF StreamsInv
    <3> QED BY <1>2, <2>1, <3>1 DEF Expected
  <2>2. ASSUME NEW q \in 1..Done, NEW h \in 0..Headers, NEW r \in 0..3,
               InHead(q, h, r)
        PROVE  FALSE
    <3>1. expect = HeaderParts[r + 1]
      BY <2>2 DEF InHead
    <3>2. \/ Head(chunk).part = HeaderParts[r + 1]
          \/ r = 0 /\ Head(chunk).part = "end"
      BY <1>1, <1>2, <1>3, <2>2, NextInHead, UnitIs DEF StreamsInv
    <3>3. r = 0 \/ r = 1 \/ r = 2 \/ r = 3
      OBVIOUS
    <3>4. expect \in {"field", "fieldEnd", "value", "valueEnd"}
      BY <3>1, <3>3, PartsAre
    <3>5. r = 0 => expect = "field"
      BY <3>1, PartsAre
    <3>6. Head(chunk).part \in Expected
      BY <3>1, <3>2, <3>4, <3>5 DEF Expected
    <3> QED BY <1>2, <3>6
  <2>3. ASSUME NEW e \in 1..Done, InBody(e) PROVE expect = "begin"
    BY <1>2, <2>3 DEF InBody
  <2> QED BY <1>3, <2>1, <2>2, <2>3 DEF StreamsInv, PlaceInv
<1> QED BY <1>1, <1>2, <1>3, DamagedKeeps

\* The end of a chunk: an open span splits the head.
LEMMA ParseReturnsKeepsStreams ==
    ASSUME HttpIInv, StreamsInv, ParseReturns
    PROVE  StreamsInv'
<1>1. HttpTypeOK
  BY DEF HttpIInv
<1>2. /\ conn = "parsing" /\ chunk = <<>> /\ span' = <<>>
      /\ UNCHANGED <<sent, taken, chunk, expect, left, requests, listeners,
                     heard, thrown, damaged, cut>>
  BY DEF ParseReturns, clientVars, handlerVars
<1>3. CASE damaged
  BY <1>1, <1>2, <1>3, DamagedKeeps
<1>4. CASE ~damaged
  <2>1. Done' = Done /\ Done \in Nat /\ Sent' = Sent
    <3>1. Done = taken
      BY <1>1, <1>2, EmptySeq, StreamTypes DEF Done
    <3> QED BY <1>1, <1>2, <3>1, StreamTypes DEF Done, Sent
  <2>2. StreamInv'
    BY <1>2, <2>1 DEF StreamsInv, StreamInv
  <2>3. ChunkInv'
    BY <1>2, <2>1 DEF StreamsInv, ChunkInv
  <2>4. RequestsInv' /\ HeardInv'
    <3>1. \A i \in Done + 1..Done' : FALSE
      BY <2>1
    <3>2. Done <= Done' /\ \A i \in 1..Done : sent'[i] = sent[i]
      BY <1>2, <2>1
    <3>3. split \subseteq split'
      BY DEF ParseReturns
    <3> QED BY <1>1, <1>2, <1>4, <2>1, <3>1, <3>2, <3>3, ParsedStays,
               ShownStays
            DEF StreamsInv
  <2>6. CutInv'
    BY <1>2, <2>1 DEF StreamsInv, CutInv, Character
  <2>5. PlaceInv'
    <3>1. CASE span = <<>>
      <4>1. UNCHANGED <<span, keys, values, split>>
        BY <1>2, <3>1 DEF ParseReturns, parserVars
      <4> QED BY <1>1, <1>2, <1>4, <2>1, <4>1, PlaceStays, StreamTypes
              DEF StreamsInv
    <3>2. CASE span # <<>>
      <4>1. split' = split \cup {Len(requests) + 1}
        BY <3>2 DEF ParseReturns
      <4>2. ASSUME NEW q \in 1..Done, NEW h \in 0..Headers, NEW r \in 0..3,
                   InHead(q, h, r)
            PROVE  InHead(q, h, r)'
        BY <1>2, <2>1, <4>1, <4>2 DEF InHead
      <4>3. ASSUME NEW e \in 1..Done, InBody(e) PROVE InBody(e)'
        BY <1>2, <2>1, <4>3 DEF InBody
      <4> QED BY <1>2, <1>4, <2>1, <4>2, <4>3 DEF StreamsInv, PlaceInv
    <3> QED BY <3>1, <3>2
  <2> QED BY <2>2, <2>3, <2>4, <2>5, <2>6 DEF StreamsInv
<1> QED BY <1>3, <1>4

\* 'request': with the headers of its message, if no read has split one.
LEMMA HeadersCompleteKeepsStreams ==
    ASSUME HttpIInv, StreamsInv, NEW listens \in BOOLEAN, NEW throws \in BOOLEAN,
           HeadersComplete(listens, throws)
    PROVE  StreamsInv'
<1> DEFINE m == Len(requests) + 1
<1>1. HttpTypeOK
  BY DEF HttpIInv
<1>2. /\ conn = "parsing" /\ chunk # <<>> /\ chunk' = Tail(chunk)
      /\ Head(chunk).part = "end" /\ expect = "field"
      /\ left' = Head(chunk).index
      /\ expect' = IF left' = 0 THEN "begin" ELSE "body"
      /\ requests' = Append(requests, HeadersOf)
      /\ listeners' = IF listens THEN Append(listeners, Len(requests'))
                      ELSE listeners
      /\ thrown' = (thrown \/ throws)
      /\ UNCHANGED <<sent, taken, conn, span, keys, values, heard, damaged,
                     split, cut>>
  BY DEF HeadersComplete, Parse, clientVars, parserVars
<1>3. CASE damaged
  BY <1>1, <1>2, <1>3, DamagedKeeps
<1>4. CASE ~damaged
  <2>1. /\ Done \in Nat /\ Head(chunk) = sent[Done + 1]
        /\ Done + 1 \in 1..Len(sent) /\ Len(requests) \in Nat /\ m \in Nat
        /\ Headers \in Nat /\ DOMAIN requests = 1..Len(requests)
    BY <1>1, <1>2, <1>4, NextUnit, StreamTypes DEF StreamsInv
  <2>2. Done' = Done + 1 /\ ChunkInv'
    BY <1>1, <1>2, OneParsed DEF StreamsInv
  <2>3. Sent' = Sent /\ StreamInv'
    BY <1>2 DEF StreamsInv, StreamInv, Sent
  <2>4. PICK q \in 1..Done, h \in 0..Headers, r \in 0..3 : InHead(q, h, r)
    <3>1. expect \in Range(HeaderParts)
      BY <1>2 DEF HeaderParts, Range
    <3> QED BY <1>1, <1>4, <3>1, PlaceOfHead DEF StreamsInv
  <2>5. r = 0 /\ h = Headers /\ sent[Done + 1].msg = m
    <3>1. expect = HeaderParts[r + 1]
      BY <2>4 DEF InHead
    <3>2. r = 0 \/ r = 1 \/ r = 2 \/ r = 3
      OBVIOUS
    <3>3. r = 0
      BY <1>2, <3>1, <3>2, PartsAre
    <3>4. HeaderParts[r + 1] # "end"
      BY <3>3, PartsAre
    <3>5. Head(chunk) # Unit(HeaderParts[r + 1], m, h + 1)
      BY <1>2, <3>4, UnitIs
    <3> QED BY <1>1, <1>2, <1>4, <2>1, <2>4, <3>5, NextInHead DEF StreamsInv
  <2>6. m \in 1..Messages
    <3>1. sent[Done + 1].msg \in 0..Messages /\ Messages \in Nat
      BY <1>1, <2>1, StreamTypes
    <3> QED BY <2>1, <2>5, <3>1
  <2>7. /\ Len(requests') = m /\ DOMAIN requests' = 1..m
        /\ \A k \in 1..Len(requests) : requests'[k] = requests[k]
        /\ requests'[m] = HeadersOf
    <3>1. requests \in Seq(Seq(Seq(Units) \X (Seq(Units) \cup {Wild})))
      BY <1>1 DEF HttpTypeOK
    <3> DEFINE R == Seq(Seq(Units) \X (Seq(Units) \cup {Wild}))
    <3>2. HeadersOf \in R
      <4>1. keys \in Seq(Seq(Units)) /\ values \in Seq(Seq(Units))
        BY <1>1 DEF HttpTypeOK
      <4> QED BY <4>1, HeadersOfType DEF Names, Values
    <3> HIDE DEF R
    <3>3. requests \in Seq(R)
      BY <3>1 DEF R
    <3> QED BY <1>2, <2>1, <3>2, <3>3, AppendProperties, LenProperties
  <2>8. PlaceInv'
    <3>1. PICK e \in 1..Done' : e = Done + 1
      BY <2>1, <2>2
    <3>2. sent[e].index \in Nat
      BY <1>1, <2>1, <3>1, StreamTypes
    <3>3. left' = e + sent[e].index - Done'
      <4>1. left' = sent[e].index /\ Done' = e /\ e \in Nat
        BY <1>2, <2>1, <2>2, <3>1
      <4> HIDE DEF Done
      <4> QED BY <3>2, <4>1
    <3>4. InBody(e)'
      BY <1>2, <2>1, <2>5, <2>7, <3>1, <3>3 DEF InBody
    <3> QED BY <3>4 DEF PlaceInv
  <2>9. Parsed = 1..Done /\ Parsed' = 1..Done'
        /\ \A i : i \in 1..Done' <=> i \in 1..Done \/ i = Done + 1
    BY <2>1, <2>2 DEF Parsed, Done
  <2>10. RequestsInv'
    <3>1. Heads' = Heads \cup {Done + 1}
      BY <1>2, <2>1, <2>9 DEF Heads
    <3>2. IsFiniteSet(Heads) /\ Done + 1 \notin Heads
      <4>1. IsFiniteSet(1..Done)
        BY <2>1, FS_Interval
      <4>2. Heads \subseteq 1..Done
        BY <2>9 DEF Heads
      <4>3. IsFiniteSet(Heads)
        BY <4>1, <4>2, FS_Subset
      <4>4. Done + 1 \notin 1..Done
        BY <2>1
      <4> QED BY <4>2, <4>3, <4>4
    <3>3. Cardinality(Heads') = Cardinality(Heads) + 1
      BY <3>1, <3>2, FS_AddElement
    <3>4. Len(requests) = Cardinality(Heads)
      BY <1>4 DEF StreamsInv, RequestsInv
    <3>5. ASSUME NEW k \in 1..m, k \notin split'
          PROVE  requests'[k] =
                   [i \in 1..Headers |-> <<NameOf(k, i), ValueOf(k, i)>>]
      <4>1. CASE k \in 1..Len(requests)
        BY <1>2, <1>4, <2>1, <2>7, <3>5, <4>1 DEF StreamsInv, RequestsInv
      <4>2. CASE k = m
        <5>1. keys = KeysOf(m, Headers) /\ values = ValuesOf(m, Headers)
          BY <1>2, <2>4, <2>5, <3>5, <4>2 DEF InHead
        <5>2. /\ DOMAIN keys = 1..Headers /\ DOMAIN values = 1..Headers
              /\ \A i \in 1..Headers : keys[i] = NameOf(m, i)
              /\ \A i \in 1..Headers : values[i] = ValueOf(m, i)
          BY <5>1 DEF KeysOf, ValuesOf
        <5>3. HeadersOf =
                [i \in 1..Headers |-> <<NameOf(m, i), ValueOf(m, i)>>]
          BY <5>2 DEF HeadersOf
        <5> QED BY <2>7, <4>2, <5>3
      <4> QED BY <2>1, <4>1, <4>2
    <3> QED BY <2>7, <3>3, <3>4, <3>5 DEF RequestsInv
  <2>11. \A k : Texts(k)' = Texts(k)
    <3>1. TAKE k
    <3>2. sent'[Done + 1].part \notin TextParts
      BY <1>2, <2>1
    <3>3. Texts(k)' = {i \in 1..Done' :
                         sent'[i].part \in TextParts /\ sent'[i].msg >= k}
      BY <2>9 DEF Texts
    <3>4. Texts(k) = {i \in 1..Done :
                        sent[i].part \in TextParts /\ sent[i].msg >= k}
      BY <2>9 DEF Texts
    <3> QED BY <1>2, <2>9, <3>2, <3>3, <3>4
  <2>12. \A i \in Parsed :
           sent[i].part \in TextParts => sent[i].msg <= Len(requests)
    BY <1>4 DEF StreamsInv, HeardInv
  <2>13. \A i \in Parsed' :
           sent'[i].part \in TextParts => sent'[i].msg <= Len(requests')
    <3>1. SUFFICES ASSUME NEW i \in 1..Done', sent[i].part \in TextParts
                   PROVE  sent[i].msg <= m
      BY <1>2, <2>7, <2>9
    <3>2. i \in 1..Done
      BY <1>2, <2>1, <2>9, <3>1
    <3>3. sent[i].msg \in 0..Messages /\ Messages \in Nat
      BY <1>1, <2>1, <3>2, StreamTypes
    <3> QED BY <2>1, <2>9, <2>12, <3>1, <3>2, <3>3
  <2>14. \A k \in 1..Messages : k > Len(requests) => heard[k] = <<>>
    BY <1>4 DEF StreamsInv, HeardInv
  <2>15. \A k \in 1..Messages : k > Len(requests') => heard'[k] = <<>>
    BY <1>2, <2>1, <2>7, <2>14
  <2>16. ASSUME ~thrown', NEW k \in {listeners'[i] : i \in DOMAIN listeners'}
         PROVE  Selects(heard[k], Texts(k))
    <3>1. k \in {listeners[i] : i \in DOMAIN listeners} \/ k = m
      <4>1. CASE listeners' = listeners
        BY <2>16, <4>1
      <4>2. CASE listeners' = Append(listeners, m)
        <5>1. listeners \in Seq(Nat) /\ m \in Nat
          <6>1. listeners \in Seq(1..Len(requests))
            BY <1>1 DEF HttpTypeOK
          <6> QED BY <2>1, <6>1, SeqMonotonic
        <5>2. /\ Len(listeners) \in Nat /\ DOMAIN listeners = 1..Len(listeners)
              /\ DOMAIN listeners' = 1..Len(listeners) + 1
              /\ \A i \in 1..Len(listeners) : listeners'[i] = listeners[i]
              /\ listeners'[Len(listeners) + 1] = m
          BY <4>2, <5>1, AppendProperties, LenProperties
        <5>3. PICK i \in DOMAIN listeners' : k = listeners'[i]
          BY <2>16
        <5>4. i \in 1..Len(listeners) \/ i = Len(listeners) + 1
          BY <5>2
        <5> QED BY <5>2, <5>3, <5>4
      <4> QED BY <1>2, <2>7, <4>1, <4>2
    <3>2. CASE k \in {listeners[i] : i \in DOMAIN listeners}
      <4>1. ~thrown
        BY <1>2, <2>16
      <4> QED BY <1>4, <3>2, <4>1
              DEF StreamsInv, HeardInv, BodiesReachTheirHandlers
    <3>3. CASE k = m
      <4>1. heard[k] = <<>>
        BY <2>1, <2>6, <2>14, <3>3
      <4>2. ASSUME NEW i \in 1..Done, sent[i].part \in TextParts,
                   sent[i].msg >= m
            PROVE  FALSE
        <5>1. sent[i].msg \in 0..Messages /\ Messages \in Nat
          BY <1>1, <2>1, StreamTypes
        <5> QED BY <2>1, <2>9, <2>12, <4>2, <5>1
      <4>3. Texts(k) = {}
        BY <2>9, <3>3, <4>2 DEF Texts
      <4> QED BY <4>1, <4>3, EmptySeq, FS_EmptySet DEF Selects
    <3> QED BY <3>1, <3>2, <3>3
  <2>17. BodiesReachTheirHandlers'
    <3>1. ASSUME ~thrown', NEW k \in {listeners'[i] : i \in DOMAIN listeners'}
          PROVE  Selects(heard[k], Texts(k))'
      BY <1>2, <2>11, <2>16, <3>1, ShownStays DEF Selects
    <3> QED BY <3>1 DEF BodiesReachTheirHandlers
  <2>18. HeardInv'
    BY <2>13, <2>15, <2>17 DEF HeardInv
  <2>19. CutInv'
    <3>1. ~Character(sent, Done')
      BY <1>2, <2>1, <2>2 DEF Character
    <3>2. Done' \in Nat /\ Done <= Done'
      BY <2>1, <2>2
    <3> QED BY <1>1, <1>2, <1>4, <2>1, <3>1, <3>2, CutStays
            DEF StreamsInv, HttpTypeOK
  <2> QED BY <2>2, <2>3, <2>8, <2>10, <2>18, <2>19 DEF StreamsInv
<1> QED BY <1>3, <1>4

\* Units of the stream that follow those selected are selected behind them.
LEMMA SelectsMore ==
    ASSUME NEW d \in Nat, NEW n \in Nat, NEW T \in SUBSET (1..d),
           NEW u \in Seq(Units), NEW at \in Seq(Units), Len(at) = n,
           Selects(u, T), \A j \in 1..n : at[j] = Shown(d + j)
    PROVE  Selects(u \o at, T \cup d + 1..d + n)
<1> DEFINE New == d + 1..d + n
           All == T \cup New
<1>1. /\ IsFiniteSet(T) /\ Cardinality(T) \in Nat
  <2>1. IsFiniteSet(1..d)
    BY FS_Interval
  <2>2. IsFiniteSet(T)
    BY <2>1, FS_Subset
  <2> QED BY <2>2, FS_CardinalityType
<1>2. \A k \in 0..n :
        Cardinality(T \cup d + 1..d + k) = Cardinality(T) + k
  <2>1. TAKE k \in 0..n
  <2>2. /\ IsFiniteSet(d + 1..d + k) /\ Cardinality(d + 1..d + k) = k
    <3>1. d + 1 \in Int /\ d + k \in Int /\ k \in Nat
      OBVIOUS
    <3>2. (IF d + 1 > d + k THEN 0 ELSE d + k - (d + 1) + 1) = k
      BY <3>1
    <3> QED BY <3>1, <3>2, FS_Interval
  <2>3. T \cap d + 1..d + k = {}
    OBVIOUS
  <2>4. Cardinality(T \cap d + 1..d + k) = 0
    BY <2>3, FS_EmptySet
  <2>5. Cardinality(T \cup d + 1..d + k) = Cardinality(T) + k - 0
    <3> DEFINE I == d + 1..d + k
    <3>1. IsFiniteSet(I) /\ Cardinality(I) = k /\ Cardinality(T \cap I) = 0
      BY <2>2, <2>4
    <3> HIDE DEF I
    <3>2. Cardinality(T \cup I) =
            Cardinality(T) + Cardinality(I) - Cardinality(T \cap I)
      BY <1>1, <3>1, FS_Union
    <3> QED BY <3>1, <3>2 DEF I
  <2> QED BY <1>1, <2>1, <2>5
<1>3. /\ Len(u) = Cardinality(T)
      /\ \A i \in T : u[Cardinality({j \in T : j <= i})] = Shown(i)
  BY DEF Selects
<1>4. /\ Len(u \o at) = Len(u) + n
      /\ \A i \in 1..Len(u) : (u \o at)[i] = u[i]
      /\ \A i \in 1..n : (u \o at)[Len(u) + i] = at[i]
  BY Joined
<1>5. Len(u \o at) = Cardinality(All)
  <2>1. n \in 0..n
    OBVIOUS
  <2> QED BY <1>2, <1>3, <1>4, <2>1
<1>6. ASSUME NEW i \in T
      PROVE  (u \o at)[Cardinality({j \in All : j <= i})] = Shown(i)
  <2> DEFINE Below == {j \in T : j <= i}
  <2>1. {j \in All : j <= i} = Below
    OBVIOUS
  <2>2. IsFiniteSet(Below) /\ Cardinality(Below) <= Cardinality(T)
    BY <1>1, FS_Subset
  <2>3. Cardinality(Below) \in Nat
    BY <2>2, FS_CardinalityType
  <2>4. i \in Below
    OBVIOUS
  <2>5. Cardinality(Below) # 0
    BY <2>2, <2>4, FS_EmptySet
  <2>6. Cardinality(Below) \in 1..Len(u)
    BY <1>1, <1>3, <2>2, <2>3, <2>5
  <2> QED BY <1>3, <1>4, <2>1, <2>6
<1>7. ASSUME NEW i \in New
      PROVE  (u \o at)[Cardinality({j \in All : j <= i})] = Shown(i)
  <2> DEFINE k == i - d
  <2>1. k \in 1..n /\ k \in 0..n /\ d + k = i
    OBVIOUS
  <2>2. {j \in All : j <= i} = T \cup d + 1..d + k
    <3>1. \A j \in T : j <= i
      OBVIOUS
    <3>2. \A j : j \in New /\ j <= i <=> j \in d + 1..d + k
      BY <2>1
    <3> QED BY <3>1, <3>2
  <2> HIDE DEF k
  <2>3. Cardinality({j \in All : j <= i}) = Len(u) + k
    BY <1>2, <1>3, <2>1, <2>2
  <2> QED BY <1>4, <2>1, <2>3
<1> QED BY <1>5, <1>6, <1>7 DEF Selects

\* A part of the body, up to its end or that of the chunk.
LEMMA BodyKeepsStreams ==
    ASSUME HttpIInv, StreamsInv, NEW upto \in 0..Messages, Body(upto)
    PROVE  StreamsInv'
<1> DEFINE length == IF left < Len(chunk) THEN left ELSE Len(chunk)
           at == SubSeq(chunk, 1, length)
<1>1. HttpTypeOK
  BY DEF HttpIInv
<1>2. /\ conn = "parsing" /\ chunk # <<>> /\ expect = "body"
      /\ OnBody(at, upto) /\ left' = left - length
      /\ chunk' = SubSeq(chunk, length + 1, Len(chunk))
      /\ expect' = IF left' = 0 THEN "begin" ELSE "body"
      /\ (upto = Len(listeners) /\ thrown' = thrown) \/ thrown' = TRUE
      /\ UNCHANGED <<sent, taken, conn, span, keys, values, requests,
                     listeners, damaged, split, cut>>
  BY DEF Body, clientVars
<1>3. /\ chunk \in Seq(Units) /\ Len(chunk) \in Nat /\ left \in Nat
      /\ taken \in Nat /\ taken <= Len(sent) /\ Len(sent) \in Nat
  BY <1>1, StreamTypes DEF HttpTypeOK
<1>4. length \in Nat /\ length <= left /\ length <= Len(chunk)
  BY <1>3
<1> HIDE DEF length
<1>5. /\ at \in Seq(Units) /\ Len(at) = length
      /\ \A i \in 1..length : at[i] = chunk[i]
      /\ Len(chunk') = Len(chunk) - length
      /\ \A i \in 1..Len(chunk') : chunk'[i] = chunk[length + i]
  <2>1. \A i \in 1..Len(chunk) : chunk[i] \in Units
    BY <1>3, ElementOfSeq
  <2>2. /\ \A i \in 1..length : chunk[i] \in Units
        /\ \A i \in length + 1..Len(chunk) : chunk[i] \in Units
    BY <1>3, <1>4, <2>1
  <2>3. /\ at \in Seq(Units)
        /\ Len(at) = IF 1 <= length THEN length - 1 + 1 ELSE 0
        /\ \A i \in 1..length - 1 + 1 : at[i] = chunk[1 + i - 1]
    BY <1>4, <2>2, SubSeqProperties
  <2>4. /\ Len(chunk') = IF length + 1 <= Len(chunk)
                         THEN Len(chunk) - (length + 1) + 1 ELSE 0
        /\ \A i \in 1..Len(chunk) - (length + 1) + 1 :
             chunk'[i] = chunk[length + 1 + i - 1]
    BY <1>2, <1>3, <1>4, <2>2, SubSeqProperties
  <2> HIDE DEF at
  <2>5. Len(at) = length /\ \A i \in 1..length : at[i] = chunk[i]
    BY <1>4, <2>3
  <2>6. Len(chunk') = Len(chunk) - length
    BY <1>3, <1>4, <2>4
  <2>7. ASSUME NEW i \in 1..Len(chunk') PROVE chunk'[i] = chunk[length + i]
    <3>1. i \in 1..Len(chunk) - (length + 1) + 1
          /\ length + 1 + i - 1 = length + i
      BY <1>3, <1>4, <2>6
    <3> QED BY <2>4, <3>1
  <2> QED BY <2>3, <2>5, <2>6, <2>7
<1> HIDE DEF at
<1>6. Sent' = Sent /\ StreamInv'
  BY <1>2 DEF StreamsInv, StreamInv, Sent
<1>7. CASE damaged
  BY <1>1, <1>2, <1>6, <1>7
     DEF StreamsInv, ChunkInv, PlaceInv, RequestsInv, HeardInv, CutInv
<1>8. CASE ~damaged
  <2>1. /\ Done \in Nat /\ Len(chunk) <= taken
        /\ \A i \in 1..Len(chunk) : chunk[i] = sent[Done + i]
        /\ \A i \in 1..taken : sent[i].part # "nul"
    BY <1>1, <1>2, <1>8, NextUnit DEF StreamsInv, ChunkInv
  <2>2. Done' = Done + length /\ Done' \in Nat /\ Done' <= taken
    <3>1. Done = taken - Len(chunk) /\ Done' = taken - Len(chunk')
      BY <1>2 DEF Done
    <3>2. Len(chunk') = Len(chunk) - length
      BY <1>5
    <3>3. Done \in Nat /\ Len(chunk) <= taken
      BY <2>1
    <3> QED BY <1>3, <1>4, <3>1, <3>2, <3>3
  <2>3. ChunkInv'
    <3>1. ASSUME NEW i \in 1..Len(chunk')
          PROVE  chunk'[i] = sent'[Done' + i]
      <4>1. length + i \in 1..Len(chunk) /\ Done + (length + i) = Done' + i
        BY <1>3, <1>4, <1>5, <2>1, <2>2
      <4> QED BY <1>2, <1>5, <2>1, <4>1
    <3>2. Len(chunk') <= taken'
      BY <1>2, <1>3, <1>4, <1>5, <2>1
    <3> QED BY <1>2, <2>1, <3>1, <3>2 DEF ChunkInv
  <2>4. PICK e \in 1..Done : InBody(e)
    BY <1>1, <1>2, <1>8, PlaceOfBody DEF StreamsInv
  <2>5. \A i \in Done + 1..Done' :
          sent[i].part \in TextParts /\ sent[i].msg = Len(requests)
    <3>1. \A i \in Done + 1..Done + left :
            /\ sent[i].part \in BodyParts
            /\ sent[i].msg = Len(requests)
      BY <1>1, <1>8, <2>4, NextInBody DEF StreamsInv
    <3>2. \A i \in Done + 1..Done' : i \in Done + 1..Done + left
                                     /\ i \in 1..taken
      BY <1>3, <1>4, <2>1, <2>2
    <3> QED BY <2>1, <3>1, <3>2
  <2>6. PlaceInv'
    <3>1. /\ sent[e].part = "end" /\ sent[e].msg = Len(requests)
          /\ left = e + sent[e].index - Done
      BY <2>4 DEF InBody
    <3>2. sent[e].index \in Nat /\ e \in Nat
      <4>1. e \in 1..Len(sent)
        BY <1>1, <2>4, StreamTypes
      <4> QED BY <1>1, <4>1, StreamTypes
    <3>3. left' = e + sent[e].index - Done' /\ e \in 1..Done'
      <4>1. Done \in Nat /\ left' = left - length
        BY <1>2, <2>1
      <4>2. PICK n \in Nat : n = sent[e].index
        BY <3>2
      <4>3. left = e + n - Done
        BY <3>1, <4>2
      <4>4. left' = e + n - Done'
        BY <1>3, <1>4, <2>2, <3>2, <4>1, <4>3
      <4>5. e \in 1..Done'
        BY <1>4, <2>2, <4>1
      <4> QED BY <4>2, <4>4, <4>5
    <3>4. InBody(e)'
      BY <1>2, <3>1, <3>3 DEF InBody
    <3> QED BY <3>3, <3>4 DEF PlaceInv
  <2>7. Parsed = 1..Done /\ Parsed' = 1..Done'
        /\ \A i : i \in 1..Done' <=> i \in 1..Done \/ i \in Done + 1..Done'
    BY <1>4, <2>1, <2>2 DEF Parsed, Done
  <2>8. RequestsInv'
    <3>1. Heads' = Heads
      BY <1>2, <2>5, <2>7 DEF Heads
    <3> QED BY <1>2, <3>1 DEF StreamsInv, RequestsInv
  <2>9. /\ \A k \in 1..Messages : k > Len(requests) => heard[k] = <<>>
        /\ \A i \in Parsed :
             sent[i].part \in TextParts => sent[i].msg <= Len(requests)
        /\ BodiesReachTheirHandlers
    BY <1>8 DEF StreamsInv, HeardInv
  <2>10. /\ listeners \in Seq(1..Len(requests)) /\ Len(listeners) \in Nat
         /\ DOMAIN listeners = 1..Len(listeners) /\ Len(requests) \in Nat
         /\ \A i \in 1..Len(listeners) : listeners[i] \in 1..Len(requests)
    <3>1. listeners \in Seq(1..Len(requests)) /\ Len(requests) \in Nat
      BY <1>1, StreamTypes DEF HttpTypeOK
    <3> QED BY <3>1, ElementOfSeq, LenProperties
  <2>11. upto \in 0..Len(listeners)
    <3>1. upto \in DOMAIN listeners \/ upto = Len(listeners)
      BY DEF Body
    <3>2. upto \in 1..Len(listeners) \/ upto = Len(listeners)
      BY <2>10, <3>1
    <3>3. Len(listeners) \in Nat
      BY <2>10
    <3> QED BY <3>2, <3>3
  <2>12. heard' = [k \in 1..Messages |->
                     IF k \in Called(upto) THEN heard[k] \o NewFromUtf8(at)
                     ELSE heard[k]]
    BY <1>2 DEF OnBody
  <2>13. \A k \in 1..Messages : k > Len(requests') => heard'[k] = <<>>
    <3>1. ASSUME NEW k \in 1..Messages, k > Len(requests)
          PROVE  k \notin Called(upto)
      BY <2>10, <2>11, <3>1 DEF Called
    <3> QED BY <1>2, <2>9, <2>12, <3>1
  <2>14. \A i \in Parsed' :
           sent'[i].part \in TextParts => sent'[i].msg <= Len(requests')
    <3>1. SUFFICES ASSUME NEW i \in 1..Done', sent[i].part \in TextParts
                   PROVE  sent[i].msg <= Len(requests)
      BY <1>2, <2>7
    <3>2. CASE i \in 1..Done
      BY <2>7, <2>9, <3>1, <3>2
    <3>3. CASE i \in Done + 1..Done'
      BY <2>5, <2>10, <3>3
    <3> QED BY <2>7, <3>2, <3>3
  <2>18. Character(sent, Done') => Done' \in cut
    <3>1. SUFFICES ASSUME Character(sent, Done') PROVE Done' = taken
      BY <1>8 DEF StreamsInv, CutInv
    <3>2. Done' + 1 \in 1..Len(sent) /\ sent[Done' + 1].part = "trail"
      BY <1>1, <3>1, StreamTypes DEF Character
    <3>3. CASE length = left
      <4>1. Done' = Done + left
        BY <2>2, <3>3
      <4>2. Done' < Len(sent)
        BY <1>3, <2>2, <3>2
      <4>3. sent[Done' + 1] = Unit("begin", Len(requests) + 1, 0)
        BY <1>1, <1>8, <2>4, <4>1, <4>2, NextInBody DEF StreamsInv
      <4> QED BY <3>2, <4>3, UnitIs
    <3>4. CASE length = Len(chunk)
      BY <1>3, <2>1, <2>2, <3>4 DEF Done
    <3>5. length = left \/ length = Len(chunk)
      BY DEF length
    <3> QED BY <3>3, <3>4, <3>5
  <2>19. CutInv'
    BY <1>1, <1>2, <1>4, <1>8, <2>1, <2>2, <2>18, CutStays
       DEF StreamsInv, HttpTypeOK
  <2>20. \A j \in 1..length :
           Shown(Done + j) = IF Whole(at, j) THEN at[j] ELSE Broken
    <3>1. TAKE j \in 1..length
    <3> DEFINE i == Done + j
    <3>2. /\ \A c \in cut : Character(sent, c) /\ (c <= Done \/ c = taken)
          /\ Character(sent, Done) => Done \in cut
      BY <1>8 DEF StreamsInv, CutInv
    <3>3. /\ Len(at) = length /\ DOMAIN at = 1..length
          /\ \A k \in 1..length : at[k] = sent[Done + k]
      <4>1. \A k \in 1..length : k \in 1..Len(chunk)
        BY <1>3, <1>4
      <4> QED BY <1>5, <2>1, <4>1, LenProperties
    <3>4. i \in Nat /\ i > Done /\ i <= Done' /\ i \in 1..Len(sent)
          /\ DOMAIN sent = 1..Len(sent)
      BY <1>1, <1>3, <1>4, <2>1, <2>2, StreamTypes
    <3>5. Character(at, j) <=> Character(sent, i) /\ i \notin cut
      <4>1. CASE j < length
        <5>1. /\ j + 1 \in 1..length /\ Done + (j + 1) = i + 1
              /\ i + 1 <= Done'
          BY <1>4, <2>1, <2>2, <4>1
        <5>4. i + 1 \in 1..Len(sent) /\ i < taken
          BY <1>3, <2>2, <3>4, <5>1
        <5>2. i \notin cut
          <6>1. ~(i <= Done) /\ i # taken
            BY <1>3, <2>1, <3>4, <5>4
          <6> HIDE DEF i
          <6> QED BY <3>2, <6>1
        <5>3. at[j] = sent[i] /\ at[j + 1] = sent[i + 1]
          BY <3>3, <5>1
        <5> HIDE DEF i
        <5> QED BY <3>3, <3>4, <5>1, <5>2, <5>3, <5>4 DEF Character
      <4>2. CASE j = length
        <5>1. i = Done' /\ j + 1 \notin 1..length
          BY <1>4, <2>2, <4>2
        <5>2. ~Character(at, j)
          BY <3>3, <5>1 DEF Character
        <5> QED BY <2>18, <5>1, <5>2
      <4> QED BY <1>4, <4>1, <4>2
    <3>6. Character(at, j - 1) <=> Character(sent, i - 1) /\ i - 1 \notin cut
      <4>1. CASE j > 1
        <5>1. /\ j - 1 \in 1..length /\ Done + (j - 1) = i - 1
              /\ j - 1 + 1 = j /\ i - 1 + 1 = i /\ i - 1 \in 1..Len(sent)
              /\ i - 1 > Done /\ i - 1 < taken
          BY <1>3, <1>4, <2>1, <2>2, <3>4, <4>1
        <5>2. i - 1 \notin cut
          <6>1. Done \in Nat /\ taken \in Nat /\ i - 1 \in Nat
            BY <1>3, <2>1, <5>1
          <6>2. i - 1 > Done /\ i - 1 < taken
            BY <5>1
          <6>3. ~(i - 1 <= Done) /\ i - 1 # taken
            BY ONLY <6>1, <6>2
          <6> HIDE DEF i
          <6> QED BY <3>2, <6>3
        <5>3. at[j - 1] = sent[i - 1] /\ at[j] = sent[i]
          BY <3>3, <5>1
        <5> HIDE DEF i
        <5> QED BY <3>3, <3>4, <5>1, <5>2, <5>3 DEF Character
      <4>2. CASE j = 1
        <5>1. i - 1 = Done /\ j - 1 \notin 1..length
          BY <2>1, <4>2
        <5>2. ~Character(at, j - 1)
          BY <3>3, <5>1 DEF Character
        <5> QED BY <3>2, <5>1, <5>2
      <4> QED BY <1>4, <4>1, <4>2
    <3>7. /\ Character(sent, i) => sent[i].part = "lead"
          /\ Character(sent, i - 1) => sent[i].part = "trail"
      <4>1. i - 1 + 1 = i
        BY <3>4
      <4> QED BY <4>1 DEF Character
    <3>8. at[j] = sent[i]
      BY <3>3
    <3> HIDE DEF i
    <3>9. Shown(i) = IF Whole(at, j) THEN at[j] ELSE Broken
      <4>1. CASE sent[i].part = "lead"
        BY <3>2, <3>5, <3>6, <3>7, <3>8, <4>1 DEF Shown, Whole
      <4>2. CASE sent[i].part = "trail"
        BY <3>2, <3>5, <3>6, <3>7, <3>8, <4>2 DEF Shown, Whole
      <4>3. CASE sent[i].part \notin {"lead", "trail"}
        BY <3>2, <3>7, <3>8, <4>3 DEF Shown, Whole
      <4> QED BY <4>1, <4>2, <4>3
    <3> QED BY <3>9 DEF i
  <2>15. ASSUME ~thrown', NEW k \in {listeners[i] : i \in DOMAIN listeners}
         PROVE  Selects(heard'[k], Texts(k)')
    <3>1. upto = Len(listeners) /\ ~thrown
      BY <1>2, <2>15
    <3>2. k \in Called(upto) /\ k \in 1..Len(requests)
      BY <2>10, <3>1 DEF Called
    <3>3. Selects(heard[k], Texts(k))
      BY <1>8, <2>9, <3>1 DEF BodiesReachTheirHandlers
    <3>4. k \in 1..Messages
      <4>1. e \in 1..Len(sent) /\ sent[e].msg = Len(requests)
        BY <1>1, <2>4, StreamTypes DEF InBody
      <4>2. Len(requests) \in 0..Messages /\ Messages \in Nat
        BY <1>1, <4>1, StreamTypes
      <4> QED BY <3>2, <4>2
    <3>5. heard'[k] = heard[k] \o NewFromUtf8(at) /\ heard[k] \in Seq(Units)
      BY <1>1, <2>12, <3>2, <3>4 DEF HttpTypeOK
    <3>6. Texts(k) \in SUBSET (1..Done)
      BY <2>7 DEF Texts
    <3>7. Texts(k)' = Texts(k) \cup Done + 1..Done + length
      <4>1. Texts(k)' = {i \in 1..Done' :
                           sent[i].part \in TextParts /\ sent[i].msg >= k}
        BY <1>2, <2>7 DEF Texts
      <4>2. Texts(k) = {i \in 1..Done :
                          sent[i].part \in TextParts /\ sent[i].msg >= k}
        BY <2>7 DEF Texts
      <4>3. \A i \in Done + 1..Done' :
              sent[i].part \in TextParts /\ sent[i].msg >= k
        BY <2>5, <2>10, <3>2
      <4> QED BY <2>2, <2>7, <4>1, <4>2, <4>3
    <3>8. /\ NewFromUtf8(at) \in Seq(Units) /\ Len(NewFromUtf8(at)) = length
          /\ \A j \in 1..length : NewFromUtf8(at)[j] = Shown(Done + j)
      BY <1>5, <2>20, StringType
    <3>9. Selects(heard[k] \o NewFromUtf8(at),
                  Texts(k) \cup Done + 1..Done + length)
      BY <1>4, <2>1, <3>3, <3>5, <3>6, <3>8, SelectsMore
    <3> QED BY <3>5, <3>7, <3>9
  <2>16. BodiesReachTheirHandlers'
    <3>1. ASSUME ~thrown', NEW k \in {listeners[i] : i \in DOMAIN listeners}
          PROVE  Selects(heard[k], Texts(k))'
      BY <1>2, <2>15, <3>1, ShownStays DEF Selects
    <3> QED BY <1>2, <3>1 DEF BodiesReachTheirHandlers
  <2>17. HeardInv'
    BY <2>13, <2>14, <2>16 DEF HeardInv
  <2> QED BY <1>6, <2>3, <2>6, <2>8, <2>17, <2>19 DEF StreamsInv
<1> QED BY <1>7, <1>8

LEMMA StreamsStep == HttpIInv /\ StreamsInv /\ [Next]_vars => StreamsInv'
<1> SUFFICES ASSUME HttpIInv, StreamsInv, [Next]_vars PROVE StreamsInv'
  OBVIOUS
<1>1. CASE \E b \in Bodies : Send(b)
  BY <1>1, SendKeepsStreams
<1>2. CASE \E how \in {"closed", "reset"} : Leave(how)
  <2>1. UNCHANGED <<sent, taken, conn, chunk, expect, left, span, keys, values,
                    requests, listeners, heard, thrown, damaged, split, cut>>
    BY <1>2 DEF Leave, llhttpVars, parserVars, handlerVars
  <2> QED BY <2>1, ParserStands
<1>3. CASE \E ok \in BOOLEAN : Accept(ok)
  <2>1. /\ UNCHANGED <<sent, taken, chunk, expect, left, span, keys, values,
                       requests, listeners, heard, thrown, damaged, split,
                       cut>>
        /\ conn # "parsing"
    BY <1>3 DEF Accept, clientVars, llhttpVars, parserVars, handlerVars
  <2> QED BY <2>1, ParserStands
<1>4. CASE \E n \in 1..BufferSize : ReadData(n)
  BY <1>4, ReadDataKeepsStreams
<1>5. CASE \E upto \in 0..Messages : ReadEnd(upto)
  <2>1. /\ UNCHANGED <<sent, taken, chunk, expect, left, span, keys, values,
                       requests, listeners, heard, thrown, damaged, split,
                       cut>>
        /\ conn # "parsing"
    BY <1>5 DEF ReadEnd, clientVars, llhttpVars, parserVars
  <2> QED BY <2>1, ParserStands
<1>6. CASE \E upto \in 0..Messages : Body(upto)
  BY <1>6, BodyKeepsStreams
<1>7. CASE ReadFails
  <2>1. /\ UNCHANGED <<sent, taken, chunk, expect, left, span, keys, values,
                       requests, listeners, heard, thrown, damaged, split,
                       cut>>
        /\ conn # "parsing"
    BY <1>7 DEF ReadFails, clientVars, llhttpVars, parserVars, handlerVars
  <2> QED BY <2>1, ParserStands
<1>8. CASE MessageBegin \/ SpanGoesOn \/ SpanEnds
  BY <1>8, MessageBeginKeepsStreams, SpanGoesOnKeepsStreams,
     SpanEndsKeepsStreams
<1>9. CASE \E listens, throws \in BOOLEAN : HeadersComplete(listens, throws)
  BY <1>9, HeadersCompleteKeepsStreams
<1>10. CASE ParseError \/ ParseReturns
  BY <1>10, ParseErrorKeepsStreams, ParseReturnsKeepsStreams
<1>11. CASE UNCHANGED vars
  <2>1. UNCHANGED <<sent, taken, conn, chunk, expect, left, span, keys, values,
                    requests, listeners, heard, thrown, damaged, split, cut>>
    BY <1>11 DEF vars, clientVars, llhttpVars, parserVars, handlerVars
  <2> QED BY <2>1, ParserStands
<1> QED BY <1>1, <1>2, <1>3, <1>4, <1>5, <1>6, <1>7, <1>8, <1>9, <1>10, <1>11
           DEF Next, ClientStep, ServerStep, Idle

LEMMA StreamsInit == Init => StreamsInv
<1> SUFFICES ASSUME Init PROVE StreamsInv
  OBVIOUS
<1>1. /\ sent = <<>> /\ taken = 0 /\ chunk = <<>> /\ expect = "begin"
      /\ requests = <<>> /\ listeners = <<>>
      /\ heard = [m \in 1..Messages |-> <<>>]
  BY DEF Init
<1>2. /\ DOMAIN sent = {} /\ DOMAIN requests = {} /\ DOMAIN listeners = {}
      /\ Len(chunk) = 0 /\ Len(requests) = 0
  BY <1>1, EmptySeq
<1>3. Done = 0 /\ Parsed = {}
  <2>1. taken - Len(chunk) = 0
    <3>1. taken = 0 /\ Len(chunk) = 0
      BY <1>1, <1>2
    <3> QED BY <3>1
  <2>2. 1..0 = {}
    OBVIOUS
  <2> QED BY <2>1, <2>2 DEF Done, Parsed
<1>4. Sent = 0
  <2>1. {i \in DOMAIN sent : sent[i].part = "begin"} = {}
    BY <1>2
  <2> QED BY <2>1, FS_EmptySet DEF Sent
<1>5. StreamInv
  BY <1>1, <1>2, <1>4 DEF StreamInv, IsStream
<1>6. ChunkInv
  BY <1>1, <1>2 DEF ChunkInv
<1>7. PlaceInv
  BY <1>1, <1>3 DEF PlaceInv
<1>8. RequestsInv
  <2>1. Heads = {}
    BY <1>3 DEF Heads
  <2> QED BY <1>2, <2>1, FS_EmptySet DEF RequestsInv
<1>9. HeardInv
  BY <1>1, <1>2, <1>3 DEF HeardInv, BodiesReachTheirHandlers
<1>10. CutInv
  BY <1>2 DEF Init, CutInv, Character
<1> QED BY <1>5, <1>6, <1>7, <1>8, <1>9, <1>10 DEF StreamsInv

LEMMA StreamsInvariance == Spec => [](HttpIInv /\ StreamsInv)
<1>1. Init => HttpIInv /\ StreamsInv
  BY HttpInit, StreamsInit
<1>2. HttpIInv /\ StreamsInv /\ [Next]_vars => HttpIInv' /\ StreamsInv'
  BY HttpStep, StreamsStep
<1> QED BY <1>1, <1>2, PTL DEF Spec

\* However the stream is cut into reads, 'request' is emitted once for each
\* head that is parsed, in order, and with the headers of its message unless
\* a read has split one of its names or values; as long as the parser is
\* given what was sent.
THEOREM RequestsAreAsSent == Spec => []HeadersAsSent
<1>1. HttpIInv /\ StreamsInv => HeadersAsSent
  BY DEF HttpIInv, StreamsInv, RequestsInv, HeadersAsSent
<1> QED BY <1>1, StreamsInvariance, PTL

\* Each handler hears the text of its own body and of those after it, each
\* unit once and in order, however the bodies are cut into reads: of valid
\* text only the characters that a read has cut are replaced, and they are on
\* both sides of the cut.
THEOREM BodiesAreHeard == Spec => []BodiesReachTheirHandlers
<1>1. StreamsInv => BodiesReachTheirHandlers
  BY DEF StreamsInv, HeardInv, BodiesReachTheirHandlers
<1> QED BY <1>1, StreamsInvariance, PTL
=============================================================================
