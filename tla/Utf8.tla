-------------------------------- MODULE Utf8 ---------------------------------
(***************************************************************************)
(* toUTF8 and fromUTF8 of libs/buffer, of one character: its code point,   *)
(* and the bytes.  Strings are encoded and decoded character by character. *)
(* The ranges of toUTF8 are open at both ends, so that the code points at  *)
(* the ends, such as 127 and 128, fall into the last branch, of six bytes. *)
(***************************************************************************)
EXTENDS Integers, Sequences, TLAPS

\* Six bits of a code point from bit n on, weight = 2^n, in a byte that
\* continues a character: ((code >> n) & 0x3F) | 0x80.
Continue(code, weight) == 128 + ((code \div weight) % 64)

\* toUTF8: the number of bytes.  The branch of five is of no code point.
Bytes(code) ==
    IF code > 0 /\ code < 127 THEN 1
    ELSE IF code > 128 /\ code < 2047 THEN 2
    ELSE IF code > 2048 /\ code < 65535 THEN 3
    ELSE IF code > 65536 /\ code < 1114111 THEN 4
    ELSE 6

ToUTF8(code) ==
    IF Bytes(code) = 1 THEN <<code>>
    ELSE IF Bytes(code) = 2 THEN
           <<192 + ((code \div 64) % 32), Continue(code, 1)>>
    ELSE IF Bytes(code) = 3 THEN
           <<224 + ((code \div 4096) % 16), Continue(code, 64),
             Continue(code, 1)>>
    ELSE IF Bytes(code) = 4 THEN
           <<240 + ((code \div 262144) % 8), Continue(code, 4096),
             Continue(code, 64), Continue(code, 1)>>
    ELSE
           <<252 + ((code \div 1073741824) % 2), Continue(code, 16777216),
             Continue(code, 262144), Continue(code, 4096),
             Continue(code, 64), Continue(code, 1)>>

\* countByte: the leading ones of the first byte, or one.
CountByte(byte) ==
    IF byte < 192 THEN 1
    ELSE IF byte < 224 THEN 2
    ELSE IF byte < 240 THEN 3
    ELSE IF byte < 248 THEN 4
    ELSE IF byte < 252 THEN 5
    ELSE IF byte < 254 THEN 6
    ELSE 7

\* (byte & 0x3F) << n
Part(byte, weight) == (byte % 64) * weight

\* fromUTF8, of the character at the beginning.
FromUTF8(bytes) ==
    IF CountByte(bytes[1]) = 1 THEN bytes[1]
    ELSE IF CountByte(bytes[1]) = 2 THEN
           (bytes[1] % 32) * 64 + Part(bytes[2], 1)
    ELSE IF CountByte(bytes[1]) = 3 THEN
           (bytes[1] % 16) * 4096 + Part(bytes[2], 64) + Part(bytes[3], 1)
    ELSE IF CountByte(bytes[1]) = 4 THEN
           (bytes[1] % 8) * 262144 + Part(bytes[2], 4096)
             + Part(bytes[3], 64) + Part(bytes[4], 1)
    ELSE IF CountByte(bytes[1]) = 5 THEN
           (bytes[1] % 4) * 16777216 + Part(bytes[2], 262144)
             + Part(bytes[3], 4096) + Part(bytes[4], 64) + Part(bytes[5], 1)
    ELSE  \* six; seven is thrown
           (bytes[1] % 2) * 1073741824 + Part(bytes[2], 16777216)
             + Part(bytes[3], 262144) + Part(bytes[4], 4096)
             + Part(bytes[5], 64) + Part(bytes[6], 1)

CodePoints == {c \in Nat : c < 1114112}
-----------------------------------------------------------------------------
\* The parts of a code point, put together again.
LEMMA Together ==
    ASSUME NEW c \in Nat, c < 1114112
    PROVE  /\ c < 2048 => ((c \div 64) % 32) = c \div 64
           /\ c < 65536 => ((c \div 4096) % 16) = c \div 4096
           /\ ((c \div 262144) % 8) = c \div 262144
           /\ (c \div 64) * 64 + (c % 64) = c
           /\ (c \div 4096) * 4096 + ((c \div 64) % 64) * 64 + (c % 64) = c
           /\ (c \div 262144) * 262144 + ((c \div 4096) % 64) * 4096
                + ((c \div 64) % 64) * 64 + (c % 64) = c
           /\ c \div 16777216 = 0 /\ c \div 1073741824 = 0
           /\ ((c \div 262144) % 64) = c \div 262144
           /\ c \div 64 \in Nat /\ c \div 4096 \in Nat
           /\ c \div 262144 \in Nat
<1>1. c < 2048 => ((c \div 64) % 32) = c \div 64
  BY SMT
<1>2. c < 65536 => ((c \div 4096) % 16) = c \div 4096
  BY SMT
<1>3. /\ ((c \div 262144) % 8) = c \div 262144
      /\ ((c \div 262144) % 64) = c \div 262144
  BY SMT
<1>4. (c \div 64) * 64 + (c % 64) = c
  BY SMT
<1>5. c \div 16777216 = 0 /\ c \div 1073741824 = 0
  BY SMT
<1>6. /\ c \div 64 \in Nat /\ c \div 4096 \in Nat
      /\ c \div 262144 \in Nat
  BY SMT
<1>7. (c \div 4096) * 4096 + ((c \div 64) % 64) * 64 + (c % 64) = c
  BY SMT
<1>8. (c \div 262144) * 262144 + ((c \div 4096) % 64) * 4096
                + ((c \div 64) % 64) * 64 + (c % 64) = c
  BY SMT
<1> QED BY <1>1, <1>2, <1>3, <1>4, <1>5, <1>6, <1>7, <1>8, SMT

\* fromUTF8 of what toUTF8 gives for a character is that character, for every
\* code point, also those that toUTF8 puts into six bytes.
THEOREM RoundTrip == \A c \in CodePoints : FromUTF8(ToUTF8(c)) = c
<1> SUFFICES ASSUME NEW c \in CodePoints
             PROVE  FromUTF8(ToUTF8(c)) = c
  BY SMT
<1>1. CASE Bytes(c) = 1
  <2>1. ToUTF8(c) = <<c>> /\ c < 127
    BY <1>1, SMT DEF ToUTF8, Bytes, CodePoints
  <2> QED BY <2>1, SMT DEF FromUTF8, CountByte, CodePoints
<1>2. CASE Bytes(c) = 2
  <2> DEFINE a == 192 + ((c \div 64) % 32)
             b == 128 + (c % 64)
  <2>1. ToUTF8(c) = <<a, b>> /\ c < 2047
    BY <1>2, SMT DEF ToUTF8, Bytes, Continue, CodePoints
  <2>2. CountByte(a) = 2
    BY SMT DEF CountByte, CodePoints
  <2>3. (a % 32) = ((c \div 64) % 32) /\ (b % 64) = (c % 64)
    BY SMT DEF CodePoints
  <2> HIDE DEF a, b
  <2>4. FromUTF8(<<a, b>>) = (a % 32) * 64 + (b % 64) * 1
    BY <2>2, SMT DEF FromUTF8, Part
  <2> QED BY <2>1, <2>3, <2>4, Together, SMT DEF CodePoints
<1>3. CASE Bytes(c) = 3
  <2> DEFINE a == 224 + ((c \div 4096) % 16)
             b == 128 + ((c \div 64) % 64)
             d == 128 + (c % 64)
  <2>1. ToUTF8(c) = <<a, b, d>> /\ c < 65535
    BY <1>3, SMT DEF ToUTF8, Bytes, Continue, CodePoints
  <2>2. CountByte(a) = 3
    BY SMT DEF CountByte, CodePoints
  <2>3. /\ (a % 16) = ((c \div 4096) % 16) /\ (b % 64) = ((c \div 64) % 64)
        /\ (d % 64) = (c % 64)
    BY SMT DEF CodePoints
  <2> HIDE DEF a, b, d
  <2>4. FromUTF8(<<a, b, d>>) =
          (a % 16) * 4096 + (b % 64) * 64 + (d % 64) * 1
    BY <2>2, SMT DEF FromUTF8, Part
  <2> QED BY <2>1, <2>3, <2>4, Together, SMT DEF CodePoints
<1>4. CASE Bytes(c) = 4
  <2> DEFINE a == 240 + ((c \div 262144) % 8)
             b == 128 + ((c \div 4096) % 64)
             d == 128 + ((c \div 64) % 64)
             e == 128 + (c % 64)
  <2>1. ToUTF8(c) = <<a, b, d, e>> /\ c < 2097152
    BY <1>4, SMT DEF ToUTF8, Bytes, Continue, CodePoints
  <2>2. CountByte(a) = 4
    BY SMT DEF CountByte, CodePoints
  <2>3. /\ (a % 8) = ((c \div 262144) % 8) /\ (b % 64) = ((c \div 4096) % 64)
        /\ (d % 64) = ((c \div 64) % 64) /\ (e % 64) = (c % 64)
    BY SMT DEF CodePoints
  <2> HIDE DEF a, b, d, e
  <2>4. FromUTF8(<<a, b, d, e>>) =
          (a % 8) * 262144 + (b % 64) * 4096 + (d % 64) * 64 + (e % 64) * 1
    BY <2>2, SMT DEF FromUTF8, Part
  <2> QED BY <2>1, <2>3, <2>4, Together, SMT DEF CodePoints
<1>5. CASE Bytes(c) = 6
  <2> DEFINE b == 128 + ((c \div 262144) % 64)
             d == 128 + ((c \div 4096) % 64)
             e == 128 + ((c \div 64) % 64)
             f == 128 + (c % 64)
  <2>1. ToUTF8(c) = <<252, 128, b, d, e, f>>
    <3>1. /\ 252 + ((c \div 1073741824) % 2) = 252
          /\ Continue(c, 16777216) = 128
      BY SMT DEF Continue, CodePoints
    <3>2. /\ Continue(c, 262144) = b /\ Continue(c, 4096) = d
          /\ Continue(c, 64) = e /\ Continue(c, 1) = f
      BY SMT DEF Continue, CodePoints
    <3> HIDE DEF b, d, e, f
    <3> QED BY <1>5, <3>1, <3>2, SMT DEF ToUTF8
  <2>2. CountByte(252) = 6
    BY SMT DEF CountByte
  <2>3. /\ (b % 64) = ((c \div 262144) % 64) /\ (d % 64) = ((c \div 4096) % 64)
        /\ (e % 64) = ((c \div 64) % 64) /\ (f % 64) = (c % 64)
    BY SMT DEF CodePoints
  <2> HIDE DEF b, d, e, f
  <2>4. FromUTF8(<<252, 128, b, d, e, f>>) =
          0 * 1073741824 + 0 * 16777216 + (b % 64) * 262144
            + (d % 64) * 4096 + (e % 64) * 64 + (f % 64) * 1
    BY <2>2, SMT DEF FromUTF8, Part
  <2> QED BY <2>1, <2>3, <2>4, Together, SMT DEF CodePoints
<1> QED BY <1>1, <1>2, <1>3, <1>4, <1>5, SMT DEF Bytes

\* The first byte of a character tells how many bytes it has, so that in a
\* string fromUTF8 goes from one character of toUTF8 to the next.
THEOREM FirstByteCounts ==
    \A c \in CodePoints : CountByte(ToUTF8(c)[1]) = Len(ToUTF8(c))
<1> SUFFICES ASSUME NEW c \in CodePoints
             PROVE  CountByte(ToUTF8(c)[1]) = Len(ToUTF8(c))
  BY SMT
<1> DEFINE p == (c \div 64) % 32
           q == (c \div 4096) % 16
           r == (c \div 262144) % 8
           s == (c \div 1073741824) % 2
<1>1. p \in 0..31 /\ q \in 0..15 /\ r \in 0..7 /\ s \in 0..1
  BY SMT DEF CodePoints
<1>2. CASE Bytes(c) = 1
  BY <1>2, SMT DEF ToUTF8, Bytes, CountByte, CodePoints
<1> HIDE DEF p, q, r, s
<1>3. CASE Bytes(c) = 2
  <2>1. ToUTF8(c) = <<192 + p, Continue(c, 1)>>
    BY <1>3, SMT DEF ToUTF8, p
  <2> QED BY <1>1, <2>1, SMT DEF CountByte
<1>4. CASE Bytes(c) = 3
  <2>1. ToUTF8(c) = <<224 + q, Continue(c, 64), Continue(c, 1)>>
    BY <1>4, SMT DEF ToUTF8, q
  <2> QED BY <1>1, <2>1, SMT DEF CountByte
<1>5. CASE Bytes(c) = 4
  <2>1. ToUTF8(c) = <<240 + r, Continue(c, 4096), Continue(c, 64),
                      Continue(c, 1)>>
    BY <1>5, SMT DEF ToUTF8, r
  <2> QED BY <1>1, <2>1, SMT DEF CountByte
<1>6. CASE Bytes(c) = 6
  <2>1. ToUTF8(c) = <<252 + s, Continue(c, 16777216), Continue(c, 262144),
                      Continue(c, 4096), Continue(c, 64), Continue(c, 1)>>
    BY <1>6, SMT DEF ToUTF8, s
  <2> QED BY <1>1, <2>1, SMT DEF CountByte
<1> QED BY <1>2, <1>3, <1>4, <1>5, <1>6, SMT DEF Bytes

\* Exactly the eight code points at the ends of the open ranges get six bytes,
\* which only fromUTF8 of this library reads.  They are not all that toUTF8
\* does not encode as UTF-8: it gives a lone surrogate three bytes.
THEOREM EndsTakeSix ==
    \A c \in CodePoints :
        Bytes(c) = 6 <=> c \in {0, 127, 128, 2047, 2048, 65535, 65536, 1114111}
BY SMT DEF Bytes, CodePoints
=============================================================================
