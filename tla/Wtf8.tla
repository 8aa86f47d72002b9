-------------------------------- MODULE Wtf8 --------------------------------
(* Wtf8.kt, and the engine's readers and writers of the same bytes
   (cutils.c): strings cross between Kotlin, which has UTF-16 units, and the
   engine, which keeps characters, unpaired surrogates among them, as bytes.
   Bytes are 0 .. 255; a read beyond an array is an error of the evaluation. *)
EXTENDS StringsLaw

Replacement == 65533
(* (x >> (6 * k)) & 0x3f *)
Six(x, k) == (x \div 64^k) % 64

-----------------------------------------------------------------------------
(* Kotlin. *)
PointBytes(cp) ==
    CASE cp < 128 -> <<cp>>
      [] cp \in 128 .. 2047 -> <<192 + cp \div 64, 128 + Six(cp, 0)>>
      [] cp \in 2048 .. 65535 -> <<224 + cp \div 4096, 128 + Six(cp, 1), 128 + Six(cp, 0)>>
      [] OTHER -> <<240 + cp \div 262144, 128 + Six(cp, 2), 128 + Six(cp, 1), 128 + Six(cp, 0)>>

(* Mutant: a high surrogate takes the unit behind it, whatever it is. *)
GreedyEncode(text) ==
    LET from[i \in 1 .. Len(text) + 1] ==
            IF i > Len(text) THEN <<>>
            ELSE IF text[i] \in Left /\ i < Len(text)
                 THEN PointBytes(65536 + (text[i] - 55296) * 1024 + (text[i + 1] % 1024)) \o (IF i + 2 > Len(text) THEN <<>> ELSE from[i + 2])
                 ELSE PointBytes(text[i]) \o from[i + 1]
    IN from[1]
encode(text) ==
    LET from[i \in 1 .. Len(text) + 1] ==
            IF i > Len(text) THEN <<>>
            ELSE IF text[i] \in Left /\ i < Len(text) /\ text[i + 1] \in Right
                 THEN PointBytes(65536 + (text[i] - 55296) * 1024 + (text[i + 1] - 56320)) \o from[i + 2]
                 ELSE PointBytes(text[i]) \o from[i + 1]
    IN from[1]

(* The units of the character at i, and its length: nothing is asked of the
   bytes behind the first but that they are there. *)
cont(b) == b % 64
UnitsAt(bytes, i) ==
    LET b0 == bytes[i]
        rest == Len(bytes) - i
        Cont(k) == cont(bytes[i + k])
        v == (b0 % 8) * 262144 + Cont(1) * 4096 + Cont(2) * 64 + Cont(3) - 65536
    IN CASE b0 < 128 -> [units |-> <<b0>>, len |-> 1]
         [] b0 \div 32 = 6 /\ rest >= 1 -> [units |-> <<(b0 % 32) * 64 + Cont(1)>>, len |-> 2]
         [] b0 \div 16 = 14 /\ rest >= 2 -> [units |-> <<(b0 % 16) * 4096 + Cont(1) * 64 + Cont(2)>>, len |-> 3]
         [] b0 \div 8 = 30 /\ rest >= 3 -> [units |-> <<(55296 + v \div 1024) % 65536, (56320 + (v % 1024)) % 65536>>, len |-> 4]
         [] OTHER -> [units |-> <<Replacement>>, len |-> 1]
Decoded(bytes) ==
    LET from[i \in 1 .. Len(bytes) + 4] == IF i > Len(bytes) THEN <<>> ELSE UnitsAt(bytes, i).units \o from[i + UnitsAt(bytes, i).len]
    IN from[1]
(* The Kotlin library's decoder.  Of bytes that are UTF-8 it makes the same
   units, and the law gives it no others. *)
decodeToString(bytes) == Decoded(bytes)
decode(bytes) == IF \A i \in DOMAIN bytes : bytes[i] # 237 THEN decodeToString(bytes) ELSE Decoded(bytes)

-----------------------------------------------------------------------------
(* The engine. *)
unicode_to_utf8(c) ==
    LET Lower(n) == [k \in 1 .. n |-> 128 + Six(c, n - k)]
    IN IF c < 128 THEN <<c>>
       ELSE IF c < 2048 THEN <<192 + c \div 64>> \o Lower(1)
       ELSE IF c < 65536 THEN <<224 + c \div 4096>> \o Lower(2)
       ELSE IF c < 2097152 THEN <<240 + c \div 262144>> \o Lower(3) ELSE <<>>
utf8_char_len(c) == IF c < 192 THEN 1 ELSE IF c < 224 THEN 2 ELSE IF c < 240 THEN 3 ELSE IF c < 248 THEN 4 ELSE 1

(* The character that n bytes at i make, without a check. *)
Joined(b, i, n) ==
    CASE n = 1 -> b[i]
      [] n = 2 -> (b[i] % 32) * 64 + (b[i + 1] % 64)
      [] n = 3 -> (b[i] % 16) * 4096 + (b[i + 1] % 64) * 64 + (b[i + 2] % 64)
      [] n = 4 -> (b[i] % 8) * 262144 + (b[i + 1] % 64) * 4096 + (b[i + 2] % 64) * 64 + (b[i + 3] % 64)
utf8_get(b, i) == [c |-> Joined(b, i, utf8_char_len(b[i])), len |-> utf8_char_len(b[i])]

(* The bytes from the second on are asked for in order, and the first that is
   not there or does not continue says how many to skip. *)
Smallest == <<0, 128, 2048, 65536>>
unicode_from_utf8(b, i, max_len) ==
    LET n == utf8_char_len(b[i])
        Continues(k) == k < max_len /\ b[i + k] \div 64 = 2
        stops == {k \in 1 .. n - 1 : ~Continues(k)}
        c == Joined(b, i, n)
    IN IF b[i] < 128 THEN [c |-> b[i], len |-> 1]
       ELSE IF n = 1 THEN [c |-> -1, len |-> 1]
       ELSE IF stops # {} THEN [c |-> -1, len |-> Min(stops)]
       ELSE [c |-> IF c < Smallest[n] \/ c > 1114111 THEN -1 ELSE c, len |-> n]

(* The characters a string made of these bytes has. *)
JS_NewStringLen(b) ==
    LET from[i \in 1 .. Len(b) + 4] == IF i > Len(b) THEN <<>> ELSE <<utf8_get(b, i).c>> \o from[i + utf8_char_len(b[i])]
    IN from[1]

-----------------------------------------------------------------------------
(* The engine has the units that were sent, in its own form, and writes them as the
   bytes it got; Kotlin gets back what it sent.  Both readers of the engine
   agree.  A text that ends within a character keeps all before it; each byte
   left is a replacement character for decode, and they are one mistake for
   the engine.                                                             *)
EncodedLaw(text, b) ==
    /\ Len(b) <= 3 * Len(text)
    /\ decode(b) = text
    /\ Stands(JS_NewStringLen(b), text)
    /\ FlattenSeq([i \in DOMAIN JS_NewStringLen(b) |-> unicode_to_utf8(JS_NewStringLen(b)[i])]) = b
    /\ \A i \in {i \in DOMAIN b : b[i] \div 64 # 2} : unicode_from_utf8(b, i, 4) = utf8_get(b, i)
CutLaw(text, b, n) ==
    LET start == CHOOSE i \in 1 .. n : b[i] \div 64 # 2 /\ \A k \in i + 1 .. n : b[k] \div 64 = 2
        part == SubSeq(b, 1, n)
        whole == SubSeq(b, 1, start - 1)
    IN \/ start + utf8_char_len(b[start]) = n + 1
       \/ /\ (\E i \in 1 .. n : b[i] = 237) => decode(part) = decode(whole) \o [k \in 1 .. n - start + 1 |-> Replacement]
          /\ unicode_from_utf8(part, start, n - start + 1) = [c |-> -1, len |-> n - start + 1]
          /\ \E k \in 0 .. Len(text) : decode(whole) = SubSeq(text, 1, k)
Wtf8Law(text) ==
    \A b \in {encode(text)} : EncodedLaw(text, b) /\ \A n \in 1 .. Len(b) - 1 : CutLaw(text, b, n)
=============================================================================
