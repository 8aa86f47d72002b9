------------------------------ MODULE StringsLaw ------------------------------
(* What the strings of module Strings promise: that they behave as sequences
   of UTF-16 units.  Units16 is that sequence, and the reference of each
   operation is written on it.                                             *)
EXTENDS Strings

Units16(s) == FlattenSeq([i \in 1 .. Len(s) |-> IF Astral(s[i]) THEN <<LeftHalf(s[i]), RightHalf(s[i])>> ELSE <<s[i]>>])
Canonical(s) == \A i \in 1 .. Len(s) - 1 : ~(s[i] \in Left /\ s[i + 1] \in Right)
(* A string that stands for the units u. *)
Stands(s, u) == Canonical(s) /\ Units16(s) = u

(* A position in units is the end of a character, or its middle. *)
UnitsBefore(s, i) == Len(Units16(SubSeq(s, 1, i)))
PlaceOf(s, pos) ==
    LET last == CHOOSE i \in 0 .. Len(s) : UnitsBefore(s, i) <= pos /\ \A k \in i + 1 .. Len(s) : UnitsBefore(s, k) > pos
    IN IF pos >= UnitsBefore(s, Len(s)) THEN 2 * Len(s) ELSE 2 * last + pos - UnitsBefore(s, last)

(* A query is which of two strings, a position and its type; whatever was
   asked before, the answer is the position's.  A position beyond the string
   is taken as its end, and a query in UTF-8 is of a place in the string. *)
Answer(s, pos, type) ==
    IF type = "utf16" THEN PlaceOf(s, pos) ELSE UnitsBefore(s, pos \div 2) + (pos % 2)
InString(s, q) == q.type = "utf8" => \E p \in 0 .. UnitsBefore(s, Len(s)) : PlaceOf(s, p) = q.pos
Ask(two, asked, q) ==
    LET r == js_string_convert_pos(asked.cache, two[q.id], q.id, q.pos, q.type)
    IN [cache |-> r.cache, ok |-> asked.ok /\ r.pos = Answer(two[q.id], q.pos, q.type)]
RECURSIVE Consistent(_, _, _, _)
Consistent(two, asked, queries, n) ==
    /\ asked.ok
    /\ n > 0 => \A q \in queries : InString(two[q.id], q) => Consistent(two, Ask(two, asked, q), queries, n - 1)
CacheLaw(two, first, queries, n) ==
    InString(two[first.id], first) => Consistent(two, Ask(two, [cache |-> EmptyCache, ok |-> TRUE], first), queries, n)

-----------------------------------------------------------------------------
Clamp(v, len) == At_most(At_least(v, 0), len)
Relative(v, len) == IF v = Undefined THEN len ELSE Clamp(IF v < 0 THEN len + v ELSE v, len)
Absolute(v, len) == IF v = Undefined THEN len ELSE Clamp(v, len)
Part(u, from, to) == SubSeq(u, from + 1, to)
PartLaw(s, a, b) ==
    LET u == Units16(s)
        len == Len(u)
        from == Absolute(a, len)
        to == Absolute(b, len)
    IN /\ js_string_len(s) = len
       /\ Stands(js_string_slice(s, a, b), Part(u, Relative(a, len), Relative(b, len)))
       /\ Stands(js_string_substring(s, a, b), Part(u, At_most(from, to), At_least(from, to)))
       /\ LET unit == js_string_charAt(s, a, "charCodeAt")
              char == js_string_charAt(s, a, "charAt")
              point == js_string_charAt(s, a, "codePointAt")
          IN IF a \in 0 .. len - 1
             THEN /\ unit = u[a + 1] /\ char = <<unit>>
                  /\ point = IF Len(js_string_slice(s, a, At_most(a + 2, len))) = 1 /\ a + 1 < len
                             THEN js_string_slice(s, a, a + 2)[1] ELSE unit
             ELSE unit = "NaN" /\ char = <<>> /\ point = Undefined

(* Concatenation, order and search of two strings.  The order of the units is
   kept except behind an unpaired surrogate that the other string continues
   to a pair while this one goes on with a unit above the surrogates. *)
Less16(u, v) ==
    \E n \in 0 .. At_most(Len(u), Len(v)) :
        /\ SubSeq(u, 1, n) = SubSeq(v, 1, n)
        /\ n < Len(v) /\ (n = Len(u) \/ u[n + 1] < v[n + 1])
Misjudged(s, t) ==
    \E i \in 1 .. At_most(Len(s) - 1, Len(t)) :
        SubSeq(s, 1, i - 1) = SubSeq(t, 1, i - 1) /\ Astral(t[i]) /\ s[i] = LeftHalf(t[i]) /\ s[i + 1] > 57343
Order16(u, v) == IF u = v THEN 0 ELSE IF Less16(u, v) THEN -1 ELSE 1
Occurs(u, v, i) == i + Len(v) <= Len(u) /\ SubSeq(u, i + 1, i + Len(v)) = v
First16(u, v, from) ==
    IF \E i \in from .. Len(u) : Occurs(u, v, i) THEN CHOOSE i \in from .. Len(u) : Occurs(u, v, i) /\ \A k \in from .. i - 1 : ~Occurs(u, v, k) ELSE -1
Last16(u, v, to) ==
    IF \E i \in 0 .. to : Occurs(u, v, i) THEN CHOOSE i \in 0 .. to : Occurs(u, v, i) /\ \A k \in i + 1 .. to : ~Occurs(u, v, k) ELSE -1
PairLaw(s, t, positions) ==
    LET u == Units16(s)
        v == Units16(t)
    IN /\ Stands(JS_ConcatString(s, t), u \o v)
       /\ Stands(js_string_concat(s, <<t, s>>), u \o v \o u)
       /\ js_string_compare(s, t) = IF Misjudged(s, t) THEN -1 ELSE IF Misjudged(t, s) THEN 1 ELSE Order16(u, v)
       /\ \A a \in positions :
            /\ js_string_indexOf(s, t, a) = First16(u, v, IF a = Undefined THEN 0 ELSE Clamp(a, Len(u)))
            /\ js_string_lastIndexOf(s, t, a) = Last16(u, v, IF a = Undefined THEN Len(u) ELSE At_least(a, 0))

Mapped(u, F(_)) == [i \in DOMAIN u |-> F(u[i])]
Trimmed(u, at_start, at_end) ==
    LET space == [i \in DOMAIN u |-> unicode_is_space(u[i])]
        keep == {i \in DOMAIN u : ~space[i]}
    IN {p \in (1 .. Len(u) + 1) \X (0 .. Len(u)) :
          /\ (~at_start => p[1] = 1) /\ (at_start => (keep = {} \/ p[1] \in keep) /\ \A k \in 1 .. p[1] - 1 : space[k])
          /\ (~at_end => p[2] = Len(u)) /\ (at_end => (keep = {} \/ p[2] \in keep) /\ \A k \in p[2] + 1 .. Len(u) : space[k])}
Repeated(u, n) == FlattenSeq([k \in 1 .. n |-> u])
WholeLaw(s) ==
    LET u == Units16(s)
    IN /\ Stands(js_string_toLowerCase(s, TRUE), Mapped(u, LAMBDA c : IF c \in UpperCase THEN c + 32 ELSE c))
       /\ Stands(js_string_toLowerCase(s, FALSE), Mapped(u, LAMBDA c : IF c \in LowerCase THEN c - 32 ELSE c))
       /\ \A at_start, at_end \in BOOLEAN :
            \A cuts \in {Trimmed(u, at_start, at_end)}, trimmed \in {js_string_trim(s, at_start, at_end)} :
                Canonical(trimmed) /\ IF \A i \in DOMAIN u : unicode_is_space(u[i])
                                      THEN Units16(trimmed) = IF at_start \/ at_end THEN <<>> ELSE u
                                      ELSE \E p \in cuts : Units16(trimmed) = SubSeq(u, p[1], p[2])
       /\ \A n \in 0 .. 3 :
            IF n * ByteLen(s) > JS_STRING_LEN_MAX THEN js_string_repeat(s, n) = "RangeError" ELSE Stands(js_string_repeat(s, n), Repeated(u, n))
       /\ Stands(js_string_fromCharCode(u, FALSE), u)
       /\ Stands(js_string_fromCharCode(s, TRUE), u)
===============================================================================
