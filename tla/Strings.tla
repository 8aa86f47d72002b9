------------------------------- MODULE Strings -------------------------------
(* Strings of mquickjs.c.  A string is kept in UTF-8, with unpaired surrogates
   as characters of three bytes, and the language counts in UTF-16 units: here
   a string is the sequence of its code points, where a left surrogate is never
   before a right one.  A UTF-8 position is twice the number of characters
   before it (of bytes in C), plus one between the halves of a character that
   has two units.                                                            *)
EXTENDS Integers, Sequences, SequencesExt

CONSTANTS JS_STRING_POS_CACHE_SIZE, JS_STRING_POS_CACHE_MIN_LEN
CONSTANTS JS_STRING_LEN_MAX,  (* bytes *)
          Undefined           (* an argument left out *)

At_most(a, b) == IF a < b THEN a ELSE b
At_least(a, b) == IF a > b THEN a ELSE b
Astral(c) == c >= 65536
Left == 55296 .. 56319
Right == 56320 .. 57343
LeftHalf(c) == 55296 + (c - 65536) \div 1024
RightHalf(c) == 56320 + ((c - 65536) % 1024)
Units(c) == IF Astral(c) THEN 2 ELSE 1
Bytes(c) == IF c < 128 THEN 1 ELSE IF c < 2048 THEN 2 ELSE IF c < 65536 THEN 3 ELSE 4
ByteLen(s) == FoldLeft(LAMBDA n, c : n + Bytes(c), 0, s)
IsAscii(s) == \A i \in DOMAIN s : s[i] < 128

-----------------------------------------------------------------------------
(* Positions.  i counts characters and j units; flag is set in the middle of
   character i. *)

Place(i, j, flag) == [i |-> i, j |-> j, flag |-> flag]
Unlimited == 2^30
RECURSIVE Forward(_, _, _, _, _)
Forward(s, i, j, end, limit) ==
    IF i >= end \/ j = limit THEN Place(i, j, 0)
    ELSE IF Astral(s[i + 1]) /\ j + 1 = limit THEN Place(i, j, 1)
    ELSE Forward(s, i + 1, j + Units(s[i + 1]), end, limit)
RECURSIVE Backward(_, _, _, _, _)
Backward(s, i, j, start, limit) ==
    LET back == j - Units(s[i])
    IN IF i <= start THEN Place(i, j, 0)
       ELSE IF Astral(s[i]) /\ back + 1 = limit THEN Place(i - 1, back, 1)
       ELSE IF back = limit THEN Place(i - 1, back, 0)
       ELSE Backward(s, i - 1, back, start, limit)
(* The place of a position of one of the two types, from a place known. *)
Scan(s, from, pos, type) ==
    LET end == IF type = "utf8" THEN pos ELSE Len(s)
        limit == IF type = "utf8" THEN Unlimited ELSE pos
        known == IF type = "utf8" THEN from.i ELSE from.j
    IN IF known <= pos THEN Forward(s, from.i, from.j, end, limit)
       ELSE Backward(s, from.i, from.j, IF type = "utf8" THEN pos ELSE 0, limit)
Start == Place(0, 0, 0)
Result(place, pos, type) == IF type = "utf8" THEN place.j + (pos % 2) ELSE 2 * place.i + place.flag
AsciiPos(s, pos, type) == IF type = "utf8" THEN At_most(Len(s), pos \div 2) ELSE 2 * At_most(Len(s), pos)

(* Long strings that are not ASCII: the last places are kept with the string
   they are in, and the nearest one is where the search starts. *)
NoString == 0
EmptyCache == [entry |-> [k \in 1 .. JS_STRING_POS_CACHE_SIZE |-> [str |-> NoString, i |-> 0, j |-> 0]], counter |-> 1]
KnownAt(entry, type) == IF type = "utf8" THEN entry.i ELSE entry.j
Distance(a, b) == IF a >= b THEN a - b ELSE b - a
Nearest(cache, id, pos, type) ==
    LET D(k) == Distance(KnownAt(cache.entry[k], type), pos)
        near == {k \in DOMAIN cache.entry : cache.entry[k].str = id /\ D(k) < pos}
        closest == {k \in near : \A l \in near : D(k) < D(l) \/ (D(k) = D(l) /\ k <= l)}
    IN closest
Kept(cache, k, id, place) == [cache EXCEPT !.entry[k] = [str |-> id, i |-> place.i, j |-> place.j]]
Replaced(cache, id) ==
    [Kept(cache, cache.counter, id, Start) EXCEPT !.counter = IF @ = JS_STRING_POS_CACHE_SIZE THEN 1 ELSE @ + 1]
FromEntry(cache, k, s, id, char, pos, type) ==
    LET place == Scan(s, cache.entry[k], char, type)
    IN [pos |-> Result(place, pos, type), cache |-> Kept(cache, k, id, place)]
(* s is the string whose identity is id. *)
js_string_convert_pos(cache, s, id, pos, type) ==
    LET char == IF type = "utf8" THEN pos \div 2 ELSE pos
        nearest == Nearest(cache, id, char, type)
    IN IF IsAscii(s) THEN [pos |-> AsciiPos(s, pos, type), cache |-> cache]
       ELSE IF ByteLen(s) < JS_STRING_POS_CACHE_MIN_LEN
            THEN [pos |-> Result(Scan(s, Start, char, type), pos, type), cache |-> cache]
       ELSE IF nearest = {} THEN FromEntry(Replaced(cache, id), cache.counter, s, id, char, pos, type)
       ELSE FromEntry(cache, CHOOSE k \in nearest : TRUE, s, id, char, pos, type)
(* Everything else needs a position only, which does not depend on the cache. *)
js_string_utf16_to_utf8_pos(s, pos) ==
    IF IsAscii(s) THEN AsciiPos(s, pos, "utf16") ELSE Result(Scan(s, Start, pos, "utf16"), pos, "utf16")
js_string_utf8_to_utf16_pos(s, pos) ==
    IF IsAscii(s) THEN AsciiPos(s, pos, "utf8") ELSE Result(Scan(s, Start, pos \div 2, "utf8"), pos, "utf8")
js_string_len(s) == js_string_utf8_to_utf16_pos(s, 2 * Len(s))

-----------------------------------------------------------------------------
(* Parts and concatenation. *)

js_sub_string_utf8(s, start, end) ==
    LET first == start \div 2 + 1
        whole == SubSeq(s, first + (start % 2), end \div 2)
        left == IF start % 2 = 1 THEN <<RightHalf(s[first])>> ELSE <<>>
        right == IF end % 2 = 1 THEN <<LeftHalf(s[end \div 2 + 1])>> ELSE <<>>
    IN IF start = end THEN <<>> ELSE left \o whole \o right
js_sub_string(s, start, end) ==
    IF end <= start THEN <<>>
    ELSE js_sub_string_utf8(s, js_string_utf16_to_utf8_pos(s, start), js_string_utf16_to_utf8_pos(s, end))
(* Mutant: surrogates that meet stay two characters. *)
PlainConcat(b, s) == b \o s
(* Two surrogates that meet become one character. *)
string_buffer_concat_str(b, s) ==
    IF b # <<>> /\ s # <<>> /\ Last(b) \in Left /\ Head(s) \in Right
    THEN Front(b) \o <<65536 + (Last(b) - 55296) * 1024 + Head(s) - 56320>> \o Tail(s)
    ELSE b \o s
string_buffer_concat_utf8(b, s, start, end) ==
    IF end <= start THEN b ELSE string_buffer_concat_str(b, js_sub_string_utf8(s, start, end))
string_buffer_concat_utf16(b, s, start, end) ==
    IF end <= start THEN b
    ELSE string_buffer_concat_utf8(b, s, js_string_utf16_to_utf8_pos(s, start), js_string_utf16_to_utf8_pos(s, end))
string_buffer_putc(b, c) == string_buffer_concat_str(b, <<c>>)
JS_ConcatString(s, t) == string_buffer_concat_str(string_buffer_concat_str(<<>>, s), t)

(* Order: of the units, judged from the first characters that differ. *)
js_string_compare(s, t) ==
    LET common == {i \in 1 .. At_most(Len(s), Len(t)) : s[i] # t[i]}
        i == CHOOSE k \in common : \A l \in common : k <= l
        Order(a, b) == IF a < b THEN -1 ELSE 1
    IN IF common = {} THEN (IF Len(s) = Len(t) THEN 0 ELSE Order(Len(s), Len(t)))
       ELSE IF Astral(s[i]) = Astral(t[i]) THEN Order(s[i], t[i])
       ELSE IF Astral(t[i]) THEN (IF s[i] <= LeftHalf(t[i]) THEN -1 ELSE 1)
       ELSE Order(LeftHalf(s[i]), t[i])

(* The unit, or with is_codepoint the character, at a position; -1 behind. *)
string_getcp(s, utf16_pos, is_codepoint) ==
    LET pos == js_string_utf16_to_utf8_pos(s, utf16_pos)
        c == s[pos \div 2 + 1]
    IN IF pos \div 2 >= Len(s) THEN -1
       ELSE IF ~Astral(c) \/ (pos % 2 = 0 /\ is_codepoint) THEN c
       ELSE IF pos % 2 = 0 THEN LeftHalf(c) ELSE RightHalf(c)
string_getc(s, utf16_pos) == string_getcp(s, utf16_pos, FALSE)

-----------------------------------------------------------------------------
(* The methods of String.prototype, on arguments that are integers or
   strings. *)

JS_ToInt32Clamp(v, min, max, offset) ==
    LET w == IF v < 0 THEN v + offset ELSE v IN At_most(At_least(w, min), max)
js_string_slice(s, from, to) ==
    LET len == js_string_len(s)
        start == JS_ToInt32Clamp(from, 0, len, len)
        end == IF to = Undefined THEN len ELSE JS_ToInt32Clamp(to, 0, len, len)
    IN js_sub_string(s, start, At_least(end, start))
js_string_substring(s, from, to) ==
    LET len == js_string_len(s)
        a == JS_ToInt32Clamp(from, 0, len, 0)
        b == IF to = Undefined THEN len ELSE JS_ToInt32Clamp(to, 0, len, 0)
    IN js_sub_string(s, At_most(a, b), At_least(a, b))
(* charAt, charCodeAt and codePointAt; internalAt is the access by an index. *)
js_string_charAt(s, idx, magic) ==
    LET c == IF idx < 0 THEN -1 ELSE string_getcp(s, idx, magic = "codePointAt")
        none == [charCodeAt |-> "NaN", charAt |-> <<>>, internalAt |-> Undefined, codePointAt |-> Undefined]
    IN IF c = -1 THEN none[magic]
       ELSE IF magic \in {"charCodeAt", "codePointAt"} THEN c ELSE <<c>>
js_string_fromCharCode(args, is_fromCodePoint) ==
    LET Legal(c) == ~is_fromCodePoint \/ c \in 0 .. 1114111
        Put(b, c) == string_buffer_putc(b, IF is_fromCodePoint THEN c ELSE c % 65536)
    IN IF \E i \in DOMAIN args : ~Legal(args[i]) THEN "RangeError" ELSE FoldLeft(Put, <<>>, args)
js_string_concat(s, args) == FoldLeft(string_buffer_concat_str, string_buffer_concat_str(<<>>, s), args)
AtUnits(s, i, needle) == \A j \in 0 .. js_string_len(needle) - 1 : string_getc(s, i + j) = string_getc(needle, j)
js_string_indexof(s, needle, start, len, v_len) ==
    LET found == {i \in start .. len - v_len : AtUnits(s, i, needle)}
    IN IF found = {} THEN -1 ELSE CHOOSE i \in found : \A k \in found : i <= k
js_string_indexOf(s, needle, pos) ==
    LET len == js_string_len(s)
        v_len == js_string_len(needle)
    IN js_string_indexof(s, needle, IF pos = Undefined THEN 0 ELSE JS_ToInt32Clamp(pos, 0, len, 0), len, v_len)
js_string_lastIndexOf(s, needle, pos) ==
    LET last == js_string_len(s) - js_string_len(needle)
        start == IF pos = Undefined THEN last ELSE IF pos <= 0 THEN 0 ELSE At_most(pos, last)
        found == {i \in 0 .. start : AtUnits(s, i, needle)}
    IN IF last < 0 \/ found = {} THEN -1 ELSE CHOOSE i \in found : \A k \in found : k <= i
LowerCase == 97 .. 122
UpperCase == 65 .. 90
js_string_toLowerCase(s, to_lower) ==
    LET Changed(c) == IF to_lower /\ c \in UpperCase THEN c + 32 ELSE IF ~to_lower /\ c \in LowerCase THEN c - 32 ELSE c
        Put(b, i) == string_buffer_putc(b, Changed(string_getc(s, i)))
    IN FoldLeft(Put, <<>>, [i \in 1 .. js_string_len(s) |-> i - 1])
unicode_is_space(c) ==
    c \in 9 .. 13 \cup {32, 160, 5760} \cup 8192 .. 8202 \cup {8232, 8233, 8239, 8287, 12288, 65279}
js_string_trim(s, at_start, at_end) ==
    LET len == js_string_len(s)
        Kept1(i) == ~unicode_is_space(string_getc(s, i))
        a == IF at_start THEN CHOOSE i \in 0 .. len : (i = len \/ Kept1(i)) /\ \A k \in 0 .. i - 1 : ~Kept1(k) ELSE 0
        b == IF at_end THEN CHOOSE i \in a .. len : (i = a \/ Kept1(i - 1)) /\ \A k \in i .. len - 1 : ~Kept1(k) ELSE len
    IN js_sub_string(s, a, b)
js_string_repeat(s, n) ==
    IF n < 0 \/ n * ByteLen(s) > JS_STRING_LEN_MAX THEN "RangeError"
    ELSE IF s = <<>> \/ n = 1 THEN s
    ELSE FoldLeft(LAMBDA b, k : string_buffer_concat_str(b, s), <<>>, [k \in 1 .. n |-> k])
=============================================================================
