------------------------------ MODULE RegexpApi ------------------------------
(* RegExp objects and the string methods that search in mquickjs.c.  A RegExp
   has its compiled code and lastIndex, which counts UTF-16 units, while
   matching counts characters.  Strings are those of module Strings.        *)
EXTENDS Strings

CONSTANTS Null,
          Replacer(_),   (* what a function given to replace returns *)
          MATCHES_MAX    (* the length of an array that fills the heap *)
RX == INSTANCE Regexp

js_regexp_constructor(src, flags) == [re |-> RX!js_compile_regexp(src, flags), last_index |-> 0]
js_regexp_get_flags(p) == SelectSeq(<<"g", "i", "m", "s", "u", "y">>, LAMBDA c : c \in p.re.flags)
js_regexp_set_lastIndex(p, n) == [p EXCEPT !.last_index = n]

(* The places of capture k, in characters, when it took part. *)
Took(cap, k) == cap[2 * k] # -1 /\ cap[2 * k + 1] # -1
Captured(s, cap, k) == IF Took(cap, k) THEN js_sub_string_utf8(s, 2 * cap[2 * k], 2 * cap[2 * k + 1]) ELSE Undefined
UnitPos(s, i) == js_string_utf8_to_utf16_pos(s, 2 * i)
CharPos(s, pos) == js_string_utf16_to_utf8_pos(s, pos) \div 2

-----------------------------------------------------------------------------
(* exec, test and search.  lasts tells whether lastIndex counts. *)
MAGIC_REGEXP == {"exec", "test", "search", "force_global"}

Failure == [exec |-> Null, test |-> FALSE, search |-> -1, force_global |-> Null]
MatchArray(p, s, cap) ==
    [index |-> UnitPos(s, cap[0]), captures |-> [k \in 1 .. p.re.captures |-> Captured(s, cap, k - 1)]]
Matched(p, s, magic, lasts, cap) ==
    [value |-> CASE magic = "search" -> UnitPos(s, cap[0])
                 [] magic = "test" -> TRUE
                 [] OTHER -> MatchArray(p, s, cap),
     p |-> IF lasts /\ magic # "search" THEN [p EXCEPT !.last_index = UnitPos(s, cap[1])] ELSE p]
Executed(p, s, magic, lasts, st) ==
    IF st.result = 1 THEN Matched(p, s, magic, lasts, st.cap)
    ELSE [value |-> Failure[magic], p |-> IF lasts THEN [p EXCEPT !.last_index = 0] ELSE p]
ExecutedAt(p, s, magic, lasts, last_index) ==
    Executed(p, s, magic, lasts,
             RX!lre_exec(p.re, RX!NoCaptures(p.re), s, IF last_index <= 0 THEN 0 ELSE CharPos(s, last_index)))
js_regexp_exec(p, s, magic) ==
    LET lasts == magic = "force_global" \/ "g" \in p.re.flags \/ "y" \in p.re.flags
    IN ExecutedAt(p, s, magic, lasts, IF lasts /\ magic # "search" THEN p.last_index ELSE 0)

-----------------------------------------------------------------------------
(* The text that replaces one match: m has its place in units, its captures,
   and how many captures a template can name; a needle is one capture.  A
   template is read byte by byte: behind a dollar the first byte of a longer
   character is copied, then its rest with what follows up to the next dollar.
   A rest of one byte alone becomes a character, and the text is no UTF-8.  *)
Dollar == 36
Digits == 48 .. 57
BrokenChar == -2
Subst(b, s, m, k) == IF m.captures[k] = Undefined THEN b ELSE string_buffer_concat_str(b, m.captures[k])
(* What the template has from character i on, up to end; rest when i is the
   rest of a character already copied. *)
Piece(b, t, i, end, rest) ==
    IF ~rest THEN string_buffer_concat_utf8(b, t, 2 * (i - 1), 2 * (end - 1))
    ELSE IF end = i + 1 /\ Bytes(t[i]) = 2 THEN Append(Front(b), BrokenChar)
    ELSE string_buffer_concat_utf8(b, t, 2 * i, 2 * (end - 1))
RECURSIVE Template(_, _, _, _, _, _)
Template(b, s, t, m, i, rest) ==
    LET j == CHOOSE k \in i .. Len(t) + 1 : (k = Len(t) + 1 \/ t[k] = Dollar) /\ \A l \in i .. k - 1 : t[l] # Dollar
        c == t[j + 1]
        two == c \in Digits /\ j + 2 <= Len(t) /\ t[j + 2] \in Digits
        n == IF two THEN 10 * (c - 48) + t[j + 2] - 48 ELSE c - 48
        next == IF two THEN j + 3 ELSE j + 2
        before == Piece(b, t, i, j, rest)
        With(b1) == Template(b1, s, t, m, next, FALSE)
    IN IF j >= Len(t) THEN Piece(b, t, i, Len(t) + 1, rest)
       ELSE CASE c = Dollar -> With(string_buffer_putc(before, Dollar))
              [] c = 38 -> With(Subst(before, s, m, 1))
              [] c = 96 -> With(string_buffer_concat_utf16(before, s, 0, m.start))
              [] c = 39 -> With(string_buffer_concat_utf16(before, s, m.end, js_string_len(s)))
              [] c \in Digits /\ n \in 1 .. m.named - 1 -> With(Subst(before, s, m, n + 1))
              [] OTHER -> Template(string_buffer_concat_str(before, SubSeq(t, j, next - 1)), s, t, m,
                                   IF c < 128 THEN next ELSE j + 1, c >= 128)
js_string_concat_subst(b, s, rep, m) ==
    IF rep.fn THEN string_buffer_concat_str(b, Replacer([captures |-> m.captures, pos |-> m.start, str |-> s]))
    ELSE Template(b, s, rep.text, m, 1, FALSE)

-----------------------------------------------------------------------------
(* replace with a RegExp.  x has the buffer, the end of the last match, where
   to go on, and the captures, which a match overwrites.                   *)
MatchOf(p, s, cap) ==
    [start |-> UnitPos(s, cap[0]), end |-> UnitPos(s, cap[1]), named |-> p.re.captures,
     captures |-> [k \in 1 .. p.re.captures |-> Captured(s, cap, k - 1)]]
Lasting(p) == "g" \in p.re.flags \/ "y" \in p.re.flags
(* Where the search goes on: behind an empty match, one character later. *)
NextIndex(s, m) ==
    IF m.end # m.start THEN m.end ELSE m.end + 1 + (IF string_getcp(s, m.end, TRUE) >= 65536 THEN 1 ELSE 0)
Replaced1(x, s, rep, cap, m) ==
    [x EXCEPT !.b = js_string_concat_subst(string_buffer_concat_utf16(@, s, x.end, m.start), s, rep, m),
              !.end = m.end, !.cap = cap, !.last_index = NextIndex(s, m)]
NoneLeft(x) == [x EXCEPT !.p.last_index = IF Lasting(x.p) THEN 0 ELSE @, !.done = TRUE]
AfterOne(x, m) ==
    IF "g" \in x.p.re.flags THEN x
    ELSE [x EXCEPT !.done = TRUE, !.p.last_index = IF "y" \in x.p.re.flags THEN m.end ELSE @]
AfterExec(x, s, rep, st) ==
    IF st.result # 1 THEN NoneLeft(x)
    ELSE AfterOne(Replaced1(x, s, rep, st.cap, MatchOf(x.p, s, st.cap)), MatchOf(x.p, s, st.cap))
RECURSIVE Replacements(_, _, _)
Replacements(x, s, rep) ==
    IF x.done THEN x
    ELSE IF x.last_index > js_string_len(s) THEN NoneLeft(x)
    ELSE Replacements(AfterExec(x, s, rep, RX!lre_exec(x.p.re, x.cap, s, CharPos(s, x.last_index))), s, rep)
ReplacedAll(x, s) == [value |-> string_buffer_concat_utf16(x.b, s, x.end, js_string_len(s)), p |-> x.p]
js_string_replace(s, p0, rep) ==
    LET p == IF "g" \in p0.re.flags THEN [p0 EXCEPT !.last_index = 0] ELSE p0
    IN ReplacedAll(Replacements([p |-> p, b |-> <<>>, end |-> 0, done |-> FALSE, cap |-> RX!NoCaptures(p.re),
                                 last_index |-> IF Lasting(p) THEN At_least(p.last_index, 0) ELSE 0], s, rep), s)

(* replace and replaceAll with a text. *)
NeedleAt(s, needle, end, first) ==
    IF needle # <<>> THEN js_string_indexof(s, needle, end, js_string_len(s), js_string_len(needle))
    ELSE IF first THEN 0
    ELSE IF end >= js_string_len(s) THEN -1 ELSE end + 1
TextMatch(s, needle, pos) == [start |-> pos, end |-> pos + js_string_len(needle), captures |-> <<needle>>, named |-> 1]
TextReplaced(x, s, rep, m) ==
    [b |-> js_string_concat_subst(string_buffer_concat_utf16(x.b, s, x.end, m.start), s, rep, m), end |-> m.end,
     first |-> FALSE, done |-> ~rep.all]
TextStep(x, s, needle, rep, pos) == IF pos < 0 THEN [x EXCEPT !.done = TRUE] ELSE TextReplaced(x, s, rep, TextMatch(s, needle, pos))
RECURSIVE TextReplacements(_, _, _, _)
TextReplacements(x, s, needle, rep) ==
    IF x.done THEN x
    ELSE TextReplacements(TextStep(x, s, needle, rep, NeedleAt(s, needle, x.end, x.first)), s, needle, rep)
TextRest(x, s) == string_buffer_concat_utf16(x.b, s, x.end, js_string_len(s))
js_string_replace_text(s, needle, rep) ==
    TextRest(TextReplacements([b |-> <<>>, end |-> 0, first |-> TRUE, done |-> FALSE], s, needle, rep), s)

-----------------------------------------------------------------------------
(* split.  x has the array, the end of the last separator p, the place of the
   search q, and the RegExp; full when the limit was met. *)
StepOver(s, q) == q + 1 + (IF string_getcp(s, q, TRUE) >= 65536 THEN 1 ELSE 0)
SplitAt(x, s, lim, r, q) ==
    LET e == At_most(r.p.last_index, js_string_len(s))
        a == Append(x.a, js_sub_string(s, x.at, q))
    IN IF e = x.at THEN [x EXCEPT !.q = StepOver(s, q)]
       ELSE IF Len(a) = lim THEN [x EXCEPT !.a = a, !.full = TRUE]
       ELSE [x EXCEPT !.a = a \o Tail(r.value.captures), !.at = e, !.q = e]
SplitStep(x, s, lim, r) ==
    LET sticky == "y" \in x.p.re.flags
    IN IF r.value # Null THEN SplitAt(x, s, lim, r, IF sticky THEN x.q ELSE r.value.index)
       ELSE IF sticky THEN [x EXCEPT !.q = StepOver(s, x.q)]
       ELSE [x EXCEPT !.q = js_string_len(s)]
RECURSIVE Splits(_, _, _)
Splits(x, s, lim) ==
    IF x.full \/ x.q >= js_string_len(s) THEN x
    ELSE Splits(SplitStep(x, s, lim, js_regexp_exec(js_regexp_set_lastIndex(x.p, x.q), s, "force_global")), s, lim)
AddTail(x, s) == IF x.full THEN x.a ELSE Append(x.a, js_sub_string(s, x.at, js_string_len(s)))
SplitEmpty(s, r) == IF r.value = Null THEN <<s>> ELSE <<>>
js_string_split(s, p, lim) ==
    IF lim = 0 THEN <<>>
    ELSE IF s = <<>> THEN SplitEmpty(s, js_regexp_exec(js_regexp_set_lastIndex(p, 0), s, "force_global"))
    ELSE AddTail(Splits([p |-> p, a |-> <<>>, at |-> 0, q |-> 0, full |-> FALSE], s, lim), s)
TextPart(x, s, r, lim, e) ==
    LET a == Append(x.a, js_sub_string(s, x.at, e))
    IN IF e < 0 THEN [x EXCEPT !.q = js_string_len(s) + 1]
       ELSE [x EXCEPT !.a = a, !.full = Len(a) = lim, !.at = e + r, !.q = e + r]
RECURSIVE TextSplits(_, _, _, _, _)
TextSplits(x, s, sep, lim, step) ==
    LET len == js_string_len(s)
        r == js_string_len(sep)
    IN IF x.full \/ x.q + step > len - r - step THEN x
       ELSE TextSplits(TextPart(x, s, r, lim, js_string_indexof(s, sep, x.q + step, len, r)), s, sep, lim, step)
js_string_split_text(s, sep, lim) ==
    IF lim = 0 \/ (s = <<>> /\ sep = <<>>) THEN <<>>
    ELSE IF s = <<>> THEN <<s>>
    ELSE AddTail(TextSplits([a |-> <<>>, at |-> 0, q |-> 0, full |-> FALSE], s, sep, lim, IF sep = <<>> THEN 1 ELSE 0), s)

-----------------------------------------------------------------------------
(* match: with the flag g, all the matches.  The search goes on where the
   match ended, also when it was empty. *)
RECURSIVE Matches(_, _, _)
Matches(a, s, r) ==
    IF r.value = Null THEN [value |-> IF a = <<>> THEN Null ELSE a, p |-> r.p]
    ELSE IF Len(a) = MATCHES_MAX THEN [value |-> "InternalError", p |-> r.p]
    ELSE Matches(Append(a, r.value.captures[1]), s, js_regexp_exec(r.p, s, "exec"))
js_string_match(s, p) ==
    IF "g" \notin p.re.flags THEN js_regexp_exec(p, s, "exec")
    ELSE Matches(<<>>, s, js_regexp_exec(js_regexp_set_lastIndex(p, 0), s, "exec"))
js_string_search(s, p) == js_regexp_exec(p, s, "search")
=============================================================================
