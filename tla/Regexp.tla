-------------------------------- MODULE Regexp --------------------------------
(* Regular expressions of mquickjs.c: a pattern's text is compiled to code,
   and lre_exec runs the code with an explicit stack of saved states.

   The code is a sequence of instructions instead of bytes; a jump is relative
   to the instruction after it, as in C, so that code can be inserted before
   it.  A subject is a sequence of code points and a position in it a number
   of code points.  The parser's C functions return to js_parse_call to call
   each other: their frames are the parser's stack here.                    *)
EXTENDS Integers, Sequences, SequencesExt, Lexer, TLC

Max2(a, b) == IF a > b THEN a ELSE b
Min2(a, b) == IF a < b THEN a ELSE b
Codes(text, first) == [c \in CharsOf(text) |-> first - 1 + CHOOSE i \in 1 .. Len(text) : CharAt(text, i) = c]
CharCode ==
    Codes(" !\"#$%&'()*+,-./0123456789:;<=>?@ABCDEFGHIJKLMNOPQRSTUVWXYZ[\\]^_", 32)
    @@ Codes("abcdefghijklmnopqrstuvwxyz{|}~", 97) @@ Codes("\t\n", 9) @@ Codes("\f\r", 12)
Unlimited == 2^30 - 1
CAPTURE_COUNT_MAX == 255
MaxPoint == 1114112

-----------------------------------------------------------------------------
(* Sets of characters, as sequences of intervals <<first, end>>. *)

Sorted(intervals) ==
    SetToSortSeq({intervals[i] : i \in 1 .. Len(intervals)}, LAMBDA a, b : a[1] < b[1] \/ (a[1] = b[1] /\ a[2] < b[2]))
(* Drops empty intervals and joins those that touch. *)
range_compress(intervals) ==
    LET Join(acc, iv) ==
            IF iv[1] = iv[2] THEN acc
            ELSE IF acc = <<>> \/ Last(acc)[2] < iv[1] THEN Append(acc, iv)
            ELSE Front(acc) \o <<<<Last(acc)[1], Max2(Last(acc)[2], iv[2])>>>>
    IN FoldLeft(Join, <<>>, intervals)
Complement(intervals) ==
    [i \in 1 .. Len(intervals) + 1 |-> <<IF i = 1 THEN 0 ELSE intervals[i - 1][2],
                                         IF i > Len(intervals) THEN MaxPoint ELSE intervals[i][1]>>]
(* A short set below 254 is stored in bytes, with 255 as the end of all. *)
re_range_optimize(intervals, invert) ==
    LET joined == range_compress(Sorted(intervals))
        set == IF invert THEN range_compress(Complement(joined)) ELSE joined
        end == Last(set)[2]
        bytes == set # <<>> /\ Len(set) < 16 /\ (end < 254 \/ (end = MaxPoint /\ Last(set)[1] < 254))
        Byte(p) == IF p = MaxPoint THEN 255 ELSE p
    IN IF bytes THEN [op |-> "range8", set |-> [i \in 1 .. Len(set) |-> <<set[i][1], Byte(set[i][2])>>]]
       ELSE [op |-> "range", set |-> set]
char_range_s ==
    << <<9, 14>>, <<32, 33>>, <<160, 161>>, <<5760, 5761>>, <<8192, 8203>>, <<8232, 8234>>, <<8239, 8240>>, <<8287, 8288>>,
       <<12288, 12289>>, <<65279, 65280>> >>
char_range_w == << <<48, 58>>, <<65, 91>>, <<95, 96>>, <<97, 123>> >>
Base == [d |-> << <<48, 58>> >>, s |-> char_range_s, w |-> char_range_w]
Inverted == [D |-> "d", S |-> "s", W |-> "w"]
re_emit_range_base(c) == IF c \in DOMAIN Inverted THEN Complement(Base[Inverted[c]]) ELSE Base[c]
Letter == 65 .. 90 \cup 97 .. 122
add_interval_intersect(start, end, start1, end1, offset) ==
    LET lo == Max2(start, start1)
        hi == Min2(end, end1)
    IN IF lo >= hi THEN <<>>
       ELSE <<<<lo, hi>>>> \o IF offset = 0 THEN <<>> ELSE <<<<lo + offset, hi + offset>>>>
Cased(start, end) ==
    add_interval_intersect(start, end, 0, 65, 0) \o add_interval_intersect(start, end, 91, 97, 0)
    \o add_interval_intersect(start, end, 123, 2147483647, 0)
    \o add_interval_intersect(start, end, 65, 91, 32) \o add_interval_intersect(start, end, 97, 123, -32)

-----------------------------------------------------------------------------
(* The parser: source and position, the code so far, the captures opened. *)

At(s) == CharAt(s.src, s.pos)
Peek(s, n) == CharAt(s.src, s.pos + n)
Failed(s) == [s EXCEPT !.err = TRUE]
Emit(s, i) == [s EXCEPT !.code = Append(@, i)]
(* emit_insert: code before the instruction number at; jumps over the place
   are patched by their own code, the others stay inside of one side. *)
Insert(code, at, new) == SubSeq(code, 1, at - 1) \o new \o SubSeq(code, at, Len(code))

parse_digits(src, i) ==
    LET end == RunEnd(src, i, Digits) IN [v |-> Min2(DecimalValue(Text(src, i, end)), Unlimited), end |-> end]

HexDigits == CharsOf("0123456789abcdefABCDEF")
HexValue(c) == LET i == CHOOSE k \in 1 .. 22 : CharAt("0123456789abcdefABCDEF", k) = c IN IF i > 16 THEN i - 7 ELSE i - 1
Hex(src, i, n) ==
    LET v[k \in 0 .. n] == IF k = 0 THEN 0 ELSE 16 * v[k - 1] + HexValue(CharAt(src, i + k - 1)) IN v[n]
AreHex(src, i, n) == \A k \in i .. i + n - 1 : CharAt(src, k) \in HexDigits
ControlEscapes == [b |-> 8, f |-> 12, n |-> 10, r |-> 13, t |-> 9, v |-> 11]
(* The character of an escape and where it ends; 0 when it is none. *)
js_parse_escape(src, i) ==
    LET c == CharAt(src, i)
        close == RunEnd(src, i + 2, HexDigits)
    IN CASE c \in DOMAIN ControlEscapes -> [c |-> ControlEscapes[c], end |-> i + 1]
         [] c \in {"'", "\"", "\\"} -> [c |-> CharCode[c], end |-> i + 1]
         [] c = "x" /\ AreHex(src, i + 1, 2) -> [c |-> Hex(src, i + 1, 2), end |-> i + 3]
         [] c = "u" /\ AreHex(src, i + 1, 4) -> [c |-> Hex(src, i + 1, 4), end |-> i + 5]
         [] c = "u" /\ CharAt(src, i + 1) = "{" /\ close \in i + 3 .. i + 8 /\ CharAt(src, close) = "}"
            /\ Hex(src, i + 2, close - i - 2) < MaxPoint -> [c |-> Hex(src, i + 2, close - i - 2), end |-> close + 1]
         [] c = "0" /\ CharAt(src, i + 1) \notin Digits -> [c |-> 0, end |-> i + 2 - 1]
         [] OTHER -> [c |-> 0, end |-> 0]

(* An atom: a character or a class, where it ends, and whether it is legal.
   unicode makes an unknown escape an error. *)
CharAtom(c, end) == [class |-> FALSE, c |-> c, end |-> end, ok |-> TRUE]
ClassAtom(c, end) == [class |-> TRUE, c |-> c, end |-> end, ok |-> TRUE]
NoAtom(i) == [class |-> FALSE, c |-> 0, end |-> i, ok |-> FALSE]
SyntaxChars == CharsOf("^$\\.*+?()[]{}|/")
EscapedAtom(src, i, inclass, unicode) ==
    LET c == CharAt(src, i)
        c1 == CharAt(src, i + 1)
        e == js_parse_escape(src, i)
        control == CharCode[c1] \in Letter \/ (c1 \in Digits \cup {"_"} /\ inclass /\ ~unicode)
    IN CASE c \in DOMAIN Base \cup DOMAIN Inverted -> ClassAtom(c, i + 1)
         [] c = "c" -> IF c1 # "" /\ control THEN CharAtom(CharCode[c1] % 32, i + 2)
                       ELSE IF unicode THEN NoAtom(i) ELSE CharAtom(CharCode["\\"], i)
         [] c = "-" -> IF ~inclass /\ unicode THEN NoAtom(i) ELSE CharAtom(CharCode["-"], i + 1)
         [] c \in SyntaxChars -> CharAtom(CharCode[c], i + 1)
         [] OTHER -> IF e.end > 0 THEN CharAtom(e.c, e.end)
                     ELSE IF c = "" \/ unicode THEN NoAtom(i) ELSE CharAtom(CharCode[c], i + 1)
get_class_atom(src, i, inclass, unicode) ==
    LET c == CharAt(src, i)
    IN CASE c = "\\" -> EscapedAtom(src, i + 1, inclass, unicode)
         [] c = "" -> NoAtom(i)
         [] OTHER -> CharAtom(CharCode[c], i + 1)

(* The intervals of a class from i on, after those before it. *)
ClassRange(s, c1, c2) == IF s.ignore_case THEN Cased(c1, c2 + 1) ELSE << <<c1, c2 + 1>> >>
RECURSIVE ClassItems(_, _, _)
ClassItems(s, i, before) ==
    LET Next(a, b, is_range) ==
            IF ~a.ok \/ (is_range /\ (~b.ok \/ a.class \/ b.class \/ b.c < a.c)) THEN [end |-> i, items |-> before, ok |-> FALSE]
            ELSE ClassItems(s, IF is_range THEN b.end ELSE a.end,
                            before \o IF a.class THEN re_emit_range_base(a.c) ELSE ClassRange(s, a.c, IF is_range THEN b.c ELSE a.c))
        First1(a) == Next(a, get_class_atom(s.src, a.end + 1, TRUE, s.is_unicode),
                          CharAt(s.src, a.end) = "-" /\ CharAt(s.src, a.end + 1) # "]")
    IN IF CharAt(s.src, i) = "]" THEN [end |-> i + 1, items |-> before, ok |-> TRUE]
       ELSE First1(get_class_atom(s.src, i, TRUE, s.is_unicode))
CharClass(s, r, invert) ==
    IF r.ok THEN [Emit(s, re_range_optimize(r.items, invert)) EXCEPT !.pos = r.end] ELSE Failed(s)
re_parse_char_class(s) ==
    LET invert == Peek(s, 1) = "^" IN CharClass(s, ClassItems(s, IF invert THEN s.pos + 2 ELSE s.pos + 1, <<>>), invert)

-----------------------------------------------------------------------------
(* Quantifiers. *)

Consuming == {"range8", "range", "char", "dot", "any", "space", "not_space"}
Neutral == {"line_start", "line_start_m", "line_end", "line_end_m", "set_i32", "set_char_pos", "word_boundary",
            "not_word_boundary", "save_start", "save_end", "save_reset"}
(* The atom is scanned up to the first instruction that is not linear: whether
   the position has moved for sure, and whether captures may be left unset. *)
re_need_check_adv_and_capture_init(atom) ==
    LET stop == {i \in 1 .. Len(atom) : atom[i].op \notin Consuming \cup Neutral}
        seen == SubSeq(atom, 1, IF stop = {} THEN Len(atom) ELSE Min(stop) - 1)
    IN [check_adv |-> \A i \in 1 .. Len(seen) : seen[i].op \notin Consuming, capture_init |-> stop # {}]

(* min, max and the position after a quantifier; none when there is none. *)
Quantifies(lo, up, e) == [some |-> TRUE, ok |-> TRUE, min |-> lo, max |-> up, end |-> e]
WrongCount == [some |-> TRUE, ok |-> FALSE, min |-> 0, max |-> 0, end |-> 0]
Counted(src, min, max) ==
    LET comma == CharAt(src, min.end) = ","
        bounded == comma /\ CharAt(src, min.end + 1) \in Digits
        hi == IF bounded THEN max.v ELSE IF comma THEN Unlimited ELSE min.v
        end == IF bounded THEN max.end ELSE IF comma THEN min.end + 1 ELSE min.end
    IN IF hi < min.v \/ CharAt(src, end) # "}" THEN WrongCount ELSE Quantifies(min.v, hi, end + 1)
CountedFrom(src, min) == Counted(src, min, parse_digits(src, min.end + 1))
Quantifier(src, i) ==
    LET c == CharAt(src, i)
    IN CASE c = "*" -> Quantifies(0, Unlimited, i + 1)
         [] c = "+" -> Quantifies(1, Unlimited, i + 1)
         [] c = "?" -> Quantifies(0, 1, i + 1)
         [] c = "{" -> IF CharAt(src, i + 1) \notin Digits THEN WrongCount ELSE CountedFrom(src, parse_digits(src, i + 1))
         [] OTHER -> [some |-> FALSE, ok |-> TRUE, min |-> 0, max |-> 0, end |-> i]

Split(next_first, rel) == [op |-> IF next_first THEN "split_next_first" ELSE "split_goto_first", rel |-> rel]
SetI32(n) == [op |-> "set_i32", idx |-> 0, val |-> n]
SetCharPos == [op |-> "set_char_pos", idx |-> 0]
Save_reset(from, to) == [op |-> "save_reset", from |-> from, to |-> to]
Loop(check, goto_first, limit, rel) ==
    [op |-> IF check THEN "loop_check_adv_split" ELSE "loop_split", goto_first |-> goto_first, idx |-> 0, limit |-> limit, rel |-> rel]
(* The code of an atom repeated; check is for the advance of the position. *)
Repeated(atom, min, max, greedy, check) ==
    LET pos == IF check THEN <<SetCharPos>> ELSE <<>>
        adv == IF check THEN <<[op |-> "check_advance", idx |-> 0]>> ELSE <<>>
        body == pos \o atom
        again == IF max = Unlimited THEN <<[op |-> "goto", rel |-> -(Len(body \o adv) + 2)]>> ELSE <<>>
    IN CASE min = 0 /\ max = 0 -> <<>>
         [] min = 0 /\ max \in {1, Unlimited} ->
                <<Split(greedy, Len(body \o adv \o again))>> \o body \o adv \o again
         [] min = 0 /\ max \notin {0, 1, Unlimited} ->
                <<Split(greedy, 2 + Len(body)), SetI32(max)>> \o body \o <<Loop(check, greedy, max, -(Len(body) + 1))>>
         [] min = 1 /\ max = Unlimited /\ ~check -> atom \o <<Split(~greedy, -(Len(atom) + 1))>>
         [] min = max /\ min > 0 -> <<SetI32(max)>> \o atom \o <<[op |-> "loop", idx |-> 0, rel |-> -(Len(atom) + 1)]>>
         [] OTHER -> <<SetI32(max)>> \o body \o <<Loop(check, greedy, max - min, -(Len(body) + 1))>>
(* Captures of the atom are reset in each iteration when it may leave them
   unset, else once, before the first. *)
Quantified(s, before, atom, reset, need, q, greedy) ==
    LET inner == IF need.capture_init THEN reset ELSE <<>>
        outer == IF ~need.capture_init /\ q.min = 0 THEN reset ELSE <<>>
    IN IF ~q.some THEN s
       ELSE IF ~q.ok THEN Failed(s)
       ELSE [s EXCEPT !.pos = IF greedy THEN q.end ELSE q.end + 1,
                      !.code = before \o outer \o Repeated(inner \o atom, q.min, q.max, greedy, need.check_adv)]
QuantifiedAtom(s, before, atom, capture_count, q) ==
    Quantified(s, before, atom, IF capture_count # s.captures THEN <<Save_reset(capture_count, s.captures - 1)>> ELSE <<>>,
               re_need_check_adv_and_capture_init(atom), q, CharAt(s.src, q.end) # "?")
re_parse_quantifier(s, atom_start, capture_count) ==
    QuantifiedAtom(s, SubSeq(s.code, 1, atom_start - 1), SubSeq(s.code, atom_start, Len(s.code)), capture_count, Quantifier(s.src, s.pos))

-----------------------------------------------------------------------------
(* Terms, alternatives and disjunctions. *)

Utf8Len(c) == IF c < 128 THEN 1 ELSE IF c < 2048 THEN 2 ELSE IF c < 65536 THEN 3 ELSE 4
CharSize(i) == LET size[k \in 0 .. Len(i.cs)] == IF k = 0 THEN 0 ELSE size[k - 1] + Utf8Len(i.cs[k]) IN size[Len(i.cs)]
Op(name) == [op |-> name]
Capture(name, n) == [op |-> name, n |-> n]
re_emit_char(c) == [op |-> "char", cs |-> <<c>>]
AtomCode(s, a) ==
    LET upper == IF a.c > 96 THEN a.c - 32 ELSE a.c
    IN CASE a.class /\ a.c = "s" -> Op("space")
         [] a.class /\ a.c = "S" -> Op("not_space")
         [] a.class /\ a.c \notin {"s", "S"} -> re_range_optimize(re_emit_range_base(a.c), FALSE)
         [] ~a.class /\ s.ignore_case /\ a.c \in Letter ->
                [op |-> "range8", set |-> << <<upper, upper + 1>>, <<upper + 32, upper + 33>> >>]
         [] OTHER -> re_emit_char(a.c)

Top(s) == Last(s.stack)
Returns(s) == [s EXCEPT !.stack = Front(@)]
Frame(s, f) == [s EXCEPT !.stack = Front(@) \o <<f>>]
Calls(s, f) == [s EXCEPT !.stack = Append(@, f)]
Alternative == [fn |-> "alternative", at |-> "terms", last_term |-> 0, term |-> 0, captures |-> 0, n |-> 0]
Disjunction(s) == [fn |-> "disjunction", at |-> "begin", start |-> Len(s.code) + 1, goto |-> 0]

(* Two terms that are characters of at most four bytes together become one. *)
Joined(s, f) ==
    LET re_is_char(first, end) == end = first + 1 /\ s.code[first].op = "char"
        joins == /\ f.last_term > 0
                 /\ re_is_char(f.last_term, f.term) /\ re_is_char(f.term, Len(s.code) + 1)
                 /\ CharSize(s.code[f.last_term]) + CharSize(s.code[f.term]) <= 4
    IN IF s.err THEN s
       ELSE IF joins THEN Frame([s EXCEPT !.code = Append(Front(Front(@)), [op |-> "char", cs |-> s.code[f.last_term].cs \o s.code[f.term].cs])],
                                [f EXCEPT !.at = "terms"])
       ELSE Frame(s, [f EXCEPT !.at = "terms", !.last_term = f.term])
(* After a term: its quantifier, when it is an atom. *)
AfterTerm(s, f) == Joined(IF f.at = "atom" THEN re_parse_quantifier(s, f.term, f.captures) ELSE s, f)

(* A group: the frame remembers what to emit behind it. *)
Group(s, f) ==
    LET c == Peek(s, 2)
        look == IF c = "!" THEN "negative_lookahead" ELSE "lookahead"
        Enter(t, g) == Calls(Frame(t, g), Disjunction(t))
    IN CASE Peek(s, 1) = "?" /\ c = ":" -> Enter([s EXCEPT !.pos = @ + 3], [f EXCEPT !.at = "group"])
         [] Peek(s, 1) = "?" /\ c \in {"=", "!"} ->
                Enter(Emit([s EXCEPT !.pos = @ + 3], [op |-> look, rel |-> 0]),
                      [f EXCEPT !.at = look, !.n = Len(s.code) + 1])
         [] Peek(s, 1) = "?" /\ c \notin {":", "=", "!"} -> Failed(s)
         [] OTHER -> IF s.captures >= CAPTURE_COUNT_MAX THEN Failed(s)
                     ELSE Enter(Emit([s EXCEPT !.pos = @ + 1, !.captures = @ + 1], Capture("save_start", s.captures)),
                                [f EXCEPT !.at = "capture", !.n = s.captures])
GroupEnd(s, f) ==
    LET end == CASE f.at = "capture" -> <<Capture("save_end", f.n)>>
                 [] f.at = "group" -> <<>>
                 [] f.at = "lookahead" -> <<Op("lookahead_match")>>
                 [] f.at = "negative_lookahead" -> <<Op("negative_lookahead_match")>>
        t == [s EXCEPT !.pos = @ + 1, !.code = @ \o end]
    IN IF At(s) # ")" THEN Failed(s)
       ELSE IF f.at \in {"group", "capture"} THEN Frame(t, [f EXCEPT !.at = "atom"])
       ELSE Frame([t EXCEPT !.code[f.n].rel = Len(t.code) - f.n], [f EXCEPT !.at = "plain"])

(* A term is emitted; at tells whether a quantifier may follow. *)
Plain(s, f, i, n) == Frame([Emit(s, i) EXCEPT !.pos = @ + n], [f EXCEPT !.at = "plain"])
Atom(s, f, i, n) == Frame([Emit(s, i) EXCEPT !.pos = @ + n], [f EXCEPT !.at = "atom"])
ClassTerm(s, f, t) == IF t.err THEN t ELSE Frame(t, [f EXCEPT !.at = "atom"])
RefTerm(s, f, ref) ==
    IF ref.v > CAPTURE_COUNT_MAX THEN Failed(s)
    ELSE Atom(s, f, Capture(IF s.ignore_case THEN "back_reference_i" ELSE "back_reference", ref.v), ref.end - s.pos)
AtomTerm(s, f, a) == IF a.ok THEN Atom(s, f, AtomCode(s, a), a.end - s.pos) ELSE Failed(s)
Term(s, f) ==
    LET c == At(s)
        c1 == Peek(s, 1)
    IN CASE c = "^" -> Plain(s, f, Op(IF s.multi_line THEN "line_start_m" ELSE "line_start"), 1)
         [] c = "$" -> Plain(s, f, Op(IF s.multi_line THEN "line_end_m" ELSE "line_end"), 1)
         [] c = "." -> Atom(s, f, Op(IF s.dotall THEN "any" ELSE "dot"), 1)
         [] c \in {"*", "+", "?"} \/ (c = "{" /\ (s.is_unicode \/ c1 \in Digits)) -> Failed(s)
         [] c = "(" -> Group(s, f)
         [] c = "\\" /\ c1 \in {"b", "B"} -> Plain(s, f, Op(IF c1 = "b" THEN "word_boundary" ELSE "not_word_boundary"), 2)
         [] c = "\\" /\ c1 = "0" -> IF Peek(s, 2) \in Digits THEN Failed(s) ELSE Atom(s, f, re_emit_char(0), 2)
         [] c = "\\" /\ c1 \in Digits \ {"0"} -> RefTerm(s, f, parse_digits(s.src, s.pos + 1))
         [] c = "[" -> ClassTerm(s, f, re_parse_char_class(s))
         [] c \in {"]", "}"} /\ s.is_unicode -> Failed(s)
         [] OTHER -> AtomTerm(s, f, get_class_atom(s.src, s.pos, FALSE, s.is_unicode))

re_parse_alternative(s) ==
    LET f == Top(s)
    IN IF f.at \in {"atom", "plain"} THEN AfterTerm(s, f)
       ELSE IF f.at # "terms" THEN GroupEnd(s, f)
       ELSE IF At(s) \in {"", "|", ")"} THEN Returns(s)
       ELSE Term(s, [f EXCEPT !.term = Len(s.code) + 1, !.captures = s.captures])

re_parse_disjunction(s) ==
    LET f == Top(s)
        t == IF f.goto > 0 THEN [s EXCEPT !.code[f.goto].rel = Len(s.code) - f.goto] ELSE s
        len == Len(s.code) - f.start + 1
    IN IF f.at = "begin" THEN Calls(Frame(s, [f EXCEPT !.at = "alternatives"]), Alternative)
       ELSE IF At(s) # "|" THEN Returns(t)
       ELSE Calls(Frame([t EXCEPT !.pos = @ + 1,
                                  !.code = Append(Insert(@, f.start, <<Split(TRUE, len + 1)>>), [op |-> "goto", rel |-> 0])],
                        [f EXCEPT !.goto = Len(s.code) + 2]),
                  Alternative)

RECURSIVE js_parse_call(_)
js_parse_call(s) ==
    IF s.err \/ s.stack = <<>> THEN s
    ELSE js_parse_call(IF Top(s).fn = "disjunction" THEN re_parse_disjunction(s) ELSE re_parse_alternative(s))

(* Registers are given out as a stack; a back reference must be to a capture. *)
REGISTER_COUNT_MAX == 255
re_compute_register_count(code, captures) ==
    LET pops == [check_advance |-> 1, loop |-> 1, loop_split |-> 1, loop_check_adv_split |-> 2]
        Alloc(acc, i) ==
            CASE i.op \in {"set_i32", "set_char_pos"} ->
                    [code |-> Append(acc.code, [i EXCEPT !.idx = acc.n]), n |-> acc.n + 1, max |-> Max2(acc.max, acc.n + 1), ok |-> acc.ok]
              [] i.op \in DOMAIN pops ->
                    [acc EXCEPT !.code = Append(@, [i EXCEPT !.idx = acc.n - pops[i.op]]), !.n = @ - pops[i.op]]
              [] OTHER ->
                    [acc EXCEPT !.code = Append(@, i), !.ok = @ /\ (i.op \in {"back_reference", "back_reference_i"} => i.n < captures)]
    IN FoldLeft(Alloc, [code |-> <<>>, n |-> 0, max |-> 0, ok |-> TRUE], code)

ReFlags == CharsOf("gimsuy")
(* The flags of a text; FALSE in ok when a letter is unknown or repeated. *)
js_parse_regexp_flags(text) ==
    [flags |-> CharsOf(text), ok |-> CharsOf(text) \subseteq ReFlags /\ Cardinality(CharsOf(text)) = Len(text)]

Compiled(s, r, flags) ==
    IF s.err \/ s.pos # Len(s.src) + 1 \/ ~r.ok \/ r.max > REGISTER_COUNT_MAX THEN [ok |-> FALSE]
    ELSE [ok |-> TRUE, code |-> r.code, captures |-> s.captures, registers |-> r.max, flags |-> flags]
Parsed(s, flags) == Compiled(s, re_compute_register_count(s.code \o <<Capture("save_end", 0), Op("match")>>, s.captures), flags)
js_parse_regexp(src, flags) ==
    LET prefix == IF "y" \in flags THEN <<>> ELSE <<Split(FALSE, 2), Op("any"), [op |-> "goto", rel |-> -3]>>
        s == [src |-> src, pos |-> 1, code |-> prefix \o <<Capture("save_start", 0)>>, captures |-> 1, err |-> FALSE,
              multi_line |-> "m" \in flags, dotall |-> "s" \in flags, ignore_case |-> "i" \in flags, is_unicode |-> "u" \in flags,
              stack |-> <<>>]
    IN Parsed(js_parse_call(Calls(s, Disjunction(s))), flags)
js_compile_regexp(src, flags) ==
    IF js_parse_regexp_flags(flags).ok THEN js_parse_regexp(src, js_parse_regexp_flags(flags).flags) ELSE [ok |-> FALSE]

-----------------------------------------------------------------------------
(* lre_exec.  cap holds the start and end of the captures, then the registers.
   A saved state has where to go on, and what was overwritten since it was
   saved; the first one stands for the empty stack.                        *)

SavedState(type, pc, cp) == [type |-> type, pc |-> pc, cp |-> cp, undo |-> <<>>]
is_line_terminator(c) == c \in {10, 13, 8232, 8233}
is_word_char(c) == c \in Letter \cup 48 .. 57 \cup {95}
unicode_is_space(c) == \E i \in 1 .. Len(char_range_s) : c >= char_range_s[i][1] /\ c < char_range_s[i][2]
lre_canonicalize(c) == IF c \in 65 .. 90 THEN c + 32 ELSE c

Saved(st) == Last(st.saved)
SAVE_CAPTURE(st, idx, v) ==
    [st EXCEPT !.saved[Len(st.saved)].undo = Append(@, <<idx, st.cap[idx]>>), !.cap[idx] = v]
SAVE_CAPTURE_CHECK(st, idx, v) ==
    IF \E k \in 1 .. Len(Saved(st).undo) : Saved(st).undo[k][1] = idx THEN [st EXCEPT !.cap[idx] = v]
    ELSE SAVE_CAPTURE(st, idx, v)
Save(st, type, pc, cp) == [st EXCEPT !.saved = Append(@, SavedState(type, pc, cp))]
(* What was overwritten in the saved states from number f on, oldest first. *)
UndoFrom(st, f) ==
    LET all[k \in f .. Len(st.saved)] == IF k = f THEN st.saved[f].undo ELSE all[k - 1] \o st.saved[k].undo
    IN all[Len(st.saved)]
Undone(st, f) ==
    LET undo == UndoFrom(st, f)
        First1(idx) == LET at == {k \in 1 .. Len(undo) : undo[k][1] = idx} IN IF at = {} THEN st.cap[idx] ELSE undo[Min(at)][2]
    IN [idx \in DOMAIN st.cap |-> First1(idx)]
Topmost(st, types) == Max({f \in 1 .. Len(st.saved) : st.saved[f].type \in types})
Resume(st, f, cap) ==
    [st EXCEPT !.pc = st.saved[f].pc, !.cp = st.saved[f].cp, !.cap = cap, !.saved = SubSeq(@, 1, f - 1)]
(* Goes on where the last choice was; a failed lookahead is not one. *)
NoMatch(st) ==
    LET f == Topmost(st, {"bottom", "split", "negative_lookahead"})
    IN IF f = 1 THEN [st EXCEPT !.result = 0] ELSE Resume(st, f, Undone(st, f))
(* Mutant: a capture saved by a lookahead is not restored behind it. *)
ForgetfulLookahead(st) == LET f == Topmost(st, {"lookahead"}) IN Resume(st, f, st.cap)
lookahead_match(st) ==
    LET f == Topmost(st, {"lookahead"})
    IN [Resume(st, f, st.cap) EXCEPT !.saved[f - 1].undo = @ \o UndoFrom(st, f)]
negative_lookahead_match(st) ==
    LET f == Topmost(st, {"negative_lookahead"}) IN NoMatch(Resume(st, f, Undone(st, f)))

(* The interval of a set a character is in, by bisection. *)
InRange(set, c) ==
    LET find[d \in (0 .. Len(set) + 1) \X (0 .. Len(set) + 1)] ==
            LET idx == (d[1] + d[2] + 1) \div 2
            IN IF d[1] > d[2] THEN FALSE
               ELSE IF c < set[idx][1] THEN find[<<d[1], idx - 1>>]
               ELSE IF c >= set[idx][2] THEN find[<<idx + 1, d[2]>>]
               ELSE TRUE
    IN Len(set) > 0 /\ c >= set[1][1] /\ c < set[Len(set)][2] /\ find[<<1, Len(set)>>]
InRange8(set, c) ==
    \/ \E i \in 1 .. Len(set) - 1 : c >= set[i][1] /\ c < set[i][2]
    \/ c >= Last(set)[1] /\ (c < Last(set)[2] \/ Last(set)[2] = 255)
(* Whether an instruction takes the character c. *)
Takes(i, c) ==
    CASE i.op = "dot" -> ~is_line_terminator(c)
      [] i.op = "any" -> TRUE
      [] i.op = "space" -> unicode_is_space(c)
      [] i.op = "not_space" -> ~unicode_is_space(c)
      [] i.op = "range8" -> InRange8(i.set, c)
      [] i.op = "range" -> InRange(i.set, c)

(* An iteration of a counted loop: again while more than limit are left, then
   a choice until none is. *)
LoopSplit(i, input, reg, st) ==
    LET left == st.cap[reg] - 1
        counted == SAVE_CAPTURE_CHECK(st, reg, left)
        next == [counted EXCEPT !.pc = @ + 1]
        again == [counted EXCEPT !.pc = @ + 1 + i.rel]
    IN IF left > i.limit THEN again
       ELSE IF i.op = "loop_check_adv_split" /\ st.cap[reg + 1] = st.cp /\ left # i.limit THEN NoMatch(counted)
       ELSE IF left = 0 THEN next
       ELSE IF i.goto_first THEN Save(again, "split", next.pc, st.cp)
       ELSE Save(next, "split", again.pc, st.cp)

WordAt(input, k) == k \in 1 .. Len(input) /\ is_word_char(input[k])
BackReference(i, input, st) ==
    LET from == st.cap[2 * i.n]
        to == st.cap[2 * i.n + 1]
        len == IF from = -1 \/ to = -1 THEN 0 ELSE Max2(0, to - from)
        Fold(c) == IF i.op = "back_reference_i" THEN lre_canonicalize(c) ELSE c
    IN IF st.cp + len > Len(input) \/ \E k \in 1 .. len : Fold(input[from + k]) # Fold(input[st.cp + k]) THEN NoMatch(st)
       ELSE [st EXCEPT !.pc = @ + 1, !.cp = @ + len]

(* Where the condition of an assertion holds. *)
Asserts(i, input, st) ==
    LET c == st.cp
    IN CASE i.op = "line_start" -> c = 0
         [] i.op = "line_start_m" -> c = 0 \/ is_line_terminator(input[c])
         [] i.op = "line_end" -> c = Len(input)
         [] i.op = "line_end_m" -> c = Len(input) \/ is_line_terminator(input[c + 1])
         [] i.op = "word_boundary" -> WordAt(input, c) # WordAt(input, c + 1)
         [] i.op = "not_word_boundary" -> WordAt(input, c) = WordAt(input, c + 1)

Reset(st, from, to) == FoldLeft(LAMBDA t, idx : SAVE_CAPTURE(t, idx, 0), st, [k \in 1 .. 2 * (to - from + 1) |-> 2 * from + k - 1])
Step(i, input, regs, st) ==
    LET next == [st EXCEPT !.pc = @ + 1]
        jump == [st EXCEPT !.pc = @ + 1 + i.rel]
        here == input[st.cp + 1]
        reg == regs + i.idx
        left == st.cap[reg] - 1
    IN CASE i.op = "match" -> [st EXCEPT !.result = 1]
         [] i.op = "lookahead_match" -> lookahead_match(st)
         [] i.op = "negative_lookahead_match" -> negative_lookahead_match(st)
         [] i.op = "char" ->
                IF st.cp + Len(i.cs) <= Len(input) /\ \A k \in 1 .. Len(i.cs) : input[st.cp + k] = i.cs[k]
                THEN [next EXCEPT !.cp = @ + Len(i.cs)] ELSE NoMatch(st)
         [] i.op \in Consuming \ {"char"} ->
                IF st.cp < Len(input) /\ Takes(i, here) THEN [next EXCEPT !.cp = @ + 1] ELSE NoMatch(st)
         [] i.op = "split_next_first" -> Save(next, "split", jump.pc, st.cp)
         [] i.op = "split_goto_first" -> Save(jump, "split", next.pc, st.cp)
         [] i.op \in {"lookahead", "negative_lookahead"} -> Save(next, i.op, jump.pc, st.cp)
         [] i.op = "goto" -> jump
         [] i.op = "save_start" -> SAVE_CAPTURE(next, 2 * i.n, st.cp)
         [] i.op = "save_end" -> SAVE_CAPTURE(next, 2 * i.n + 1, st.cp)
         [] i.op = "save_reset" -> Reset(next, i.from, i.to)
         [] i.op = "set_i32" -> SAVE_CAPTURE_CHECK(next, reg, i.val)
         [] i.op = "set_char_pos" -> SAVE_CAPTURE_CHECK(next, reg, st.cp)
         [] i.op = "loop" -> SAVE_CAPTURE_CHECK(IF left # 0 THEN jump ELSE next, reg, left)
         [] i.op \in {"loop_split", "loop_check_adv_split"} -> LoopSplit(i, input, reg, st)
         [] i.op \in {"back_reference", "back_reference_i"} -> BackReference(i, input, st)
         [] i.op = "check_advance" -> IF st.cap[reg] # st.cp THEN next ELSE NoMatch(st)
         [] OTHER -> IF Asserts(i, input, st) THEN next ELSE NoMatch(st)
RECURSIVE Run(_, _, _, _)
Run(code, input, regs, st) ==
    IF st.result # 2 THEN st ELSE Run(code, input, regs, Step(code[st.pc], input, regs, st))
NoCaptures(re) == [idx \in 0 .. 2 * re.captures + re.registers - 1 |-> -1]
(* The captures found from position cp on, over those in cap before. *)
lre_exec(re, cap, input, cp) ==
    Run(re.code, input, 2 * re.captures,
        [pc |-> 1, cp |-> cp, cap |-> cap, saved |-> <<SavedState("bottom", 0, 0)>>, result |-> 2])

=============================================================================
