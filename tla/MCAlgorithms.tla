---------------------------- MODULE MCAlgorithms ----------------------------
(* The pure algorithms of the engine on bounded inputs: a state is one sample
   of one part, and the law of that part is evaluated in it.               *)
EXTENDS Integers, Sequences, FiniteSets
CONSTANTS Undefined, Null, Uninitialized, Exception

VARIABLES part, sample
vars == <<part, sample>>

(* A function given to replace: what it was given, in a row. *)
Shown(args) ==
    LET shown == [g \in DOMAIN args.captures |-> <<60>> \o IF args.captures[g] = Undefined THEN <<63>> ELSE args.captures[g]]
        all[g \in 0 .. Len(shown)] == IF g = 0 THEN <<>> ELSE all[g - 1] \o shown[g]
    IN all[Len(shown)] \o <<48 + args.pos>> \o args.str

SF == INSTANCE SoftFloat WITH EXP_SIZE <- 5, MANT_SIZE <- 4, ICVT_SIZE <- 12
CV == INSTANCE SoftFloatCvt WITH EXP_SIZE <- 5, MANT_SIZE <- 5, ICVT_SIZE <- 10, NARROW_EXP_SIZE <- 4, NARROW_MANT_SIZE <- 1
NB == INSTANCE Numbers WITH EXP_SIZE <- 6, MANT_SIZE <- 4, ICVT_SIZE <- 10, INT_SIZE <- 5
DT == INSTANCE Dtoa WITH EXP_SIZE <- 6, MANT_SIZE <- 4, ICVT_SIZE <- 10, INT_SIZE <- 7, LIMB_BITS <- 8, ATOD_BITS <- 16,
                         ATOD_BITS2 <- 12, C_INT_SIZE <- 16, FIXED_LIMIT <- 900
DX == INSTANCE Dtoa WITH EXP_SIZE <- 4, MANT_SIZE <- 3, ICVT_SIZE <- 10, INT_SIZE <- 7, LIMB_BITS <- 8, ATOD_BITS <- 16,
                         ATOD_BITS2 <- 12, C_INT_SIZE <- 16, FIXED_LIMIT <- 100
LX == INSTANCE Lexer
RE == INSTANCE Regexp
RL == INSTANCE RegexpLanguage
AP == INSTANCE RegexpApiLaw WITH JS_STRING_POS_CACHE_SIZE <- 2, JS_STRING_POS_CACHE_MIN_LEN <- 7, JS_STRING_LEN_MAX <- 99,
                                MATCHES_MAX <- 9, Replacer <- Shown
ST == INSTANCE Wtf8 WITH JS_STRING_POS_CACHE_SIZE <- 2, JS_STRING_POS_CACHE_MIN_LEN <- 7, JS_STRING_LEN_MAX <- 24
PM == INSTANCE PropertyTable WITH JSW <- 8, ATOM_ALIGN <- 64
HP == INSTANCE HeapLaw
AR == INSTANCE ArraysLaw WITH JS_SHORTINT_MAX <- 9, JS_VALUE_ARRAY_SIZE_MAX <- 7

-----------------------------------------------------------------------------
(* Floats: operands of every class, next to every boundary of the format. *)
Edges == {e * 2^4 + m : e \in {0, 1, 14, 16, 30}, m \in {0, 1, 8, 15}}
Operands == Edges \cup {SF!Negated(x) : x \in Edges} \cup {SF!F_QNAN, SF!Infinity(0), SF!Infinity(1), SF!Negated(SF!F_QNAN) + 3}
FloatSamples ==
    [law : {"binary", "unary"}, a : Operands, rm : SF!RoundingMode]
    \cup [law : {"rint"}, a : Operands, rm : SF!RintMode]
    \cup [law : {"widen"}, a : CV!N!Float, rm : {"RNE"}]
    \cup [law : {"number"}, a : NB!Float, rm : {"RNE"}]
    \cup [law : {"order", "scalbn", "narrow"}, a : Operands, rm : {"RNE"}]
    \cup [law : {"integer"}, a : -30 .. 30 \cup {-2048, -2047, -1055, -1041, 1023, 1024, 1025, 2046, 2047}, rm : SF!RoundingMode]
(* Texts and floats: all floats of two formats, all short texts over the
   characters that matter, and longer ones. *)
Upto(chars, n) == LET t[k \in 0 .. n] == IF k = 0 THEN {""} ELSE t[k - 1] \cup {c \o x : c \in chars, x \in t[k - 1]} IN t[n]
NumberChars == {"0", "1", "9", ".", "e", "-", " ", "x"}
IntegerChars == {"0", "7", "x", "z", "-", " "}
NameChars == {"0", "1", "3", "9", "-", ".", "e"}
DottedTexts(whole, ends) ==
    {a \o "." \o b \o c \o e \o x : a \in whole, b \in {"0", "2", "3"}, c \in {"", "00", "20", "00000"}, e \in {"", "0", "1"}, x \in ends}
TextSamples ==
    [law : {"text"}, d : {d \in DT!Float : d < DT!SIGN_MASK \/ d % 16 \in {0, 5}}]
    \cup [law : {"cut"}, d : {d \in DX!Float : DX!IsFinite(d) /\ d < DX!SIGN_MASK}]
    \cup [law : {"read"}, s : Upto(NumberChars, 2)] \cup [law : {"parse"}, s : Upto(IntegerChars, 2)] \cup [law : {"name"}, s : Upto(NameChars, 2)]
    \cup [law : {"word"}, s : {x \o y \o z : x \in {"", " ", "\n"}, y \in {"", "+", "-"}, z \in {"Infinity", "Infinit", "Infinityx", "0b101", "0o7", "0b2", "1e12", "1e99999", "0e99999", "1e-99999"}}]
    \cup [law : {"ten"}, s : DottedTexts({"", "0", "1", "17", "31"}, {"", "e-2", "e2"})]
    \cup [law : {"radix"}, s : DottedTexts({"", "0", "1", "102", "3333"}, {""})]
    \cup [law : {"division"}, n : 128 .. 255] \cup [law : {"integer"}, n : 0 .. 300 \cup {k + j : k \in {2048, 25600, 256000, 999999}, j \in -2 .. 2}]
TextsAgree(x) ==
    CASE x.law = "text" -> DT!TextLaw(x.d)
      [] x.law = "cut" -> (x.d # 0 => DX!ShortestLaw(x.d)) /\ DX!CutsLaw(x.d)
      [] x.law = "read" -> \A y \in Upto(NumberChars, 2) : DX!Apart(x.s \o y) \/ DX!ReadLaw(x.s \o y)
      [] x.law = "word" -> DX!Apart(x.s) \/ DX!ReadLaw(x.s)
      [] x.law = "parse" -> \A y \in Upto(IntegerChars, 2), radix \in {0, 10, 16, 36} : DX!ParseIntLaw(x.s \o y, radix)
      [] x.law = "name" -> \A names \in {DX!NumberNames(DX!Float)}, ints \in {DX!IntNames(DX!JS_SHORTINT_MIN .. DX!JS_SHORTINT_MAX)} : \A y \in Upto(NameChars, 2) : DX!NameLaw(x.s \o y, names, ints)
      [] x.law = "ten" -> DX!DottedLaw(x.s, 10)
      [] x.law = "radix" -> DX!DottedLaw(x.s, 4) /\ DX!DottedLaw(x.s, 6)
      [] x.law = "division" -> DX!DivisionLaw(x.n)
      [] x.law = "integer" -> DX!IntegerTextLaw(x.n)

FloatsAgree ==
    /\ part = "texts" /\ sample # <<>> => TextsAgree(sample)
    /\ part = "floats" /\ sample # <<>> =>
        LET a == sample.a
            rm == sample.rm
        IN CASE sample.law = "binary" -> SF!BinaryLaw(a, rm, Operands)
             [] sample.law = "order" -> SF!OrderLaw(a, Operands)
             [] sample.law = "unary" -> SF!UnaryLaw(a, rm)
             [] sample.law = "rint" -> SF!RintLaw(a, rm)
             [] sample.law = "scalbn" -> SF!ScalbnLaw(a)
             [] sample.law = "integer" -> SF!FromIntLaw(a, rm)
             [] sample.law = "number" -> NB!NumberLaw(a)
             [] sample.law = "widen" -> CV!WidenLaw(a)
             [] sample.law = "narrow" -> \A r \in SF!RoundingMode : CV!NarrowLaw(2 * a, r) /\ CV!NarrowLaw(2 * a + 1, r)

-----------------------------------------------------------------------------
(* Tokens: a word, a separator and a word, and what they are.  operand tells
   whether a slash that follows divides. *)
Word(text, tokens, operand) == [text |-> text, tokens |-> tokens, operand |-> operand]
Itself(text, operand) == Word(text, <<[t |-> text, v |-> ""]>>, operand)
Classed(text, class, v) == Word(text, <<[t |-> class, v |-> v]>>, TRUE)
Regexp == Classed("/r[/\\]]\\//g", LX!RegexpToken, "r[/\\]]\\/")
Divisions == {Itself("/", FALSE), Itself("/=", FALSE)}
Words == Divisions \cup {Itself(x, TRUE) : x \in {"a", "iff", "this", "++"}}
         \cup {Itself(x, FALSE) : x \in {"+", ">>>=", ">>", "=", "return"}}
         \cup {Classed("12", LX!NumberToken, "12"), Classed("'s\\'\\n/'", LX!StringToken, "s'\n/"), Regexp,
               Word("(a)", <<[t |-> "(", v |-> ""], [t |-> "a", v |-> ""], [t |-> ")", v |-> ""]>>, TRUE)}
Separators == {[text |-> x, lf |-> x \in {"\n", "//\"\n"}] : x \in {"", " ", "\t\r", "\n", "/*/ \n */", "//\"\n"}}
LastChar(w) == LX!CharAt(w.text, Len(w.text))
FirstChar(w) == LX!CharAt(w.text, 1)
(* Without a separator two words stay apart when just one of them ends or
   begins as a name or a number does. *)
Apart(a, sep, b) ==
    \/ sep.text # ""
    \/ (LastChar(a) \in LX!IdentNext) # (FirstChar(b) \in LX!IdentNext)
TokenSamples ==
    {x \in [before : Separators, a : Words, between : Separators, b : Words] :
        /\ x.a \notin Divisions
        /\ x.b \in Divisions => x.a.operand
        /\ x.b = Regexp => ~x.a.operand
        /\ Apart(x.a, x.between, x.b)}
Classes(tokens) == [i \in 1 .. Len(tokens) |-> [t |-> tokens[i].t, v |-> tokens[i].v]]
(* A text of words is read back as those words, with the line feeds outside of
   comments, wherever the separators stand and whatever they contain. *)
TokensComeBack ==
    part = "tokens" /\ sample # <<>> =>
        LET text == sample.before.text \o sample.a.text \o sample.between.text \o sample.b.text
            read == LX!Tokens(text)
            n == Len(sample.a.tokens)
        IN /\ Classes(read) = sample.a.tokens \o sample.b.tokens \o <<[t |-> LX!EndOfFile, v |-> ""]>>
           /\ read[1].lf = sample.before.lf /\ read[n + 1].lf = sample.between.lf

-----------------------------------------------------------------------------
(* Regular expressions: a quantifier around and inside of groups, choices,
   lookaheads and back references; the digits of a number choose the parts. *)
la == RL!Chr("a", 97)
lb == RL!Chr("b", 98)
Dot == RL!NotSet(".", {10, 13})
PatternAtoms == << la, lb, Dot, RL!Group(RL!Alt(la, RL!Empty)), RL!In(RL!Alt(RL!Group(la), RL!Group(lb))), RL!NotSet("[^a]", {97}),
                   RL!Group(RL!Cat(lb, la)) >>
Quantifiers == << <<"", 1, 1, TRUE>>, <<"*", 0, RL!Many, TRUE>>, <<"+", 1, RL!Many, TRUE>>, <<"?", 0, 1, TRUE>>, <<"*?", 0, RL!Many, FALSE>>,
                  <<"+?", 1, RL!Many, FALSE>>, <<"??", 0, 1, FALSE>>, <<"{2}", 2, 2, TRUE>>, <<"{0}", 0, 0, TRUE>>, <<"{1,2}", 1, 2, TRUE>>,
                  <<"{0,2}?", 0, 2, FALSE>>, <<"{2,}", 2, RL!Many, TRUE>>, <<"{0,2}", 0, 2, TRUE>> >>
Quantify(p, q) == IF q = 1 THEN p ELSE RL!Quantified(p, Quantifiers[q][1], Quantifiers[q][2], Quantifiers[q][3], Quantifiers[q][4])
Shape(k, x, y, qx, q) ==
    LET shapes == <<
       RL!Cat(Quantify(x, qx), Quantify(y, q)),
       Quantify(RL!Group(RL!Cat(Quantify(x, qx), y)), q),
       RL!Cat(Quantify(RL!In(RL!Alt(RL!Group(Quantify(x, qx)), y)), q), la),
       RL!Cat(RL!Look(RL!Group(Quantify(x, qx))), Quantify(y, q)),
       RL!Cat(RL!NotLook(RL!Cat(Quantify(x, qx), y)), Quantify(RL!In(Dot), q)),
       RL!Cat(RL!Group(Quantify(x, qx)), Quantify(RL!BackRef(1), q)),
       RL!Cat(Quantify(RL!Group(RL!Alt(Quantify(x, qx), RL!Group(y))), q), RL!BackRef(1)),
       Quantify(RL!In(RL!Cat(RL!Look(RL!Group(x)), Quantify(y, qx))), q),
       RL!Cat(RL!In(RL!Alt(RL!Cat(RL!Assertion("\\b", "boundary"), Quantify(y, qx)), Quantify(RL!Group(x), q))), RL!Assertion("$", "end")),
       Quantify(RL!In(RL!Cat(RL!NotLook(RL!Cat(RL!Group(x), y)), RL!Group(Quantify(Dot, qx)))), q) >>
    IN shapes[k]
PatternOf(i) ==
    Shape(1 + (i % 10), PatternAtoms[1 + ((i \div 10) % 7)], PatternAtoms[1 + ((i \div 70) % 7)],
          1 + (((i \div 490) * 5 + i) % 13), 1 + (((i \div 490) * 3 + 2 * i) % 13))
Subjects == {<<>>, <<97>>, <<98>>, <<97, 98>>, <<98, 97>>, <<97, 97, 98>>, <<98, 97, 98, 97>>, <<99, 97, 97>>}

(* The pattern and the subject of tests/test_builtin.js on which a capture that
   was reset shows: the code gives the fourth capture "", not undefined.        *)
Maybe(c) == RL!Quantified(RL!Group(RL!Quantified(c, "+", 1, RL!Many, TRUE)), "?", 0, 1, TRUE)
TestPattern ==
    RL!Cat(RL!Group(RL!Chr("z", 122)),
           RL!Quantified(RL!Group(RL!Cat(Maybe(la), RL!Cat(Maybe(lb), RL!Group(RL!Chr("c", 99))))), "*", 0, RL!Many, TRUE))
TestSubject == <<122, 97, 97, 99, 98, 98, 98, 99, 97, 99>>

(* The span of a capture of the code: one that took no part has none, or what
   RL!Emptied says. *)
SameSpan(cap, g, span) ==
    IF span = RL!NoSpan THEN cap[2 * g] = -1 \/ cap[2 * g + 1] = -1 ELSE <<cap[2 * g], cap[2 * g + 1]>> = span
MatchesAlike(p, text, input, from) ==
    \A re \in {RE!js_compile_regexp(p.text, text)} :
        /\ re.ok
        /\ \A st \in {RE!lre_exec(re, RE!NoCaptures(re), input, from)}, spans \in {RL!FirstMatch(p, input, RE!js_parse_regexp_flags(text).flags, from)} :
            /\ (st.result = 1) = (spans # RL!NoMatch)
            /\ spans # RL!NoMatch => \A g \in 1 .. Len(spans) : SameSpan(st.cap, g - 1, spans[g])
(* The methods: patterns that match nothing, a part, or a character of two
   units, on subjects with such characters. *)
ApiPatterns == << la, RL!Quantified(lb, "*", 0, RL!Many, TRUE), RL!Group(RL!Alt(la, lb)), RL!Alt(RL!Group(la), lb), RL!Alt(lb, RL!Empty), Dot,
                  RL!Group(Dot), RL!Assertion("^", "start"), RL!Assertion("$", "end"), RL!Assertion("\\b", "boundary"),
                  RL!Cat(RL!Group(Dot), RL!Look(RL!Group(lb))), RL!Empty,
                  RL!Cat(RL!Quantified(RL!Group(la), "?", 0, 1, TRUE), lb) >>
Flags == << <<"", {}>>, <<"g", {"g"}>>, <<"y", {"y"}>>, <<"yg", {"g", "y"}>>, <<"ui", {"i", "u"}>> >>
ApiSubjects == {<<>>, <<97>>, <<97, 98, 97>>, <<128512, 98>>, <<98, 98, 128512, 97>>, <<55357, 97, 128512>>}
Reps == {[fn |-> FALSE, items |-> items] : items \in {
            <<AP!Item("text", <<60>>), AP!Item("whole", <<>>), AP!Item("text", <<56832>>)>>,
            <<AP!Item("group", <<1>>), AP!Item("dollar", <<>>), AP!Item("group", <<0>>)>>,
            <<AP!Item("before", <<>>), AP!Item("text", <<36, 8364, 233>>), AP!Item("after", <<>>)>>,
            <<AP!Item("text", <<36, 128512>>), AP!Item("group", <<2>>), AP!Item("text", <<36>>)>> }} \cup {[fn |-> TRUE]}
TextSubjects == ApiSubjects \cup {<<98, 97, 98, 97, 98, 97>>, <<56832, 97, 55357>>}
Needles == {<<>>, <<97>>, <<98, 97>>, <<97, 98, 97>>, <<128512>>, <<55357>>, <<56832>>, <<56832, 98>>}
RegexpSamples == [law : {"match"}, i : 0 .. 999] \cup [law : {"test"}] \cup [law : {"api"}, i : DOMAIN ApiPatterns, flags : DOMAIN Flags, last : {0, 1, 2, 9}]
                 \cup [law : {"text"}, s : TextSubjects, needle : Needles]
RegexpAgrees ==
    part = "regexp" /\ sample # <<>> =>
        CASE sample.law = "match" -> \A input \in Subjects : MatchesAlike(PatternOf(sample.i), "", input, 0)
          [] sample.law = "test" ->
                /\ MatchesAlike(TestPattern, "", TestSubject, 0)
                /\ RL!FirstMatch(TestPattern, TestSubject, {}, 0)[5] = RL!Emptied
          [] sample.law = "text" -> AP!TextLaw(sample.s, sample.needle, Reps)
          [] sample.law = "api" ->
                \A s \in ApiSubjects : AP!ApiLaw(ApiPatterns[sample.i], Flags[sample.flags][2], Flags[sample.flags][1], s, sample.last, Reps)

-----------------------------------------------------------------------------
(* Strings over letters of both cases, a space, the halves of a character of
   two units, that character, and one above the surrogates. *)
Letters == {97, 66, 32, 55357, 56832, 128512, 57344}
StringsOf(n) == {s \in UNION {[1 .. k -> Letters] : k \in 0 .. n} : ST!Canonical(s)}
Offsets == -2 .. 5
CachedStrings == {<< <<97, 128512, 57344, 128512>>, <<128512, 97, 97, 128512, 97>> >>, << <<55357, 97, 128512, 97>>, <<97, 97, 97, 97, 97, 97, 97>> >>}
Queries == [id : {1, 2}, pos : {0, 1, 2, 3, 5, 9}, type : {"utf16"}] \cup [id : {1, 2}, pos : {3, 4, 8}, type : {"utf8"}]
UnitTexts == UNION {[1 .. k -> {65, 127, 128, 2047, 2048, 55295, 55296, 56319, 56320, 57343, 57344, 65535}] : k \in 0 .. 3}
StringSamples ==
    [law : {"whole"}, s : StringsOf(3), t : {<<>>}]
    \cup [law : {"part"}, s : StringsOf(3), t : Offsets]
    \cup [law : {"pair"}, s : StringsOf(2) \cup {<<97, 128512, 97>>, <<97, 97, 55357>>}, t : StringsOf(2)]
    \cup [law : {"cache"}, s : CachedStrings, t : Queries]
    \cup [law : {"wtf8"}, s : UnitTexts, t : {<<>>}]
StringsAgree ==
    part = "strings" /\ sample # <<>> =>
        CASE sample.law = "whole" -> ST!WholeLaw(sample.s)
          [] sample.law = "part" -> \A b \in Offsets \cup {Undefined} : ST!PartLaw(sample.s, sample.t, b)
          [] sample.law = "pair" -> ST!PairLaw(sample.s, sample.t, {Undefined, -1, 0, 1, 2, 4})
          [] sample.law = "wtf8" -> ST!Wtf8Law(sample.s)
          [] sample.law = "cache" -> ST!CacheLaw(sample.s, sample.t, Queries, 2)

-----------------------------------------------------------------------------
(* Tables.  Where the strings of the names stand before and after a collection; e is a
   short integer, x an atom in ROM. *)
Address == [a |-> <<17, 33>>, b |-> <<57, 49>>, c |-> <<73, 57>>, d |-> <<105, 89>>, e |-> <<4, 4>>, f |-> <<145, 185>>, x |-> <<129, 129>>]
Keys(epoch) == [name \in DOMAIN Address |-> Address[name][epoch]]
Moves(epoch) == [k \in {Address[name][epoch] : name \in DOMAIN Address} |->
                    Address[CHOOSE name \in DOMAIN Address : Address[name][epoch] = k][3 - epoch]]
Op(op, name, v) == [op |-> op, name |-> name, val |-> v]
Changes(names) == [op : {"value", "delete"}, name : names, val : {1}] \cup {Op("gc", "a", 0)}
Definitions == {Op("get", "e", 5), Op("set", "e", 6), Op("assign", "e", 2), Op("declare", "b", 0), Op("refer", "b", 0), Op("value", "a", 3)}
(* left is how many steps are left, or -1. *)
Table(p, m, global, names, left) ==
    [p |-> p, m |-> m, epoch |-> 1, global |-> global, names |-> names, left |-> left, alike |-> TRUE, most |-> Len(m)]
Larger(a, b) == IF a > b THEN a ELSE b
TableStep(s, o) ==
    LET After(said, done) ==
            [s EXCEPT !.p = done.p, !.m = said.m, !.epoch = IF o.op = "gc" THEN 3 - s.epoch ELSE s.epoch,
                      !.left = IF s.left > 0 THEN s.left - 1 ELSE s.left, !.alike = said.thrown = done.thrown,
                      !.most = IF done.p.place = "empty" THEN 0 ELSE Larger(s.most, Len(said.m))]
    IN After(PM!Promised(s.m, o, s.global), PM!Performed(s.p, o, s.global, Keys(s.epoch), Moves(s.epoch)))
TableSteps(s) == IF s.left = 0 THEN {} ELSE {TableStep(s, o) : o \in Changes(s.names) \cup IF s.left > 0 THEN Definitions ELSE {}}
RomList == <<PM!Entry("a", "normal", <<7>>), PM!Entry("e", "getset", <<8, 9>>), PM!Entry("x", "normal", PM!get_special_prop(<<3>>))>>
Rom == PM!define_props(<<[key |-> Address["a"][1], value |-> <<7>>, type |-> "normal"], [key |-> Address["e"][1], value |-> <<8, 9>>, type |-> "getset"],
                         [key |-> Address["x"][1], value |-> <<3>>, type |-> "special"]>>)
RECURSIVE Filled(_, _)
Filled(s, names) == IF names = <<>> THEN s ELSE Filled(TableStep(s, Op("value", Head(names), 1)), Tail(names))
EmptyTable(global, names, left) == Table(PM!EmptyProps, <<>>, global, names, left)
TableSamples ==
    {EmptyTable(FALSE, {"a", "b", "e"}, -1), EmptyTable(TRUE, {"b"}, 5), EmptyTable(FALSE, {"b"}, 5),
     [Table(PM!Ram(PM!js_alloc_props(3)), <<>>, FALSE, {"a", "b", "c"}, -1) EXCEPT !.most = 3],
     Table(Rom, RomList, FALSE, {"a", "x"}, 5),
     [Filled(EmptyTable(FALSE, {"a", "b", "d", "f"}, 0), <<"a", "b", "c", "d">>) EXCEPT !.left = 4]}
TableLaw(s) == s.alike /\ PM!IsTheList(s.p, s.m, Keys(s.epoch)) /\ PM!KeepsSmall(s.p, s.most)

-----------------------------------------------------------------------------
ArrayOps ==
    {[op |-> "push", v |-> <<1>>], [op |-> "push", v |-> <<1, 2>>], [op |-> "unshift", v |-> <<3>>], [op |-> "unshift", v |-> <<3, 4>>]}
    \cup [op : {"pop", "shift", "reverse"}, v : {0}]
    \cup [op : {"length"}, v : {-1, 0, 1, 3, 5}] \cup [op : {"set"}, v : 0 .. 4] \cup [op : {"splice"}, v : {0, 1}]
ArrayStep(s, o) ==
    LET After(r) == [s EXCEPT !.p = r.p, !.alike = AR!AsPromised(AR!Values(s.p), o, r), !.left = s.left - 1]
    IN After(AR!Performed(s.p, o))
ArraySteps(s) == IF s.left = 0 THEN {} ELSE {ArrayStep(s, o) : o \in ArrayOps}
(* Arrays with room behind their length, and what was there. *)
Arrays == {AR!Array(n, tab) : n \in 0 .. 3, tab \in {<<1, 2, 3, 4>>, <<2, Undefined, 1>>, <<1, 2, 1, Undefined, 2>>}}
Program == {"none", "pop", "shift", "push", "unshift", "one left", "first set"}
Arguments == {Undefined} \cup [n : -4 .. 4, change : {"none", "pop", "push", "one left"}]
Functions == [results : {<<0>>, <<1>>, <<1, 0>>, <<0, 1>>, <<5, Undefined, 6>>, <<1, Exception>>},
              changes : {<<x, y>> : x \in Program, y \in {"none", "pop", "push"}} \cup {<<"none", x, "none">> : x \in Program}]
(* One that ranks, by remainder or backwards, and one that does not. *)
OrderOf(f) == [x \in {1, 2, 3, 4, 7, 8, 9} \X {1, 2, 3, 4, 7, 8, 9} |->
                  LET a == f[1 + (x[1] % 3)]
                      b == f[1 + (x[2] % 3)]
                  IN IF a < b THEN -1 ELSE IF a > b THEN 1 ELSE 0]
Circular == [x \in {1, 2, 3, 4, 7, 8, 9} \X {1, 2, 3, 4, 7, 8, 9} |-> CASE (x[1] - x[2]) % 3 = 0 -> 0 [] (x[1] - x[2]) % 3 = 1 -> 1 [] OTHER -> -1]
Comparisons == [order : {OrderOf(<<1, 2, 3>>), OrderOf(<<2, 1, 1>>), OrderOf(<<1, 1, 2>>), OrderOf(<<1, 1, 1>>), Circular}, throws : {0, 1, 2},
                changes : {<<x>> : x \in Program}]
Unsorted == {<<4, 1, 2, 3>>, <<1, 4, 3, Undefined>>, <<3, 2, 1, 4>>, <<Undefined, 2, Undefined, 1>>, <<2, 3, 4, 1, 3>>, <<1, 4, 7, 2, 8, 3>>}
ArraySamples ==
    [law : {"steps"}, p : {AR!JS_NewArray(0)}, left : {5}, alike : {TRUE}]
    \cup [law : {"each", "join"}, p : Arrays]
    \cup [law : {"part"}, p : Arrays, start : Arguments \ {Undefined}]
    \cup [law : {"sort"}, p : {AR!Array(Len(t), t) : t \in Unsorted} \cup {AR!Array(3, t) : t \in Unsorted}, by : Comparisons]
ArrayLaw(s) ==
    CASE s.law = "steps" -> s.alike
      [] s.law = "each" ->
            \A fn \in Functions :
                /\ \A special \in {"every", "some", "map", "filter", "forEach"} : AR!EachLaw(s.p, special, fn)
                /\ \A init \in {Null, 3}, right \in BOOLEAN : AR!ReduceLaw(s.p, fn, init, right)
      [] s.law = "part" -> /\ \A end \in Arguments : AR!PartLaw(s.p, s.start, end)
                           /\ \A x \in {1, 2, 3} : AR!IndexLaw(s.p, x, s.start) /\ AR!IndexLaw(s.p, x, Undefined)
      [] s.law = "join" -> /\ \A x, y \in Program : AR!JoinLaw(s.p, <<x, y>>)
                           /\ \A p \in Arrays : AR!ConcatLaw(<<s.p, p>>)
      [] s.law = "sort" -> AR!SortLaw(s.p, s.by, {1, 2, 3, 4})

-----------------------------------------------------------------------------
(* Heaps of five blocks, one of which is the array of unique strings, with
   references drawn from a number; room is what the mark stack has.         *)
Draw(i, k, n) == ((i * 7919 + k * 5231 + i * k * 31) \div 11) % n
Drawn == << HP!Header("value_array", "none", 2), HP!Header("object", "user", 3), HP!Header("string", "none", 1), HP!Header("object", "closure", 4),
            HP!Header("varref", "none", 1), HP!Header("object", "array", 4), HP!Header("object", "user", 3), HP!Header("string", "none", 2) >>
HeapOf(i, room) ==
    LET unique == 1 + (i % 5)
        header == [b \in 1 .. 5 |-> IF b = unique THEN HP!Header("value_array", "none", 3) ELSE Drawn[1 + Draw(i, b, Len(Drawn))]]
        Start(b) == 1 + HP!Total([k \in 1 .. b - 1 |-> HP!get_mblock_size(header[k])])
        Target(b, k) ==
            LET t == Draw(i, 10 * b + k, 8)
            IN IF t \in 1 .. 5 \ {b, unique} /\ (b = unique => header[t].mtag = "string") THEN HP!Ptr(Start(t)) ELSE HP!Blank
        WordAt(a) ==
            LET b == CHOOSE c \in 1 .. 5 : Start(c) <= a /\ a < Start(c) + HP!get_mblock_size(header[c])
                values == HP!ValueWords(header[b])
            IN IF a = Start(b) THEN header[b]
               ELSE IF \E k \in DOMAIN values : values[k] = a - Start(b) THEN Target(b, a - Start(b)) ELSE HP!Raw(a)
        free == Start(6)
    IN [mem |-> [a \in -4 .. free - 1 |-> CASE a > 0 -> WordAt(a) [] a = 0 -> HP!Ptr(Start(unique)) [] OTHER -> Target(6, 0 - a)],
        free |-> free, top |-> free - 1 + room, min_free |-> 2, unique |-> 0, cache |-> <<-1, -2>>, roots |-> <<-3, -4>>]
(* A program with two variables in a memory of twelve words. *)
Made == {HP!Header("value_array", "none", 2), HP!Header("varref", "none", 1), HP!Header("string", "none", 2)}
HeapOps == [op : {"new"}, root : {1, 2}, header : Made] \cup [op : {"drop", "free", "shrink"}, root : {1, 2}] \cup [op : {"gc"}, root : {1}]
           \cup [op : {"call"}, root : {1}, cells : {<<-1, -2>>}, headers : {<<HP!Header("string", "none", 2), HP!Header("string", "none", 1)>>}]
           \cup [op : {"store"}, root : {1, 2}, i : {1, 2}, from : {1, 2}]
Nodes == [n \in 1 .. 7 |-> HP!Nothing]
Fresh == [mem |-> [a \in -4 .. 12 |-> HP!Blank], free |-> 1, top |-> 12, min_free |-> 2, unique |-> 0, cache |-> <<>>, roots |-> <<-3, -4>>]
HeapStep(s, o) == [s EXCEPT !.h = HP!Cleared(HP!Done(s.h, o)), !.g = HP!Meant(s.h, s.g, o), !.left = @ - 1]
HeapSteps(s) == IF s.left = 0 THEN {} ELSE {HeapStep(s, o) : o \in {p \in HeapOps : HP!Allowed(s.g, p)}}
HeapSamples == {[law |-> "gc", h |-> HeapOf(i, room)] : i \in 0 .. 999, room \in {2, 3, 64}} \cup [law : {"steps"}, h : {Fresh}, g : {[nodes |-> Nodes, roots |-> <<0, 0>>]}, left : {5}]
HeapLaw(s) == IF s.law = "gc" THEN HP!GcLaw(s.h) ELSE HP!Represents(s.h, s.g)

(* After any sequence of operations a table is the list it promises to be, and
   an array the sequence; and so are the methods that call a function. *)
ObjectsAgree ==
    sample # <<>> =>
        /\ part = "tables" => TableLaw(sample)
        /\ part = "arrays" => ArrayLaw(sample)
        /\ part = "heap" => HeapLaw(sample)

-----------------------------------------------------------------------------
Samples == [floats |-> FloatSamples, texts |-> TextSamples, tokens |-> TokenSamples, regexp |-> RegexpSamples,
            strings |-> StringSamples, tables |-> TableSamples, arrays |-> ArraySamples, heap |-> HeapSamples]
Init == part \in DOMAIN Samples /\ sample = <<>>
Chosen == sample = <<>> /\ sample' \in Samples[part] /\ UNCHANGED part
TableStepped == part = "tables" /\ sample # <<>> /\ sample' \in TableSteps(sample) /\ UNCHANGED part
ArrayStepped == part = "arrays" /\ sample # <<>> /\ "left" \in DOMAIN sample /\ sample' \in ArraySteps(sample) /\ UNCHANGED part
HeapStepped == part = "heap" /\ sample # <<>> /\ "left" \in DOMAIN sample /\ sample' \in HeapSteps(sample) /\ UNCHANGED part
Next == Chosen \/ TableStepped \/ ArrayStepped \/ HeapStepped
Spec == Init /\ [][Next]_vars
=============================================================================
