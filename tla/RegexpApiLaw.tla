---------------------------- MODULE RegexpApiLaw ----------------------------
(* What the methods of module RegexpApi promise: the algorithms of the language
   on the meaning of a pattern.  A place is a number of characters here, and
   the units are counted at the end.                                        *)
EXTENDS RegexpApi, StringsLaw
RL == INSTANCE RegexpLanguage

UnitsOf(s, i) == FoldLeft(LAMBDA n, c : n + Units(c), 0, SubSeq(s, 1, i))
CharsBefore(s, pos) == CHOOSE i \in 0 .. Len(s) : UnitsOf(s, i) <= pos /\ (i = Len(s) \/ UnitsOf(s, i + 1) > pos)
PartOf(s, span) == SubSeq(s, span[1] + 1, span[2])
GroupsOf(s, m) == [g \in DOMAIN m |-> IF m[g] = RL!NoSpan THEN Undefined ELSE PartOf(s, m[g])]
Counts(flags) == flags \cap {"g", "y"} # {}

(* exec from lastIndex on, and lastIndex behind it; a lastIndex behind the end
   is taken as the end. *)
Ran(m, flags, s, last) == [m |-> m, last |-> IF ~Counts(flags) THEN last ELSE IF m = RL!NoMatch THEN 0 ELSE UnitsOf(s, m[1][2])]
IndexOf(m, s) == IF m = RL!NoMatch THEN -1 ELSE UnitsOf(s, m[1][1])
Exec(pattern, flags, s, last) ==
    Ran(RL!FirstMatch(pattern, s, flags, IF Counts(flags) THEN CharsBefore(s, At_least(last, 0)) ELSE 0), flags, s, last)
ExecLaw(pattern, flags, s, p) ==
    \A want \in {Exec(pattern, flags, s, p.last_index)}, got \in {js_regexp_exec(p, s, "exec")},
       test \in {js_regexp_exec(p, s, "test")}, search \in {js_string_search(s, p).value} :
        /\ got.p.last_index = want.last /\ test.p.last_index = want.last
        /\ test.value = (want.m # RL!NoMatch)
        /\ IF want.m = RL!NoMatch THEN got.value = Null
           ELSE got.value.index = UnitsOf(s, want.m[1][1]) /\ got.value.captures = GroupsOf(s, want.m)
        /\ search = IndexOf(RL!FirstMatch(pattern, s, flags, 0), s)

(* All the matches of a global search: behind an empty one the search goes on
   one character later. *)
RECURSIVE AllMatches(_, _, _, _)
AllMatches(pattern, flags, s, from) ==
    LET Then(m) == IF m = RL!NoMatch THEN <<>>
                   ELSE <<m>> \o AllMatches(pattern, flags, s, IF m[1][2] = m[1][1] THEN m[1][2] + 1 ELSE m[1][2])
    IN IF from > Len(s) THEN <<>> ELSE Then(RL!FirstMatch(pattern, s, flags, from))
(* The captures of one match are left over for the next one where that does
   not set them: the law is about matches that set what the earlier ones did. *)
SetAgain(ms) == \A j \in DOMAIN ms : \A i \in 1 .. j - 1 : \A g \in DOMAIN ms[j] : ms[j][g] = RL!NoSpan => ms[i][g] = RL!NoSpan

(* A template is a sequence of texts and references, written with dollars. *)
Item(k, text) == [k |-> k, text |-> text]
Written(item) ==
    CASE item.k = "text" -> item.text
      [] item.k = "dollar" -> <<36, 36>>
      [] item.k = "whole" -> <<36, 38>>
      [] item.k = "before" -> <<36, 96>>
      [] item.k = "after" -> <<36, 39>>
      [] item.k = "group" -> <<36, 48 + item.text[1]>>
TextOf(items) == FlattenSeq([i \in DOMAIN items |-> Written(items[i])])
Put(item, s, m) ==
    CASE item.k = "text" -> item.text
      [] item.k = "dollar" -> <<36>>
      [] item.k = "whole" -> PartOf(s, m[1])
      [] item.k = "before" -> SubSeq(s, 1, m[1][1])
      [] item.k = "after" -> SubSeq(s, m[1][2] + 1, Len(s))
      [] item.k = "group" ->
             IF item.text[1] \notin 1 .. Len(m) - 1 THEN Written(item)
             ELSE IF m[item.text[1] + 1] = RL!NoSpan THEN <<>> ELSE PartOf(s, m[item.text[1] + 1])
Replacement(rep, s, m) ==
    IF rep.fn THEN Replacer([captures |-> GroupsOf(s, m), pos |-> UnitsOf(s, m[1][1]), str |-> s])
    ELSE FlattenSeq([i \in DOMAIN rep.items |-> Put(rep.items[i], s, m)])
Replaced2(s, ms, rep) ==
    LET end(i) == IF i = 0 THEN 0 ELSE ms[i][1][2]
        Upto(i) == SubSeq(s, end(i - 1) + 1, ms[i][1][1]) \o Replacement(rep, s, ms[i])
    IN FlattenSeq([i \in DOMAIN ms |-> Upto(i)]) \o SubSeq(s, end(Len(ms)) + 1, Len(s))
Template1(rep, all) == IF rep.fn THEN [fn |-> TRUE, all |-> all] ELSE [fn |-> FALSE, text |-> TextOf(rep.items), all |-> all]
(* Surrogates that meet are one character. *)
Joined(s) == FoldLeft(string_buffer_putc, <<>>, s)
OneMatch(m) == IF m = RL!NoMatch THEN <<>> ELSE <<m>>
(* The matches replace works on; here a lastIndex behind the end finds none. *)
MatchesFor(pattern, flags, s, last) ==
    IF "g" \in flags THEN AllMatches(pattern, flags, s, 0)
    ELSE IF Counts(flags) /\ last > UnitsOf(s, Len(s)) THEN <<>>
    ELSE OneMatch(Exec(pattern, flags, s, last).m)
LastAfter(flags, s, ms, last) ==
    IF "g" \in flags THEN 0 ELSE IF "y" \notin flags THEN last ELSE IF ms = <<>> THEN 0 ELSE UnitsOf(s, ms[1][1][2])
ReplaceLaw(pattern, flags, s, p, reps) ==
    \A ms \in {MatchesFor(pattern, flags, s, p.last_index)} :
        SetAgain(ms) =>
            \A rep \in reps : \A r \in {js_string_replace(s, p, Template1(rep, FALSE))} :
                r.value = Joined(Replaced2(s, ms, rep)) /\ r.p.last_index = LastAfter(flags, s, ms, p.last_index)

(* match with g: the matches' texts.  An empty match is found again and again,
   until the heap is full. *)
MatchLaw(pattern, flags, s, p) ==
    "g" \in flags =>
        \A ms \in {AllMatches(pattern, flags, s, 0)}, r \in {js_string_match(s, p)} :
            IF \E i \in DOMAIN ms : ms[i][1][1] = ms[i][1][2] THEN r.value = "InternalError"
            ELSE r.p.last_index = 0 /\ r.value = IF ms = <<>> THEN Null ELSE [i \in DOMAIN ms |-> PartOf(s, ms[i][1])]

(* split: a separator is searched at each place, and is not an empty one where
   the last one ended.  The law is not about a search that finds its first
   match at the end of the string, where a separator is not looked for. *)
RECURSIVE Parts(_, _, _, _, _)
Parts(pattern, flags, s, from, q) ==
    LET Then(m) == IF m = RL!NoMatch \/ m[1][2] = from THEN Parts(pattern, flags, s, from, q + 1)
                   ELSE <<SubSeq(s, from + 1, q)>> \o Tail(GroupsOf(s, m)) \o Parts(pattern, flags, s, m[1][2], m[1][2])
    IN IF q >= Len(s) THEN <<SubSeq(s, from + 1, Len(s))>> ELSE Then(RL!FirstMatch(pattern, s, flags \cup {"y"}, q))
FoundAtEnd(pattern, flags, s) ==
    "y" \notin flags /\ \E q \in 0 .. Len(s) - 1 : LET m == RL!FirstMatch(pattern, s, flags, q) IN m # RL!NoMatch /\ m[1][1] = Len(s)
SplitLaw(pattern, flags, s, p) ==
    ~FoundAtEnd(pattern, flags, s) =>
        \A parts \in {IF s # <<>> THEN Parts(pattern, flags, s, 0, 0)
                      ELSE IF RL!FirstMatch(pattern, s, flags \cup {"y"}, 0) = RL!NoMatch THEN <<s>> ELSE <<>>} :
            \A lim \in {Unlimited} \cup IF RL!Groups(pattern) = 0 THEN 0 .. 3 ELSE {} :
                js_string_split(s, p, lim) = SubSeq(parts, 1, At_most(lim, Len(parts)))

(* replace, replaceAll and split with a text, in units: where the text is,
   one behind the other, or between all units when it is empty. *)
RECURSIVE Places(_, _, _)
Places(u, v, from) ==
    LET Then(i) == IF i < 0 THEN <<>> ELSE <<i>> \o Places(u, v, i + At_least(Len(v), 1))
    IN IF from > Len(u) THEN <<>> ELSE Then(First16(u, v, from))
Put16(item, u, v, pos) ==
    CASE item.k = "text" -> Units16(item.text)
      [] item.k = "dollar" -> <<36>>
      [] item.k = "whole" -> v
      [] item.k = "before" -> SubSeq(u, 1, pos)
      [] item.k = "after" -> SubSeq(u, pos + Len(v) + 1, Len(u))
      [] item.k = "group" -> Written(item)
Replacement16(rep, s, needle, u, v, pos) ==
    IF rep.fn THEN Units16(Replacer([captures |-> <<needle>>, pos |-> pos, str |-> s]))
    ELSE FlattenSeq([i \in DOMAIN rep.items |-> Put16(rep.items[i], u, v, pos)])
Between(u, v, at, i) == SubSeq(u, (IF i = 1 THEN 0 ELSE at[i - 1] + Len(v)) + 1, IF i > Len(at) THEN Len(u) ELSE at[i])
ReplacedText(s, needle, rep, u, v, at) ==
    FlattenSeq([i \in DOMAIN at |-> Between(u, v, at, i) \o Replacement16(rep, s, needle, u, v, at[i])]) \o Between(u, v, at, Len(at) + 1)
SplitParts(u, v, at) == [i \in 1 .. Len(at) + 1 |-> Between(u, v, at, i)]
TextLawOn(s, needle, reps, u, v, at) ==
    LET inside == SelectSeq(at, LAMBDA i : v # <<>> \/ i \in 1 .. Len(u) - 1)
        parts == IF u = <<>> /\ v = <<>> THEN <<>> ELSE SplitParts(u, v, inside)
    IN /\ \A rep \in reps :
            /\ Stands(js_string_replace_text(s, needle, Template1(rep, TRUE)), ReplacedText(s, needle, rep, u, v, at))
            /\ Stands(js_string_replace_text(s, needle, Template1(rep, FALSE)), ReplacedText(s, needle, rep, u, v, SubSeq(at, 1, At_most(1, Len(at)))))
       /\ \A lim \in {0, 1, 2, Unlimited} : \A got \in {js_string_split_text(s, needle, lim)} :
            /\ Len(got) = At_most(lim, Len(parts))
            /\ \A i \in DOMAIN got : Stands(got[i], parts[i])
TextLaw(s, needle, reps) == TextLawOn(s, needle, reps, Units16(s), Units16(needle), Places(Units16(s), Units16(needle), 0))

ApiLaw(pattern, flags, flags_text, s, last, reps) ==
    \A p \in {js_regexp_set_lastIndex(js_regexp_constructor(pattern.text, flags_text), last)} :
        /\ js_regexp_get_flags(p) = SelectSeq(<<"g", "i", "m", "s", "u", "y">>, LAMBDA c : c \in flags)
        /\ ExecLaw(pattern, flags, s, p) /\ ReplaceLaw(pattern, flags, s, p, reps)
        /\ MatchLaw(pattern, flags, s, p) /\ SplitLaw(pattern, flags, s, p)
=============================================================================
