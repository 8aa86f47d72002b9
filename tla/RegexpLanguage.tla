---------------------------- MODULE RegexpLanguage ----------------------------
(* What a regular expression means: the reference the compiled code is compared
   with.  A pattern is a tree with its text; its meaning maps a position and
   captures to all the outcomes, in the order in which they are tried.  In one
   point it says what the code does and not what the language says: see Emptied. *)
EXTENDS Integers, Sequences, SequencesExt, TLC

Chr(text, c) == [k |-> "set", text |-> text, takes |-> {c}, inverted |-> FALSE]
Set(text, cs) == [k |-> "set", text |-> text, takes |-> cs, inverted |-> FALSE]
NotSet(text, cs) == [k |-> "set", text |-> text, takes |-> cs, inverted |-> TRUE]
Empty == [k |-> "empty", text |-> ""]
Assertion(text, name) == [k |-> name, text |-> text]
Cat(a, b) == [k |-> "cat", a |-> a, b |-> b, text |-> a.text \o b.text]
Alt(a, b) == [k |-> "alt", a |-> a, b |-> b, text |-> a.text \o "|" \o b.text]
(* A group without a capture, and one with. *)
In(a) == [k |-> "in", a |-> a, text |-> "(?:" \o a.text \o ")"]
Group(a) == [k |-> "group", a |-> a, text |-> "(" \o a.text \o ")"]
Look(a) == [k |-> "look", a |-> a, text |-> "(?=" \o a.text \o ")"]
NotLook(a) == [k |-> "not_look", a |-> a, text |-> "(?!" \o a.text \o ")"]
BackRef(n) == [k |-> "ref", n |-> n, text |-> "\\" \o ToString(n)]
Quantified(a, text, min, max, greedy) == 
    [k |-> "quant", a |-> a, min |-> min, max |-> max, optional |-> min = 0, greedy |-> greedy, text |-> a.text \o text]
(* More repetitions than any subject here has characters. *)
Many == 99

RECURSIVE Groups(_)
Groups(p) ==
    CASE p.k \in {"cat", "alt"} -> Groups(p.a) + Groups(p.b)
      [] p.k = "group" -> 1 + Groups(p.a)
      [] p.k \in {"in", "look", "not_look", "quant"} -> Groups(p.a)
      [] OTHER -> 0

NoSpan == <<-1, -1>>
(* A capture that a quantifier reset and that then took no part should be as
   undefined as one that never did; tests/test_builtin.js expects that of
   /(z)((a+)?(b+)?(c))*/.  The code leaves it the empty string at the start of
   the subject: in each iteration of an atom that may not set its captures, and
   where an atom that sets them all may be left out.                            *)
Emptied == <<0, 0>>
RECURSIVE MayNotSet(_)
MayNotSet(p) ==
    CASE p.k \in {"alt", "look", "not_look", "ref"} -> TRUE
      [] p.k = "quant" -> p.max > 0
      [] p.k = "cat" -> MayNotSet(p.a) \/ MayNotSet(p.b)
      [] p.k \in {"in", "group"} -> MayNotSet(p.a)
      [] OTHER -> FALSE
Fold(c, i) == IF i /\ c \in 65 .. 90 THEN c + 32 ELSE c
Word(input, k) == k \in 1 .. Len(input) /\ input[k] \in 48 .. 57 \cup 65 .. 90 \cup 97 .. 122 \cup {95}
LineEnd(c) == c \in {10, 13, 8232, 8233}
(* The cases of a character that are equal under the flag i. *)
Accepts(p, c, i) == (c \in p.takes \/ (i /\ \E d \in p.takes : Fold(c, TRUE) = Fold(d, TRUE))) # p.inverted
Holds(name, input, pos, flags) ==
    CASE name = "start" -> pos = 0 \/ ("m" \in flags /\ LineEnd(input[pos]))
      [] name = "end" -> pos = Len(input) \/ ("m" \in flags /\ LineEnd(input[pos + 1]))
      [] name = "boundary" -> Word(input, pos) # Word(input, pos + 1)
      [] name = "no boundary" -> Word(input, pos) = Word(input, pos + 1)
Flat(seqs) == FlattenSeq(seqs)

(* n is the number of groups opened before p. *)
RECURSIVE Outcomes(_, _, _, _, _)
Outcomes(p, n, input, flags, x) ==
    LET Each(q, m, xs) == Flat([j \in 1 .. Len(xs) |-> Outcomes(q, m, input, flags, xs[j])])
        within == IF p.k = "quant" THEN n + 1 .. n + Groups(p.a) ELSE {}
        LeaveOut(caps) == [g \in DOMAIN caps |-> IF g \in within /\ p.optional /\ ~MayNotSet(p.a) /\ caps[g] = NoSpan THEN Emptied ELSE caps[g]]
        Clear(caps) == [g \in DOMAIN caps |-> IF g \in within /\ MayNotSet(p.a) THEN Emptied ELSE LeaveOut(caps)[g]]
        left_out == [x EXCEPT !.caps = LeaveOut(@)]
        fewer == [p EXCEPT !.min = IF @ = 0 THEN 0 ELSE @ - 1, !.max = @ - 1]
        span == x.caps[p.n]
        len == IF span = NoSpan THEN 0 ELSE span[2] - span[1]
        inside == Outcomes(p.a, n + (IF p.k = "group" THEN 1 ELSE 0), input, flags, x)
        iterated == SelectSeq(Outcomes(p.a, n, input, flags, [x EXCEPT !.caps = Clear(@)]), LAMBDA y : p.min > 0 \/ y.pos # x.pos)
        more == Each(fewer, n, iterated)
    IN CASE p.k = "empty" -> <<x>>
         [] p.k = "set" -> IF x.pos < Len(input) /\ Accepts(p, input[x.pos + 1], "i" \in flags) THEN <<[x EXCEPT !.pos = @ + 1]>> ELSE <<>>
         [] p.k \in {"start", "end", "boundary", "no boundary"} -> IF Holds(p.k, input, x.pos, flags) THEN <<x>> ELSE <<>>
         [] p.k = "cat" -> Each(p.b, n + Groups(p.a), Outcomes(p.a, n, input, flags, x))
         [] p.k = "alt" -> Outcomes(p.a, n, input, flags, x) \o Outcomes(p.b, n + Groups(p.a), input, flags, x)
         [] p.k = "in" -> inside
         [] p.k = "group" -> [j \in 1 .. Len(inside) |-> [inside[j] EXCEPT !.caps[n + 1] = <<x.pos, inside[j].pos>>]]
         [] p.k = "look" -> IF inside = <<>> THEN <<>> ELSE <<[x EXCEPT !.caps = inside[1].caps]>>
         [] p.k = "not_look" -> IF inside = <<>> THEN <<x>> ELSE <<>>
         [] p.k = "ref" -> IF x.pos + len <= Len(input)
                              /\ \A j \in 1 .. len : Fold(input[span[1] + j], "i" \in flags) = Fold(input[x.pos + j], "i" \in flags)
                           THEN <<[x EXCEPT !.pos = @ + len]>> ELSE <<>>
         [] p.k = "quant" -> IF p.max = 0 THEN <<left_out>>
                             ELSE IF p.min > 0 THEN more
                             ELSE IF p.greedy THEN Append(more, left_out) ELSE <<left_out>> \o more
NoMatch == <<>>
(* The spans of the first match at or after from, of the whole and of each
   capture; under the flag y only at from. *)
FirstMatch(p, input, flags, from) ==
    LET caps == [g \in 1 .. Groups(p) |-> NoSpan]
        At(pos) == Outcomes(p, 0, input, flags, [pos |-> pos, caps |-> caps])
        first[pos \in from .. Len(input) + 1] ==
            IF pos > Len(input) THEN NoMatch
            ELSE LET found == At(pos)
                 IN IF found # <<>> THEN << <<pos, found[1].pos>> >> \o found[1].caps
                    ELSE IF "y" \in flags THEN NoMatch ELSE first[pos + 1]
    IN first[from]
===============================================================================
