-------------------------------- MODULE Lexer --------------------------------
(* next_token of mquickjs.c: the tokens of a source text.  A position is the
   index of a character, and past the end there is the terminating NUL, here
   "".  A token has the position where it starts and the one after it, whether
   a line feed came before it, and its class t: the text of a name or of a
   punctuator, or one of the classes below, whose text or value is v.       *)
EXTENDS Integers, Sequences, FiniteSets, FiniteSetsExt

NumberToken == "#number"
StringToken == "#string"
RegexpToken == "#regexp"
EndOfFile == "#eof"
LexicalError == "#error"

CharAt(src, i) == IF i \in 1 .. Len(src) THEN SubSeq(src, i, i) ELSE ""
Text(src, i, j) == SubSeq(src, i, IF j - 1 > Len(src) THEN Len(src) ELSE j - 1)
Starts(src, i, text) == Text(src, i, i + Len(text)) = text
CharsOf(text) == {SubSeq(text, i, i) : i \in 1 .. Len(text)}
Digits == CharsOf("0123456789")
IdentFirst == CharsOf("abcdefghijklmnopqrstuvwxyzABCDEFGHIJKLMNOPQRSTUVWXYZ_$")
IdentNext == IdentFirst \cup Digits
Blanks == {" ", "\t", "\f", "\r"}
LineEnds == {"", "\n", "\r"}
(* The operators of more than one character; the longest that fits is taken. *)
LongOperators ==
    {"/=", "*=", "**", "**=", "%=", "+=", "++", "-=", "--", "<=", "<<", "<<=", ">=", ">>", ">>=", ">>>", ">>>=",
     "==", "===", "!=", "!==", "&=", "&&", "^=", "|=", "||"}
ReservedWords ==
    {"null", "false", "true", "if", "else", "return", "var", "this", "delete", "void", "typeof", "new", "in", "instanceof",
     "do", "while", "for", "break", "continue", "switch", "case", "default", "throw", "try", "catch", "finally", "function",
     "debugger", "with", "class", "const", "enum", "export", "extends", "import", "super", "implements", "interface", "let",
     "package", "private", "protected", "public", "static", "yield"}
IsIdentifier(t) == CharAt(t, 1) \in IdentFirst /\ \A i \in 2 .. Len(t) : CharAt(t, i) \in IdentNext
(* Mutant: a slash after an increment is taken for a regexp. *)
RegexpAfterAnyOperator(t) ==
    t \notin {NumberToken, StringToken, RegexpToken, "null", "false", "true", "this", ")", "]"}
    /\ (IsIdentifier(t) => t \in ReservedWords)
is_regexp_allowed(t) ==
    t \notin {NumberToken, StringToken, RegexpToken, "--", "++", "null", "false", "true", "this", "if", "while", "for", "do",
              "case", "catch", ")", "]"} /\ (IsIdentifier(t) => t \in ReservedWords)

DecimalValue(text) ==
    LET v[i \in 0 .. Len(text)] ==
            IF i = 0 THEN 0 ELSE 10 * v[i - 1] + (CHOOSE d \in 0 .. 9 : CharAt("0123456789", d + 1) = CharAt(text, i))
    IN v[Len(text)]

(* The end of the longest run of characters of a set. *)
RunEnd(src, i, chars) == CHOOSE j \in i .. Len(src) + 1 : CharAt(src, j) \notin chars /\ \A k \in i .. j - 1 : CharAt(src, k) \in chars
(* The first position at or after i that P holds of, 0 when there is none. *)
First(src, i, P(_)) == LET at == {j \in i .. Len(src) + 1 : P(j)} IN IF at = {} THEN 0 ELSE Min(at)

(* Blanks, line feeds and comments, and what follows them; at is 0 in a comment
   without an end. *)
RECURSIVE Skip(_, _, _)
Skip(src, i, lf) ==
    LET close == First(src, i + 2, LAMBDA j : Starts(src, j, "*/"))
        eol == First(src, i + 2, LAMBDA j : CharAt(src, j) \in {"", "\n"})
    IN CASE CharAt(src, i) = "\n" -> Skip(src, i + 1, TRUE)
         [] CharAt(src, i) \in Blanks -> Skip(src, i + 1, lf)
         [] Starts(src, i, "/*") -> IF close = 0 THEN [at |-> 0, lf |-> lf] ELSE Skip(src, close + 2, lf)
         [] Starts(src, i, "//") -> Skip(src, eol, lf)
         [] OTHER -> [at |-> i, lf |-> lf]

(* The characters of a string up to the separator, those of an escape by its
   value; an unknown escape loses its backslash.  The texts have no escape by
   a number. *)
Escapes == [b |-> "<backspace>", f |-> "\f", n |-> "\n", r |-> "\r", t |-> "\t", v |-> "<vertical tab>"]
Itself == {"'", "\"", "\\"}
RECURSIVE js_parse_string(_, _, _, _)
js_parse_string(src, i, sep, v) ==
    LET c == CharAt(src, i)
        e == CharAt(src, i + 1)
    IN CASE c \in LineEnds -> [t |-> LexicalError, v |-> v, end |-> i]
         [] c = sep -> [t |-> StringToken, v |-> v, end |-> i + 1]
         [] c = "\\" /\ e = "\n" -> js_parse_string(src, i + 2, sep, v)
         [] c = "\\" /\ e \in DOMAIN Escapes -> js_parse_string(src, i + 2, sep, v \o Escapes[e])
         [] c = "\\" /\ e \in Itself -> js_parse_string(src, i + 2, sep, v \o e)
         [] c = "\\" /\ e \notin Itself \cup DOMAIN Escapes \cup {"\n"} -> js_parse_string(src, i + 1, sep, v)
         [] OTHER -> js_parse_string(src, i + 1, sep, v \o c)

(* A regexp ends at a slash that is neither escaped nor in a class. *)
RegexpFlags == CharsOf("dgimsuy")
RECURSIVE RegexpEnd(_, _, _)
RegexpEnd(src, i, in_class) ==
    LET c == CharAt(src, i)
    IN CASE c \in LineEnds -> 0
         [] c = "/" /\ ~in_class -> i
         [] c = "\\" -> IF CharAt(src, i + 1) \in LineEnds THEN 0 ELSE RegexpEnd(src, i + 2, in_class)
         [] OTHER -> RegexpEnd(src, i + 1, (in_class \/ c = "[") /\ c # "]")
js_parse_regexp_token(src, i) ==
    LET slash == RegexpEnd(src, i, FALSE)
        end == RunEnd(src, slash + 1, RegexpFlags)
    IN IF slash = 0 \/ CharAt(src, end) \in IdentNext THEN [t |-> LexicalError, v |-> "", end |-> i]
       ELSE [t |-> RegexpToken, v |-> Text(src, i, slash), end |-> end]
(* Of js_atod's notations, the decimal integers. *)
NumberLiteral(src, i) ==
    LET end == RunEnd(src, i, Digits)
    IN IF CharAt(src, i) = "0" /\ end > i + 1 THEN [t |-> LexicalError, v |-> "", end |-> i]
       ELSE [t |-> NumberToken, v |-> Text(src, i, end), end |-> end]

(* prev, the class of the token before, tells a division from a regexp. *)
TokenAt(src, i, c, prev) ==
    LET fit == {o \in LongOperators : Starts(src, i, o)}
        op == CHOOSE o \in fit : \A p \in fit : Len(p) <= Len(o)
        name_end == RunEnd(src, i, IdentNext)
    IN CASE c = "" -> [t |-> EndOfFile, v |-> "", end |-> i]
         [] c \in {"\"", "'"} -> js_parse_string(src, i + 1, c, "")
         [] c = "/" /\ is_regexp_allowed(prev) -> js_parse_regexp_token(src, i + 1)
         [] c \in IdentFirst -> [t |-> Text(src, i, name_end), v |-> "", end |-> name_end]
         [] c \in Digits -> NumberLiteral(src, i)
         [] fit # {} /\ ~(c = "/" /\ is_regexp_allowed(prev)) -> [t |-> op, v |-> "", end |-> i + Len(op)]
         [] OTHER -> [t |-> c, v |-> "", end |-> i + 1]
Token(tok, start) == [t |-> tok.t, v |-> tok.v, lf |-> start.lf, start |-> start.at, end |-> tok.end]
next_token(src, from, prev) ==
    LET start == Skip(src, from, FALSE)
    IN Token(IF start.at = 0 THEN [t |-> LexicalError, v |-> "", end |-> from]
             ELSE TokenAt(src, start.at, CharAt(src, start.at), prev), start)
(* All the tokens: in C the parser asks for them one by one, and may go back. *)
RECURSIVE TokensFrom(_, _, _)
TokensFrom(src, i, prev) ==
    LET From(tok) == <<tok>> \o IF tok.t \in {EndOfFile, LexicalError} THEN <<>> ELSE TokensFrom(src, tok.end, tok.t)
    IN From(next_token(src, i, prev))
Tokens(src) == TokensFrom(src, 1, " ")
=============================================================================
