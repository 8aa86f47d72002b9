-------------------------------- MODULE Dtoa --------------------------------
(* dtoa.c: floats to text and back, and its callers in mquickjs.c.  The code
   computes on numbers of LIMB_BITS bit limbs, the lowest first, and so does
   this module.  Its tables are what build_tables computes, for the parameters
   here: ATOD_BITS and ATOD_BITS2 are the bits of the digits that js_atod
   keeps, in a radix that is not a power of two and in one that is; C_INT_SIZE
   is the width of int.                                                    *)
EXTENDS Numbers, Sequences, SequencesExt
CONSTANTS LIMB_BITS, ATOD_BITS, ATOD_BITS2, C_INT_SIZE, FIXED_LIMIT, Undefined

B == 2^LIMB_BITS
MANT_BITS == MANT_SIZE + 1
E_MIN == 2 - Bias
Least(a, b) == IF a < b THEN a ELSE b
Most(a, b) == IF a > b THEN a ELSE b

-----------------------------------------------------------------------------
(* Limbs.  A carry goes up from limb to limb, a remainder goes down. *)
Up(t, start, Op(_, _)) ==
    FoldLeft(LAMBDA acc, x : [tab |-> Append(acc.tab, Op(x, acc.carry) % B), carry |-> Op(x, acc.carry) \div B],
             [tab |-> <<>>, carry |-> start], t)
Down(t, start, Op(_, _)) ==
    FoldRight(LAMBDA x, acc : [tab |-> <<Op(x, acc.rem).q>> \o acc.tab, rem |-> Op(x, acc.rem).r], t, [tab |-> <<>>, rem |-> start])

mp_add_ui(t, b) == Up(t, b, LAMBDA x, k : x + k)
mp_mul1(t, b, l) == Up(t, l, LAMBDA x, k : (x * b) + k)
mp_shl(t, shift, low) == Up(t, low, LAMBDA x, k : (x * 2^shift) + k)
mp_div1(t, b, r) == Down(t, r, LAMBDA x, k : [q |-> ((k * B) + x) \div b, r |-> ((k * B) + x) % b])
mp_shr(t, shift, high) == Down(t, high, LAMBDA x, l : [q |-> (x \div 2^shift) + ((l * 2^(LIMB_BITS - shift)) % B), r |-> x])

(* Division by a limb whose top bit is set, by its inverse; n1m and ah are all
   ones or zero. *)
udiv1norm_init(d) == (((B - 1 - d) * B) + B - 1) \div d
Corrected(q, a, d) == [q |-> (q + 1 + (a \div B)) % B, r |-> ((a % B) + IF a \div B # 0 THEN d ELSE 0) % B]
Guessed(q, a1, a0, d) == Corrected(q, ((a1 * B) + a0 - (q * d) - d) % (B * B), d)
udiv1norm(a1, a0, d, d_inv) ==
    LET n1m == IF a0 >= B \div 2 THEN B - 1 ELSE 0
    IN Guessed(((((d_inv * ((a1 - n1m) % B)) + ((a0 + IF n1m # 0 THEN d ELSE 0) % B)) \div B) + a1) % B, a1, a0, d)
NormDown(up, b, rem, b_inv) == Down(up.tab, rem + up.carry, LAMBDA x, k : udiv1norm(k, x, b, b_inv))
ShiftedBack(r, shift) == [r EXCEPT !.rem = @ \div 2^shift]
mp_div1norm(t, b, r, b_inv, shift) == ShiftedBack(NormDown(mp_shl(t, shift, 0), b, r * 2^shift, b_inv), shift)

mpb_renorm(t) == SubSeq(t, 1, Max({1} \cup {i \in DOMAIN t : t[i] # 0}))
Grown(r) == Append(r.tab, r.carry)
Extended(r) == IF r.carry # 0 THEN Grown(r) ELSE r.tab
pow_ui(a, b) == a^b
Normalized(r, shift) == [b |-> r * 2^shift, shift |-> shift, inv |-> udiv1norm_init(r * 2^shift)]
pow_ui_inv(a, b) == Normalized(pow_ui(a, b), Clz(pow_ui(a, b), LIMB_BITS))
mpb_get_bit(t, k) == IF k \div LIMB_BITS >= Len(t) THEN 0 ELSE (t[(k \div LIMB_BITS) + 1] \div 2^(k % LIMB_BITS)) % 2

RoundsUp(t, shift, rnd_mode) ==
    /\ rnd_mode # "RNDZ" /\ mpb_get_bit(t, shift - 1) = 1
    /\ rnd_mode = "RNDNA" \/ mpb_get_bit(t, shift) = 1 \/ \E k \in 0 .. shift - 2 : mpb_get_bit(t, k) = 1
ShiftedUp(t, l, k) == [i \in 1 .. l |-> 0] \o IF k = 0 THEN t ELSE mpb_renorm(Grown(mp_shl(t, k, 0)))
ShiftedDown(t, l, k, add_one) ==
    IF l >= Len(t) THEN <<Sticky(add_one)>>
    ELSE Extended(mp_add_ui(mpb_renorm(mp_shr(SubSeq(t, l + 1, Len(t)), k, 0).tab), Sticky(add_one)))
mpb_shr_round(t, shift, rnd_mode) ==
    CASE shift = 0 -> t
      [] shift < 0 -> ShiftedUp(t, (-shift) \div LIMB_BITS, (-shift) % LIMB_BITS)
      [] shift > 0 -> ShiftedDown(t, shift \div LIMB_BITS, shift % LIMB_BITS, RoundsUp(t, shift, rnd_mode))
mpb_cmp(a, b) ==
    LET differ == {i \in DOMAIN a : a[i] # b[i]}
    IN IF Len(a) # Len(b) THEN IF Len(a) < Len(b) THEN -1 ELSE 1
       ELSE IF differ = {} THEN 0 ELSE IF a[Max(differ)] < b[Max(differ)] THEN -1 ELSE 1
mpb_set_u64(m) == mpb_renorm(<<m % B, m \div B>>)
mpb_get_u64(t) == t[1] + IF Len(t) = 1 THEN 0 ELSE t[2] * B
mpb_floor_log2(t) == IF t[Len(t)] = 0 THEN -1 ELSE (Len(t) * LIMB_BITS) - 1 - Clz(t[Len(t)], LIMB_BITS)
(* r * radix_base + a; the base of a full limb is 0. *)
mpb_mul1_base(t, base, a) ==
    IF t = <<0>> THEN <<a>> ELSE IF base = 0 THEN <<a>> \o t ELSE mpb_renorm(Grown(mp_mul1(t, base, a)))

-----------------------------------------------------------------------------
(* floor(a / log2(radix)), and its ceiling. *)
mul_log2_radix_table ==
    <<0, 10585245, 0, 7225554, 6490313, 5976165, 0, 5292622, 5050445, 4849703, 4679886, 4533844, 4406528, 4294263, 0, 4104555,
      4023386, 3949506, 3881882, 3819673, 3762187, 3708851, 3659183, 3612777, 3569286, 3528415, 3489906, 3453537, 3419114, 3386466, 0,
      3325913, 3297757, 3270870, 3245157>>
(* A radix as the code takes it apart: radix = radix1 * 2^shift; bits is the
   number of bits of a digit when it is a power of two, or 0. *)
RadixOf(r) ==
    LET Parts(shift) == [radix |-> r, shift |-> shift, radix1 |-> r \div 2^shift, bits |-> IF r = 2^shift THEN shift ELSE 0,
                         per_limb1 |-> IF r = 2^shift THEN LIMB_BITS ELSE (LIMB_BITS * mul_log2_radix_table[(r \div 2^shift) - 1]) \div 2^24]
    IN Parts(CHOOSE k \in 0 .. 5 : r % 2^k = 0 /\ r % 2^(k + 1) # 0)
mul_log2_radix(a, rx) == IF rx.bits # 0 THEN a \div rx.bits ELSE (a * mul_log2_radix_table[rx.radix - 1]) \div 2^24
Ceiling(a, rx) == -mul_log2_radix(-a, rx)

(* The digits that a limb holds, that tell a mantissa from every other, and
   that are worth reading; the exponents that are too large or too small. *)
digits_per_limb(rx) == mul_log2_radix(LIMB_BITS, rx)
radix_base(rx) == rx.radix^digits_per_limb(rx) % B
dtoa_max_digits(rx) == 1 + Ceiling(MANT_BITS, rx)
atod_max_digits(rx) == mul_log2_radix(IF rx.bits # 0 THEN ATOD_BITS2 ELSE ATOD_BITS, rx)
max_exponent(rx) == Ceiling(Bias + 1, rx)
min_exponent(rx) == mul_log2_radix(E_MIN - MANT_BITS - 1, rx)

-----------------------------------------------------------------------------
(* t * radix^f is the result's tab * 2^-e_offset, with a bit for what is lost. *)
RECURSIVE Multiplied(_, _, _, _), Divided(_, _, _, _, _)
MultipliedBy(t, r1, d, f, n) == Multiplied(Extended(mp_mul1(t, pow_ui(r1, n), 0)), r1, d, f - n)
Multiplied(t, r1, d, f) == IF f = 0 THEN t ELSE MultipliedBy(t, r1, d, f, Least(f, d))
Quotient(t, b) == mp_div1norm(t, b.b, 0, b.inv, b.shift)
DividedRest(r, r1, d, f, rem) == Divided(mpb_renorm(r.tab), r1, d, f, rem \/ r.rem # 0)
DividedBy(t, r1, d, f, rem, n) == DividedRest(Quotient(t, pow_ui_inv(r1, n)), r1, d, f - n, rem)
Divided(t, r1, d, f, rem) == IF f = 0 THEN [t EXCEPT ![1] = OrLow(@, rem)] ELSE DividedBy(t, r1, d, f, rem, Least(f, d))
(* Room is made for the limbs that the division takes, and for the bits asked for. *)
InRoom(t, rx, f, offset, room) ==
    [tab |-> Divided(mpb_shr_round(t, -room, "RNDZ"), rx.radix1, rx.per_limb1, -f, FALSE), e_offset |-> offset + room]
Room(t, room, offset, is_int, e) == room + Most(IF is_int THEN 2 + e - offset - room ELSE e - mpb_floor_log2(t), 0)
mul_pow(t, rx, f, is_int, e) ==
    LET offset == -(f * rx.shift)
    IN IF rx.radix1 = 1 THEN [tab |-> t, e_offset |-> offset]
       ELSE IF f >= 0 THEN [tab |-> Multiplied(t, rx.radix1, rx.per_limb1, f), e_offset |-> offset]
       ELSE InRoom(t, rx, f, offset, Room(t, ((rx.per_limb1 - 1 - f) \div rx.per_limb1) * LIMB_BITS, offset, is_int, e))
RoundedAt(r, e, rnd_mode) == mpb_shr_round(r.tab, r.e_offset - e, rnd_mode)
mul_pow_round(m, e, rx, f, rnd_mode) == RoundedAt(mul_pow(mpb_set_u64(m), rx, f, TRUE, e), e, rnd_mode)

(* A mantissa of MANT_BITS bits, or of fewer below E_MIN, moved up again. *)
Carried(m, e) == IF m >= 2^MANT_BITS THEN [m |-> m \div 2, e |-> e + 1] ELSE [m |-> m, e |-> e]
RoundedTo(t, e_offset, rnd_mode, e, prec) ==
    Carried(mpb_get_u64(mpb_shr_round(t, e + e_offset - prec, rnd_mode)) * 2^(MANT_BITS - prec), e)
WithPrecision(t, e_offset, rnd_mode, e) == RoundedTo(t, e_offset, rnd_mode, e, IF e < E_MIN THEN MANT_BITS - (E_MIN - e) ELSE MANT_BITS)
round_to_d(t, e_offset, rnd_mode) ==
    IF t = <<0>> THEN [m |-> 0, e |-> 0] ELSE WithPrecision(t, e_offset, rnd_mode, mpb_floor_log2(t) + 1 - e_offset)
ProductToD(r, rnd_mode) == round_to_d(r.tab, r.e_offset, rnd_mode)
mul_pow_round_to_d(t, rx, f, rnd_mode) == ProductToD(mul_pow(t, rx, f, FALSE, MANT_BITS + 2), rnd_mode)

-----------------------------------------------------------------------------
(* Digits. *)
CharAt(s, i) == IF i \in 1 .. Len(s) THEN SubSeq(s, i, i) ELSE ""
From(s, i) == SubSeq(s, i, Len(s))
Lower == "0123456789abcdefghijklmnopqrstuvwxyz"
Upper == "0123456789ABCDEFGHIJKLMNOPQRSTUVWXYZ"
IsDigit(c) == c \in {"0", "1", "2", "3", "4", "5", "6", "7", "8", "9"}
to_digit(c) == Min({36} \cup {d \in IF IsDigit(c) THEN 0 .. 9 ELSE 10 .. 35 : c \in {CharAt(Lower, d + 1), CharAt(Upper, d + 1)}})
limb_to_a(n, radix, len) ==
    LET first[i \in 0 .. len] == IF i = 0 THEN "" ELSE first[i - 1] \o CharAt(Lower, 1 + ((n \div radix^(len - i)) % radix)) IN first[len]
Numeral(n, radix) ==
    LET all[k \in 0 .. n] == IF k < radix THEN CharAt(Lower, k + 1) ELSE all[k \div radix] \o CharAt(Lower, 1 + (k % radix)) IN all[n]
u32toa(n) == Numeral(n, 10)
i32toa(n) == IF n >= 0 THEN u32toa(n) ELSE "-" \o u32toa(-n)
(* Wider than a limb: in groups of the digits that a limb holds. *)
InGroups(n, d, n1) ==
    (IF n1 >= B THEN u32toa(n1 \div 10^d) \o limb_to_a(n1 % 10^d, 10, d) ELSE u32toa(n1)) \o limb_to_a(n % 10^d, 10, d)
DigitsPerLimb10 == digits_per_limb(RadixOf(10))
u64toa(n) == IF n < B THEN u32toa(n) ELSE InGroups(n, DigitsPerLimb10, n \div 10^DigitsPerLimb10)
u64toa_radix(n, rx) ==
    IF rx.radix = 10 THEN u64toa(n)
    ELSE IF rx.bits # 0 THEN limb_to_a(n, rx.radix, (F_SIZE - Clz(n, F_SIZE) + rx.bits - 1) \div rx.bits)
    ELSE Numeral(n, rx.radix)

RECURSIVE DigitsBelow(_, _, _)
Group(tab, low, rx, n_digits, n) == DigitsBelow(tab, rx, n_digits - n) \o limb_to_a(low, rx.radix, n)
Groups(r, rx, n_digits, n) == Group(mpb_renorm(r.tab), r.rem, rx, n_digits, n)
LowGroup(t, rx) ==
    IF rx.bits # 0 THEN [tab |-> mpb_shr_round(t, digits_per_limb(rx) * rx.bits, "RNDZ"), rem |-> t[1]] ELSE mp_div1(t, radix_base(rx), 0)
DigitsBelow(t, rx, n_digits) == IF n_digits = 0 THEN "" ELSE Groups(LowGroup(t, rx), rx, n_digits, Least(n_digits, digits_per_limb(rx)))
Dotted(text, dot_pos) == IF dot_pos = Len(text) THEN text ELSE SubSeq(text, 1, dot_pos) \o "." \o From(text, dot_pos + 1)
output_digits(t, rx, n_digits, dot_pos) == Dotted(DigitsBelow(t, rx, n_digits), dot_pos)
AbsInt(n) == IF n < 0 THEN -n ELSE n
Zeros(n) == LET z[i \in 0 .. Most(n, 0)] == IF i = 0 THEN "" ELSE z[i - 1] \o "0" IN z[Most(n, 0)]

-----------------------------------------------------------------------------
(* A float to text: "free" is as many digits as are needed, "fixed" n_digits of
   them, "frac" n_digits behind the dot; exp says when there is an exponent. *)
Unpack(d) ==
    LET l == MANT_SIZE + 1 - (F_SIZE - Clz(MantOf(d), F_SIZE))
    IN IF ExpOf(d) = 0 THEN [m |-> MantOf(d) * 2^l, e |-> 1 - l - (Bias - 1)]
       ELSE [m |-> MantOf(d) + 2^MANT_SIZE, e |-> ExpOf(d) - (Bias - 1)]
FirstE(u, rx) == 1 + mul_log2_radix(u.e - 1, rx)

RECURSIVE Mantissa(_, _, _, _), Stripped(_, _, _), Shortest(_, _, _, _), Fixed(_, _, _, _)
OrOneMore(mant, u, rx, P, E) == IF mant < pow_ui(rx.radix, P) THEN [mant |-> mant, E |-> E] ELSE Mantissa(u, rx, P, E + 1)
Mantissa(u, rx, P, E) == OrOneMore(mpb_get_u64(mul_pow_round(u.m, u.e - MANT_BITS, rx, P - E, "RNDN")), u, rx, P, E)
Stripped(mant, radix, P) == IF mant % radix = 0 THEN Stripped(mant \div radix, radix, P - 1) ELSE [mant |-> mant, P |-> P]
ReadsAgain(u, rx, s, E) == mul_pow_round_to_d(mpb_set_u64(s.mant), rx, E - s.P, "RNDN") = u
OrLonger(u, rx, found, s, E) ==
    LET this == [tab |-> mpb_set_u64(s.mant), P |-> s.P, E |-> E]
    IN IF found # <<>> /\ ~ReadsAgain(u, rx, s, E) THEN found ELSE IF s.P = 1 THEN this ELSE Shortest(u, rx, s.P - 1, this)
OfMantissa(u, rx, P, found, r) == OrLonger(u, rx, found, Stripped(r.mant, rx.radix, P), r.E)
Shortest(u, rx, P, found) == OfMantissa(u, rx, P, found, Mantissa(u, rx, P, FirstE(u, rx)))
PowerOf(r) == mpb_shr_round(r.tab, r.e_offset, "RNDZ")
FixedOrOneMore(t, u, rx, P, E) ==
    IF mpb_cmp(t, PowerOf(mul_pow(<<1>>, rx, P, FALSE, 0))) < 0 THEN [tab |-> t, P |-> P, E |-> E] ELSE Fixed(u, rx, P, E + 1)
Fixed(u, rx, P, E) == FixedOrOneMore(mul_pow_round(u.m, u.e - MANT_BITS, rx, P - E, "RNDNA"), u, rx, P, E)

(* One digit more than may be needed is written before the dot. *)
WithoutZero(text) == IF CharAt(text, 1) = "0" /\ Len(text) >= 2 /\ CharAt(text, 2) # "." THEN From(text, 2) ELSE text
FractionOf(u, rx, n_digits, whole) ==
    WithoutZero(output_digits(mul_pow_round(u.m, u.e - MANT_BITS, rx, n_digits, "RNDNA"), rx, whole + n_digits, whole))
Fraction(u, rx, n_digits) == FractionOf(u, rx, n_digits, Most(FirstE(u, rx) + 1, 1))

Exponent(E, rx) ==
    (IF rx.radix = 10 THEN "e" ELSE IF rx.bits \in 1 .. 4 THEN "p" ELSE "@") \o (IF E < 0 THEN "-" ELSE "+")
    \o u32toa(AbsInt(E) * IF rx.bits \in 1 .. 4 THEN rx.bits ELSE 1)
Around(before, dot_pos, after) == [before |-> before, dot_pos |-> dot_pos, after |-> after]
Layout(r, rx, exponential) ==
    IF exponential THEN Around("", 1, Exponent(r.E - 1, rx))
    ELSE IF r.E <= 0 THEN Around("0." \o Zeros(-r.E), r.P, "") ELSE Around("", Least(r.P, r.E), Zeros(r.E - r.P))
LaidOut(r, rx, l) == l.before \o output_digits(r.tab, rx, r.P, l.dot_pos) \o l.after
Output(r, rx, n_digits, fmt, exp) ==
    LET E_max == IF fmt = "fixed" THEN n_digits ELSE dtoa_max_digits(rx) + 4
    IN LaidOut(r, rx, Layout(r, rx, exp = "enabled" \/ (exp = "auto" /\ (r.E <= -6 \/ r.E > E_max))))

DigitsOfZero(n_digits, fmt) ==
    [tab |-> <<0>>, E |-> 1, P |-> CASE fmt = "free" -> 1 [] fmt = "frac" -> n_digits + 1 [] fmt = "fixed" -> n_digits]
IsSmallInt(u) == u.e \in 1 .. MANT_BITS /\ u.m % 2^(MANT_BITS - u.e) = 0
DigitsOf(u, rx, n_digits, fmt) ==
    IF fmt = "fixed" THEN Fixed(u, rx, n_digits, FirstE(u, rx)) ELSE Shortest(u, rx, dtoa_max_digits(rx), <<>>)
FormatFinite(d, u, rx, n_digits, fmt, exp) ==
    CASE ~IsZero(d) /\ fmt = "free" /\ IsSmallInt(u) /\ exp # "enabled" -> u64toa_radix(u.m \div 2^(MANT_BITS - u.e), rx)
      [] ~IsZero(d) /\ fmt = "frac" -> Fraction(u, rx, n_digits)
      [] OTHER -> Output(IF IsZero(d) THEN DigitsOfZero(n_digits, fmt) ELSE DigitsOf(u, rx, n_digits, fmt), rx, n_digits, fmt, exp)
js_dtoa(d, radix, n_digits, fmt, exp, signed_zero) ==
    LET Sign(shown) == IF SignOf(d) = 1 /\ shown THEN "-" ELSE ""
    IN IF IsInf(d) THEN Sign(TRUE) \o "Infinity" ELSE IF isnan_sf(d) THEN "NaN"
       ELSE Sign(IsZero(d) => signed_zero) \o FormatFinite(d, Unpack(d), RadixOf(radix), n_digits, fmt, exp)

js_dtoa_max_len(d, rx, n_digits, fmt, exp) ==
    LET e == ExpOf(d) - Bias
        digits == IF fmt = "free" THEN dtoa_max_digits(rx) ELSE n_digits
    IN Most(9, CASE fmt # "frac" /\ exp # "disabled" -> digits + 8
                 [] ExpOf(d) = EXP_MASK /\ (fmt = "frac" \/ exp = "disabled") -> 0
                 [] ExpOf(d) # EXP_MASK /\ fmt # "frac" /\ exp = "disabled" -> digits + 10 + AbsInt(mul_log2_radix(e - 1, rx))
                 [] ExpOf(d) # EXP_MASK /\ fmt = "frac" -> (IF e < 0 THEN 1 ELSE 2 + mul_log2_radix(e - 1, rx)) + 3 + n_digits)

-----------------------------------------------------------------------------
(* A text to a float: the number, and where the text goes on.  flags are among
   "int_only", "bin_oct" and "underscores"; legacy octals are asked for by no
   caller.  int is C_INT_SIZE bits wide, and the build lets it wrap.       *)
AsInt(n) == ((n + 2^(C_INT_SIZE - 1)) % 2^C_INT_SIZE) - 2^(C_INT_SIZE - 1)
NaNAt(p) == [d |-> F_QNAN, next |-> p]

PrefixRadix(s, p, radix, flags) ==
    LET c == CharAt(s, p + 1)
    IN CASE CharAt(s, p) = "0" /\ c \in {"x", "X"} /\ radix \in {0, 16} -> 16
         [] CharAt(s, p) = "0" /\ c \in {"o", "O"} /\ radix = 0 /\ "bin_oct" \in flags -> 8
         [] CharAt(s, p) = "0" /\ c \in {"b", "B"} /\ radix = 0 /\ "bin_oct" \in flags -> 2
         [] OTHER -> 0

(* Digits below limit, an underscore before any of them, and one dot: p is
   where the text goes on, start where it began, digits what was read, pos how many digits and dot
   the number of digits before the dot, or -1. *)
ScanDigit(limit, st, p, dot, c) ==
    IF c >= limit THEN [st EXCEPT !.p = p, !.dot = dot, !.more = FALSE]
    ELSE [st EXCEPT !.p = p + 1, !.pos = @ + 1, !.dot = dot, !.digits = Append(@, c)]
ScanFrom(s, limit, st, p, dot) == ScanDigit(limit, st, p, dot, to_digit(CharAt(s, p)))
SkipUnderscore(s, limit, flags, start, p) ==
    IF "underscores" \in flags /\ CharAt(s, p) = "_" /\ p > start /\ to_digit(CharAt(s, p + 1)) < limit THEN p + 1 ELSE p
ScanDot(s, limit, flags, st, dotted) ==
    IF dotted /\ st.dot >= 0 THEN [st EXCEPT !.more = FALSE]
    ELSE ScanFrom(s, limit, st, SkipUnderscore(s, limit, flags, st.start, st.p + IF dotted THEN 1 ELSE 0), IF dotted THEN st.pos ELSE st.dot)
ScanStep(s, radix, limit, flags, st) ==
    ScanDot(s, limit, flags, st,
            CharAt(s, st.p) = "." /\ (st.p > st.start \/ to_digit(CharAt(s, st.p + 1)) < radix) /\ "int_only" \notin flags)
Scan(s, radix, limit, flags, first) ==
    FoldLeft(LAMBDA st, i : IF st.more /\ st.p = i THEN ScanStep(s, radix, limit, flags, st) ELSE st, first, [i \in 1 .. Len(s) |-> i])

ValueOf(digits, radix) == FoldLeft(LAMBDA v, c : (v * radix) + c, 0, digits)
RECURSIVE Limbs(_, _, _)
LimbOf(t, digits, rx, n) ==
    Limbs(mpb_mul1_base(t, IF n = digits_per_limb(rx) THEN radix_base(rx) ELSE pow_ui(rx.radix, n), ValueOf(SubSeq(digits, 1, n), rx.radix)),
          From(digits, n + 1), rx)
Limbs(t, digits, rx) == IF digits = <<>> THEN t ELSE LimbOf(t, digits, rx, Least(Len(digits), digits_per_limb(rx)))
(* What is dropped sets a bit when the radix is a power of two. *)
Marked(t, lost) == [t EXCEPT ![1] = OrLow(@, lost)]
Significand(digits, kept, rx) ==
    Marked(Limbs(<<0>>, SubSeq(digits, 1, kept), rx), rx.bits # 0 /\ \E i \in kept + 1 .. Len(digits) : digits[i] # 0)

(* The exponent that may follow at p, with "overflow" for one beyond int. *)
HasExponent(s, start, p, rx, flags) ==
    /\ "int_only" \notin flags /\ p > start
    /\ \/ rx.radix = 10 /\ CharAt(s, p) \in {"e", "E"}
       \/ rx.radix # 10 /\ CharAt(s, p) = "@"
       \/ rx.bits \in 1 .. 4 /\ CharAt(s, p) \in {"p", "P"}
EXPN_MAX == (2^(C_INT_SIZE - 1) - 1 - 2 - 9) \div 10
RECURSIVE ExponentDigits(_, _, _, _, _)
ExponentDigit(s, p, flags, expn, overflow, c) ==
    IF c >= 10 THEN [p |-> p, expn |-> expn, overflow |-> overflow]
    ELSE LET full == overflow \/ expn > EXPN_MAX IN ExponentDigits(s, p + 1, flags, IF full THEN expn ELSE (expn * 10) + c, full)
ExponentFrom(s, p, flags, expn, overflow) == ExponentDigit(s, p, flags, expn, overflow, to_digit(CharAt(s, p)))
ExponentDigits(s, p, flags, expn, overflow) ==
    ExponentFrom(s, IF "underscores" \in flags /\ CharAt(s, p) = "_" /\ to_digit(CharAt(s, p + 1)) < 10 THEN p + 1 ELSE p, flags, expn, overflow)
Completed(r, neg, binary) == [r EXCEPT !.expn = IF neg THEN -@ ELSE @] @@ [neg |-> neg, ok |-> TRUE, binary |-> binary]
ReadExponentAt(s, p, p1, flags, c) ==
    IF c >= 10 THEN [ok |-> FALSE, p |-> p1]
    ELSE Completed(ExponentDigits(s, p1 + 1, flags, c, FALSE), CharAt(s, p + 1) = "-", CharAt(s, p) \in {"p", "P"})
ExponentAt(s, p, p1, flags) == ReadExponentAt(s, p, p1, flags, to_digit(CharAt(s, p1)))
ReadExponent(s, p, flags) == ExponentAt(s, p, IF CharAt(s, p + 1) \in {"+", "-"} THEN p + 2 ELSE p + 1, flags)
NoExponent(p) == [ok |-> TRUE, p |-> p, expn |-> 0, overflow |-> FALSE, neg |-> FALSE, binary |-> FALSE]

(* The bits of m * 2^(e - MANT_BITS). *)
Packed(r) ==
    IF r.m = 0 \/ r.e < E_MIN - MANT_SIZE THEN 0
    ELSE IF r.e > Bias + 1 THEN Infinity(0)
    ELSE IF r.e < E_MIN THEN r.m \div 2^(E_MIN - r.e)
    ELSE pack_sf(0, r.e + Bias - 1, MantOf(r.m))
(* kept of the digits, times radix^expn. *)
InRange(digits, kept, rx, expn, top) ==
    LET most == IF rx.bits # 0 THEN Bias + 1 + rx.bits ELSE max_exponent(rx) + 1
        least == IF rx.bits # 0 THEN E_MIN - MANT_BITS - 1 ELSE min_exponent(rx)
    IN IF top >= most THEN Infinity(0) ELSE IF top <= least THEN 0
       ELSE Packed(ProductToD(IF rx.bits # 0 THEN [tab |-> Significand(digits, kept, rx), e_offset |-> -expn]
                              ELSE mul_pow(Significand(digits, kept, rx), rx, expn, FALSE, MANT_BITS + 2), "RNDN"))
TimesPower(digits, kept, rx, expn) == InRange(digits, kept, rx, expn, AsInt(expn + (kept * Most(rx.bits, 1))))
Magnitude(digits, kept, offset, x, rx) ==
    IF x.overflow THEN IF x.neg THEN 0 ELSE Infinity(0)
    ELSE TimesPower(digits, kept, rx,
                 IF rx.bits # 0 THEN AsInt(AsInt(IF x.binary THEN x.expn ELSE x.expn * rx.bits) - (offset * rx.bits)) ELSE AsInt(x.expn - offset))

NumberAt(st, start, leading, kept, x, rx, sign) ==
    IF ~x.ok \/ x.p = start THEN NaNAt(x.p)
    ELSE [d |-> sign + IF st.digits = <<>> THEN 0
                       ELSE Magnitude(st.digits, kept, leading + kept - (IF st.dot < 0 THEN st.pos ELSE st.dot), x, rx),
          next |-> x.p]
AtodExponent(s, start, st, leading, rx, flags, sign) ==
    NumberAt(st, start, leading, Least(Len(st.digits), atod_max_digits(rx)),
             IF HasExponent(s, start, st.p, rx, flags) THEN ReadExponent(s, st.p, flags) ELSE NoExponent(st.p), rx, sign)
AtodDigits(s, start, z, rx, flags, sign) ==
    AtodExponent(s, start, Scan(s, rx.radix, rx.radix, flags, [z EXCEPT !.digits = <<>>, !.more = TRUE]), z.pos, rx, flags, sign)
AtodNumber(s, start, p, rx, flags, sign) ==
    AtodDigits(s, start, Scan(s, rx.radix, 1, flags, [start |-> start, p |-> p, pos |-> 0, dot |-> -1, digits |-> <<>>, more |-> TRUE]),
               rx, flags, sign)
AtodFrom(s, start, radix0, prefix, flags, sign) ==
    LET body == IF prefix # 0 THEN start + 2 ELSE start
    IN IF prefix # 0 /\ to_digit(CharAt(s, body)) >= prefix THEN NaNAt(body)
       ELSE IF "int_only" \notin flags /\ SubSeq(s, start, Least(start + 7, Len(s))) = "Infinity" THEN [d |-> sign + Infinity(0), next |-> start + 8]
       ELSE AtodNumber(s, start, body, RadixOf(IF prefix # 0 THEN prefix ELSE IF radix0 = 0 THEN 10 ELSE radix0), flags, sign)
AtodUnsigned(s, start, radix0, flags, sign) == AtodFrom(s, start, radix0, PrefixRadix(s, start, radix0, flags), flags, sign)
js_atod(s, p, radix0, flags) ==
    AtodUnsigned(s, IF CharAt(s, p) \in {"+", "-"} THEN p + 1 ELSE p, radix0, flags, IF CharAt(s, p) = "-" THEN SIGN_MASK ELSE 0)

-----------------------------------------------------------------------------
(* The callers.  A string of one character is not read: it is a digit or NaN,
   in any radix.  "tostring" asks for the whole text. *)
Spaces == {" ", "\t", "\n", "\r", "\f"}
skip_spaces(s, p) == Min({i \in p .. Most(p, Len(s) + 1) : CharAt(s, i) \notin Spaces})
js_atod1(s, radix, flags) ==
    LET whole == "tostring" \in flags
        Ended(r) == IF whole /\ skip_spaces(s, r.next) <= Len(s) THEN F_QNAN ELSE r.d
        Read(p) == IF p <= Len(s) THEN Ended(js_atod(s, p, radix, flags)) ELSE IF whole THEN 0 ELSE F_QNAN
    IN IF Len(s) # 1 THEN Read(skip_spaces(s, 1)) ELSE IF to_digit(s) < 10 THEN FromInt(to_digit(s)) ELSE F_QNAN
StringToNumber(s) == js_atod1(s, 0, {"bin_oct", "tostring"})
NumberLiteral(s) == js_atod(s, 1, 0, {"bin_oct", "underscores"})
js_number_parseInt(s, radix) == IF radix # 0 /\ radix \notin 2 .. 36 THEN F_QNAN ELSE js_atod1(s, radix, {"int_only"})
js_number_parseFloat(s) == js_atod1(s, 10, {})

js_dtoa2(d, radix, n_digits, fmt, exp) == js_dtoa(d, radix, n_digits, fmt, exp, FALSE)
JS_ToString(v) == IF v.tag = "int" THEN i32toa(v.i) ELSE js_dtoa2(JS_ToNumber(v), 10, 0, "free", "auto")
RangeError == "RangeError"
IsFinite(d) == ExpOf(d) # EXP_MASK
js_number_toString(d, radix0) ==
    LET radix == IF radix0 = Undefined THEN 10 ELSE radix0
    IN IF radix \notin 2 .. 36 THEN RangeError ELSE js_dtoa2(d, radix, 0, "free", IF radix = 10 THEN "auto" ELSE "disabled")
js_number_toFixed(d, f) ==
    IF f \notin 0 .. 100 THEN RangeError
    ELSE js_dtoa2(d, 10, f, IF le_sf(FIXED_LIMIT, Abs(d)) THEN "free" ELSE "frac", "auto")
(* To n digits; without a number of them, as many as are needed. *)
ToDigits(d, n, least, digits, exp) ==
    LET free == n = Undefined \/ ~IsFinite(d)
    IN IF ~free /\ n \notin least .. 100 THEN RangeError
       ELSE js_dtoa2(d, 10, IF free THEN 0 ELSE digits, IF free THEN "free" ELSE "fixed", exp)
js_number_toExponential(d, f) == ToDigits(d, f, 0, f + 1, "enabled")
js_number_toPrecision(d, p) == ToDigits(d, p, 1, p, "auto")

(* The strings that name an element: of a typed array, and of an array. *)
IsWritten(s, r) == r.next = Len(s) + 1 /\ js_dtoa2(r.d, 10, 0, "free", "auto") = s
js_is_numeric_string(s) ==
    /\ IsDigit(CharAt(s, IF CharAt(s, 1) = "-" THEN 2 ELSE 1))
    /\ IsWritten(s, js_atod(s, 1, 10, {}))
NotNum == [ok |-> FALSE, n |-> 0]
is_num_string(s) ==
    LET neg == CharAt(s, 1) = "-"
        first == IF neg THEN 2 ELSE 1
        most == JS_SHORTINT_MAX + IF neg THEN 1 ELSE 0
        n[i \in first .. Len(s)] ==
            LET c == to_digit(CharAt(s, i))
            IN IF c >= 10 THEN -1 ELSE IF i = first THEN c
               ELSE IF n[i - 1] < 0 \/ (n[i - 1] * 10) + c > most THEN -1 ELSE (n[i - 1] * 10) + c
    IN IF \/ Len(s) < first \/ Len(s) > 1 + Len(u32toa(2^(INT_SIZE - 1)))
          \/ CharAt(s, first) = "0" /\ (Len(s) > first \/ neg)
       THEN NotNum ELSE IF n[Len(s)] < 0 THEN NotNum ELSE [ok |-> TRUE, n |-> IF neg THEN -n[Len(s)] ELSE n[Len(s)]]

-----------------------------------------------------------------------------
(* Division by the inverse is division, and the text of an integer of any width
   is its digits.                                                          *)
DivisionLaw(d) ==
    \A d_inv \in {udiv1norm_init(d)} : \A a1 \in 0 .. d - 1, a0 \in {0, 1, (B \div 2) - 1, B \div 2, B - 2, B - 1} :
        udiv1norm(a1, a0, d, d_inv) = [q |-> ((a1 * B) + a0) \div d, r |-> ((a1 * B) + a0) % d]
IntegerTextLaw(n) ==
    /\ u64toa(n) = Numeral(n, 10)
    /\ n \in 1 .. 2^F_SIZE - 1 => \A radix \in {2, 7, 16, 32} : u64toa_radix(n, RadixOf(radix)) = Numeral(n, radix)

(* What is written reads back: the same bits in every radix and notation,
   within the length that was set aside, and the same text however the value
   is held.                                                                *)
Notations(d) ==
    [radix : {2, 3, 10, 16, 36}, n : {0}, fmt : {"free"}, exp : {"disabled"}] \cup [radix : {10}, n : {0}, fmt : {"free"}, exp : {"auto", "enabled"}]
    \cup [radix : {10}, n : {0, 1, 4}, fmt : {"frac"}, exp : {"auto"}] \cup [radix : {10}, n : {1, 2, 5}, fmt : {"fixed"}, exp : {"auto", "enabled"}]
TextLaw(d) ==
    /\ \A x \in Notations(d) : \A s \in {js_dtoa(d, x.radix, x.n, x.fmt, x.exp, TRUE)} :
          /\ Len(s) <= js_dtoa_max_len(d, RadixOf(x.radix), x.n, x.fmt, x.exp)
          /\ x.fmt = "free" /\ ~isnan_sf(d) => js_atod(s, 1, x.radix, {}) = [d |-> d, next |-> Len(s) + 1]
    /\ \A s \in {JS_ToString(JS_NewFloat64(d))} :
          /\ s = js_number_toString(d, Undefined)
          /\ js_is_numeric_string(s) <=> IsFinite(d)
          /\ StringToNumber(s) = IF isnan_sf(d) THEN F_QNAN ELSE IF IsZero(d) THEN 0 ELSE d

(* A text of digits, perhaps with a dot and an exponent, as it is meant: the
   digits and the power of the radix that their value is to be taken by.    *)
Position(s, c) == Min({i \in 1 .. Len(s) : CharAt(s, i) = c} \cup {Len(s) + 1})
Digits(s) == [i \in 1 .. Len(s) |-> to_digit(CharAt(s, i))]
Unsigned(s) == IF CharAt(s, 1) \in {"+", "-"} THEN From(s, 2) ELSE s
Meant(s) ==
    LET e == Position(s, "e")
        dot == Position(SubSeq(s, 1, e - 1), ".")
        exponent == ValueOf(Digits(Unsigned(From(s, e + 1))), 10)
    IN [digits |-> Digits(SubSeq(s, 1, dot - 1) \o SubSeq(s, dot + 1, e - 1)),
        f |-> (IF CharAt(s, e + 1) = "-" THEN -exponent ELSE exponent) - Most(e - 1 - dot, 0)]
Scaled(n, radix, f) == [n |-> n * radix^Most(f, 0), d |-> radix^Most(-f, 0), k |-> Unit]
(* d lies within half a unit of the n-th multiple of radix^f. *)
Within(d, n, radix, f) ==
    LET Half(k) == [Scaled(k, radix, f) EXCEPT !.d = 2 * @]
    IN Cmp(Val(d), Half((2 * n) + 1)) <= 0 /\ (n > 0 => Cmp(Val(d), Half((2 * n) - 1)) >= 0)
Below(d, n, radix, f) == Cmp(Val(d), [Scaled((2 * n) + 1, radix, f) EXCEPT !.d = 2 * @]) < 0

(* The text of a float is the closest one of its length, and none with a digit
   less reads as that float; next to a power of two, where the float below is
   closer, the search by rounding can miss one.  What is cut to a number of
   digits is rounded half away from zero.                                  *)
IsPowerOfTwo(d) == MantOf(d) = 0
ShortestLaw(d) ==
    \A w \in {Meant(js_dtoa2(d, 10, 0, "free", "enabled"))} :
        LET n == ValueOf(w.digits, 10)
            Shorter(k) == IsRounded(0, Scaled(k, 10, w.f + 1), "RNE", d)
        IN /\ Within(d, n, 10, w.f)
           /\ IsPowerOfTwo(d) \/ \A k \in Most((n \div 10) - 1, 0) .. (n \div 10) + 1 : ~Shorter(k)
CutLaw(d, s, f) ==
    \A w \in {Meant(s)} : \A n \in {ValueOf(w.digits, 10)} : w.f = f /\ Within(d, n, 10, f) /\ Below(d, n, 10, f)
CutsLaw(d) ==
    /\ \A f \in 0 .. 4 : \A s \in {js_number_toFixed(d, f)} :
          IF le_sf(FIXED_LIMIT, d) THEN s = js_number_toString(d, 10) ELSE CutLaw(d, s, -f)
    /\ \A p \in 1 .. 4 : \A s \in {js_number_toExponential(d, p - 1)} :
          /\ \A w \in {Meant(s)} : Len(w.digits) = p /\ (d = 0 \/ w.digits[1] # 0) /\ CutLaw(d, s, w.f)
          /\ Cardinality({StringToNumber(t) : t \in {s, js_number_toPrecision(d, p)}}) = 1

(* Reading: the digits that are kept, all of them in a radix that is a power of
   two, rounded to the nearest float. *)
Kept(digits, radix) ==
    LET first == Min({i \in 1 .. Len(digits) : digits[i] # 0} \cup {Len(digits) + 1})
    IN IF RadixOf(radix).bits # 0 THEN digits ELSE SubSeq(digits, 1, Least(Len(digits), first - 1 + atod_max_digits(RadixOf(radix))))
MOST_SHIFT == 4
LEAST_SHIFT == -7
ReadsAs(d, sign, digits, radix, f) ==
    \A kept \in {Kept(digits, radix)} :
        LET n == ValueOf(kept, radix)
            shift == f + Len(digits) - Len(kept)
        IN IF n = 0 \/ shift < LEAST_SHIFT THEN d = sign * SIGN_MASK
           ELSE IF shift > MOST_SHIFT THEN d = Infinity(sign) ELSE IsRounded(sign, Scaled(n, radix, shift), "RNE", d)
AllDigits(s, radix) == s # "" /\ \A i \in 1 .. Len(s) : to_digit(CharAt(s, i)) < radix
IsDecimal(s) ==
    LET e == Position(s, "e")
        mantissa == SubSeq(s, 1, e - 1)
        dot == Position(mantissa, ".")
    IN /\ AllDigits(SubSeq(mantissa, 1, dot - 1) \o From(mantissa, dot + 1), 10)
       /\ e <= Len(s) => AllDigits(Unsigned(From(s, e + 1)), 10)
Trimmed(s) ==
    LET inside == {i \in 1 .. Len(s) : CharAt(s, i) \notin Spaces} IN IF inside = {} THEN "" ELSE SubSeq(s, Min(inside), Max(inside))

(* Number(text) is what the language says of a decimal or a prefixed text.
   Apart from it stand a single space, which is NaN, and what follows a prefix:
   a sign before it, a dot and an exponent are accepted.                   *)
PrefixRadixes == [x |-> 16, o |-> 8, b |-> 2]
Prefix(s) == IF CharAt(s, 1) = "0" /\ CharAt(s, 2) \in DOMAIN PrefixRadixes THEN PrefixRadixes[CharAt(s, 2)] ELSE 0
Apart(s) ==
    \/ s \in Spaces
    \/ LET t == Trimmed(s)
       IN Prefix(Unsigned(t)) # 0 /\ (Unsigned(t) # t \/ \E i \in 3 .. Len(t) : CharAt(t, i) \in {".", "p", "@"})
ReadLaw(s) ==
    \A t \in {Trimmed(s)}, d \in {StringToNumber(s)} :
        LET u == Unsigned(t)
            sign == IF CharAt(t, 1) = "-" THEN 1 ELSE 0
        IN IF t = "" THEN d = 0
           ELSE IF u = "Infinity" THEN d = Infinity(sign)
           ELSE IF IsDecimal(u) THEN \A w \in {Meant(u)} : ReadsAs(d, sign, w.digits, 10, w.f)
           ELSE IF Prefix(u) # 0 /\ AllDigits(From(u, 3), Prefix(u)) THEN ReadsAs(d, sign, Digits(From(u, 3)), Prefix(u), 0)
           ELSE d = F_QNAN
(* Digits of any radix with a dot, read as js_atod reads them; a separator
   between two digits changes nothing.                                     *)
DottedLaw(s, radix) ==
    \A w \in {Meant(s)}, r \in {js_atod(s, 1, radix, {"underscores"})} :
        /\ r.next = Len(s) + 1
        /\ ReadsAs(r.d, 0, w.digits, radix, w.f)
        /\ \A i \in 2 .. Len(s) :
              IsDigit(CharAt(s, i - 1)) /\ IsDigit(CharAt(s, i)) =>
                  js_atod(SubSeq(s, 1, i - 1) \o "_" \o From(s, i), 1, radix, {"underscores"}) = [r EXCEPT !.next = @ + 1]
(* parseInt reads the digits that come first.  The single character that is no
   decimal digit is NaN, and one that is, is read in any radix.            *)
ParseIntLaw(s, radix0) ==
    LET t == Trimmed(s)
        u == Unsigned(t)
        hex == Prefix(u) = 16 /\ radix0 \in {0, 16}
        radix == IF hex THEN 16 ELSE IF radix0 = 0 THEN 10 ELSE radix0
        body == IF hex THEN From(u, 3) ELSE u
        n == Min({i \in 1 .. Len(body) : to_digit(CharAt(body, i)) >= radix} \cup {Len(body) + 1}) - 1
    IN Len(s) # 1 => \A d \in {js_number_parseInt(s, radix0)} :
           IF n = 0 THEN d = F_QNAN ELSE ReadsAs(d, IF CharAt(t, 1) = "-" THEN 1 ELSE 0, Digits(SubSeq(body, 1, n)), radix, 0)

(* A property's name is an element when it is how a number is written. *)
NumberNames(floats) == {js_dtoa2(d, 10, 0, "free", "auto") : d \in {x \in floats : IsFinite(x)}}
IntNames(ints) == {i32toa(i) : i \in ints}
NameLaw(s, names, ints) ==
    /\ js_is_numeric_string(s) <=> s \in names
    /\ \A r \in {is_num_string(s)} : (r.ok <=> s \in ints) /\ (r.ok => i32toa(r.n) = s)
=============================================================================
