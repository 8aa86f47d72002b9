----------------------------- MODULE SoftFloat -----------------------------
(* softfp_template.h and its users in libm.c: IEEE 754 arithmetic on bit
   patterns.  The C template is instantiated by (MANT_SIZE, EXP_SIZE) for 32
   and 64 bit floats and its code depends on nothing else, so this module
   takes the same parameters and the checks enumerate a small format.  A
   float is the natural number of its bit pattern, `F_UINT' is modulo
   2^F_SIZE.  The flags (F_USE_FFLAGS) are not compiled in.                *)
EXTENDS Integers, FiniteSetsExt

CONSTANTS EXP_SIZE, MANT_SIZE, ICVT_SIZE

F_SIZE == 1 + EXP_SIZE + MANT_SIZE
RND_SIZE == (F_SIZE - 2) - MANT_SIZE
EXP_MASK == 2^EXP_SIZE - 1
SIGN_MASK == 2^(F_SIZE - 1)
F_QNAN == EXP_MASK * 2^MANT_SIZE + 2^(MANT_SIZE - 1)
Float == 0 .. 2^F_SIZE - 1

RoundingMode == {"RNE", "RTZ", "RDN", "RUP", "RMM"}

Sticky(b) == IF b THEN 1 ELSE 0
(* F_UINT's shift to the left, which drops the bits that leave the word. *)
Shl(a, n) == (a * 2^n) % 2^F_SIZE
(* Setting the lowest bit: x | b. *)
OrLow(a, b) == IF b /\ a % 2 = 0 THEN a + 1 ELSE a
Abs(a) == a % SIGN_MASK

pack_sf(s, e, mant) == s * SIGN_MASK + (Shl(e, MANT_SIZE) % SIGN_MASK) + (mant % 2^MANT_SIZE)
SignOf(a) == a \div SIGN_MASK
ExpOf(a) == (a \div 2^MANT_SIZE) % 2^EXP_SIZE
MantOf(a) == a % 2^MANT_SIZE
Infinity(s) == pack_sf(s, EXP_MASK, 0)

(* The number of zeros before the first bit of a word of n bits; clz(0) is
   taken as n, and no caller's result depends on it. *)
Clz(a, n) == IF a = 0 THEN n ELSE n - 1 - Max({k \in 0 .. n - 1 : 2^k <= a})

(* Mutant: the bits shifted out are forgotten. *)
TruncatingShift(a, d) == IF d >= F_SIZE THEN 0 ELSE a \div 2^d

rshift_rnd(a, d) ==
    IF d = 0 THEN a
    ELSE IF d >= F_SIZE THEN Sticky(a # 0)
    ELSE OrLow(a \div 2^d, a % 2^d # 0)

(* The rounding constant, added below the mantissa before it is cut. *)
Addend(s, rm) ==
    CASE rm \in {"RNE", "RMM"} -> 2^(RND_SIZE - 1)
      [] rm = "RTZ" -> 0
      [] rm = "RDN" -> IF s = 1 THEN 2^RND_SIZE - 1 ELSE 0
      [] rm = "RUP" -> IF s = 0 THEN 2^RND_SIZE - 1 ELSE 0

(* Cuts the RND_SIZE low bits; a tie goes to even under RNE. *)
Cut(s, mant, rm) ==
    LET up == ((mant + Addend(s, rm)) % 2^F_SIZE) \div 2^RND_SIZE
        tie == rm = "RNE" /\ mant % 2^RND_SIZE = 2^(RND_SIZE - 1)
    IN IF tie THEN up - (up % 2) ELSE up

PackedAt(s, e, mant, rm) ==
    IF mant < 2^MANT_SIZE THEN pack_sf(s, 0, mant)
    ELSE IF e < EXP_MASK THEN pack_sf(s, e, mant)
    ELSE IF Addend(s, rm) = 0 THEN pack_sf(s, EXP_MASK - 1, 2^MANT_SIZE - 1) ELSE Infinity(s)
PackedCut(s, e0, mant, rm) == PackedAt(s, e0 + mant \div 2^(MANT_SIZE + 1), mant, rm)
round_pack_sf(s, e0, mant0, rm) ==
    PackedCut(s, IF e0 <= 0 THEN 1 ELSE e0, Cut(s, IF e0 <= 0 THEN rshift_rnd(mant0, 1 - e0) ELSE mant0, rm), rm)

normalize_sf(s, e, mant, rm) ==
    LET shift == Clz(mant, F_SIZE) - 1
    IN round_pack_sf(s, e - shift, Shl(mant, shift), rm)

(* The mantissa with its leading bit and the exponent, of a non zero float;
   a subnormal is shifted up (normalize_subnormal_sf). *)
normalize_subnormal_sf(mant) ==
    LET shift == MANT_SIZE - (F_SIZE - 1 - Clz(mant, F_SIZE))
    IN [e |-> 1 - shift, m |-> Shl(mant, shift)]
Unpacked(a) ==
    IF ExpOf(a) = 0 THEN normalize_subnormal_sf(MantOf(a))
    ELSE [e |-> ExpOf(a), m |-> MantOf(a) + 2^MANT_SIZE]

isnan_sf(a) == ExpOf(a) = EXP_MASK /\ MantOf(a) # 0
IsInf(a) == ExpOf(a) = EXP_MASK /\ MantOf(a) = 0
IsZero(a) == Abs(a) = 0

-----------------------------------------------------------------------------
(* The operations. *)

(* Operands are swapped so that |a| >= |b|; three guard bits, the last one
   sticky, are kept below the mantissas. *)
add_sf(x, y, rm) ==
    LET swap == Abs(x) < Abs(y)
        a == IF swap THEN y ELSE x
        b == IF swap THEN x ELSE y
        Guarded(f) == Shl(MantOf(f), 3) + IF ExpOf(f) = 0 THEN 0 ELSE 2^(MANT_SIZE + 3)
        Exp1(f) == IF ExpOf(f) = 0 THEN 1 ELSE ExpOf(f)
        bm == rshift_rnd(Guarded(b), Exp1(a) - Exp1(b))
        same == SignOf(a) = SignOf(b)
        mant == IF same THEN Guarded(a) + bm ELSE Guarded(a) - bm
        s == IF ~same /\ mant = 0 THEN Sticky(rm = "RDN") ELSE SignOf(a)
    IN IF ExpOf(a) = EXP_MASK
       THEN IF MantOf(a) # 0 \/ (ExpOf(b) = EXP_MASK /\ ~same) THEN F_QNAN ELSE a
       ELSE normalize_sf(s, Exp1(a) + RND_SIZE - 3, mant, rm)

Negated(a) == (a + SIGN_MASK) % 2^F_SIZE
sub_sf(a, b, rm) == add_sf(a, Negated(b), rm)

(* mul_u: the two words of the product. *)
mul_u(a, b) == [hi |-> (a * b) \div 2^F_SIZE, lo |-> (a * b) % 2^F_SIZE]

mul_sf(a, b, rm) ==
    LET s == (SignOf(a) + SignOf(b)) % 2
        ua == Unpacked(a)
        ub == Unpacked(b)
        r == mul_u(Shl(ua.m, RND_SIZE), Shl(ub.m, RND_SIZE + 1))
    IN IF ExpOf(a) = EXP_MASK \/ ExpOf(b) = EXP_MASK
       THEN IF isnan_sf(a) \/ isnan_sf(b) \/ IsZero(a) \/ IsZero(b) THEN F_QNAN ELSE Infinity(s)
       ELSE IF IsZero(a) \/ IsZero(b) THEN pack_sf(s, 0, 0)
       ELSE normalize_sf(s, ua.e + ub.e - 2^(EXP_SIZE - 1) + 2, OrLow(r.hi, r.lo # 0), rm)

(* divrem_u: (ah * 2^F_SIZE) / b. *)
divrem_u(ah, b) == [q |-> (ah * 2^F_SIZE) \div b, r |-> (ah * 2^F_SIZE) % b]

div_sf(a, b, rm) ==
    LET s == (SignOf(a) + SignOf(b)) % 2
        ua == Unpacked(a)
        ub == Unpacked(b)
        d == divrem_u(ua.m, Shl(ub.m, 2))
    IN CASE isnan_sf(a) \/ isnan_sf(b) -> F_QNAN
         [] IsInf(a) -> IF IsInf(b) THEN F_QNAN ELSE Infinity(s)
         [] IsInf(b) /\ ~IsInf(a) -> pack_sf(s, 0, 0)
         [] IsZero(b) /\ ~IsInf(a) -> IF IsZero(a) THEN F_QNAN ELSE Infinity(s)
         [] OTHER -> IF IsZero(a) THEN pack_sf(s, 0, 0)
                     ELSE normalize_sf(s, ua.e - ub.e + 2^(EXP_SIZE - 1) - 1,
                                       OrLow(d.q, d.r # 0), rm)

(* Newton's iteration from a power of two above the root; it stops when the
   estimate no longer decreases. *)
sqrtrem_u(ah) ==
    LET a == ah * 2^F_SIZE
        start == 2^((2 * F_SIZE - Clz(ah - 1, F_SIZE) + 1) \div 2)
        newton[s \in 0 .. start] ==
            LET u == (a \div s + s) \div 2 IN IF u >= s THEN s ELSE newton[u]
        root == newton[start]
    IN [root |-> root, inexact |-> a # root * root]

sqrt_sf(a, rm) ==
    LET ua == Unpacked(a)
        e0 == ua.e - EXP_MASK \div 2
        odd == e0 % 2
        r == sqrtrem_u(Shl(ua.m, odd + F_SIZE - 4 - MANT_SIZE))
    IN CASE isnan_sf(a) -> F_QNAN
         [] IsZero(a) -> a
         [] SignOf(a) = 1 /\ ~IsZero(a) /\ ~isnan_sf(a) -> F_QNAN
         [] IsInf(a) /\ SignOf(a) = 0 -> a
         [] OTHER -> normalize_sf(0, (e0 - odd) \div 2 + EXP_MASK \div 2,
                                  OrLow(r.root, r.inexact), rm)

(* The exact remainder, one bit of the quotient at a time. *)
fmod_sf(a, b) ==
    LET ua == Unpacked(a)
        ub == Unpacked(b)
        Less(x) == IF x >= ub.m THEN x - ub.m ELSE x
        rem[n \in 0 .. 2^EXP_SIZE + MANT_SIZE] ==
            IF n = 0 THEN Less(ua.m) ELSE Less(2 * rem[n - 1])
    IN IF IsZero(b) \/ Abs(a) >= Infinity(0) \/ Abs(b) > Infinity(0) THEN F_QNAN
       ELSE IF Abs(a) < Abs(b) THEN a
       ELSE IF Abs(a) = Abs(b) THEN SignOf(a) * SIGN_MASK
       ELSE normalize_sf(SignOf(a), ub.e, Shl(rem[ua.e - ub.e], RND_SIZE), "RNE")

-----------------------------------------------------------------------------
(* Comparisons, on the bit patterns. *)

BothZero(a, b) == Abs(a) = 0 /\ Abs(b) = 0
Unordered(a, b) == isnan_sf(a) \/ isnan_sf(b)
eq_quiet_sf(a, b) == ~Unordered(a, b) /\ (BothZero(a, b) \/ a = b)
le_sf(a, b) ==
    /\ ~Unordered(a, b)
    /\ IF SignOf(a) # SignOf(b) THEN SignOf(a) = 1 \/ BothZero(a, b)
       ELSE IF SignOf(a) = 1 THEN a >= b ELSE a <= b
lt_sf(a, b) ==
    /\ ~Unordered(a, b)
    /\ IF SignOf(a) # SignOf(b) THEN SignOf(a) = 1 /\ ~BothZero(a, b)
       ELSE IF SignOf(a) = 1 THEN a > b ELSE a < b
cmp_sf(a, b) ==
    CASE Unordered(a, b) -> 2
      [] ~Unordered(a, b) /\ SignOf(a) # SignOf(b) ->
            IF BothZero(a, b) THEN 0 ELSE 1 - 2 * SignOf(a)
      [] OTHER -> IF a < b THEN 2 * SignOf(a) - 1
                  ELSE IF a > b THEN 1 - 2 * SignOf(a) ELSE 0

-----------------------------------------------------------------------------
(* Conversions to and from integers of ICVT_SIZE bits. *)

internal_cvt_sf_i(a, rm, is_unsigned) ==
    LET s == IF isnan_sf(a) THEN 0 ELSE SignOf(a)
        mant == IF ExpOf(a) = 0 THEN MantOf(a) ELSE MantOf(a) + 2^MANT_SIZE
        e == (IF ExpOf(a) = 0 THEN 1 ELSE ExpOf(a)) - EXP_MASK \div 2 - MANT_SIZE
        r_max == IF is_unsigned THEN (s - 1) % 2^ICVT_SIZE ELSE 2^(ICVT_SIZE - 1) - (1 - s)
        r == IF e >= 0 THEN mant * 2^e
             ELSE Cut(s, rshift_rnd(Shl(mant, RND_SIZE), -e), rm)
        Signed(v) == IF s = 1 /\ ~is_unsigned THEN -v ELSE v
    IN IF e > ICVT_SIZE - 1 - MANT_SIZE \/ r > r_max
       THEN Signed(r_max) ELSE Signed(r)

(* An integer with more bits than a mantissa word is first reduced, its lost
   bits kept in the lowest one. *)
FromMagnitude(s, r, l, rm) ==
    normalize_sf(s, EXP_MASK \div 2 + F_SIZE - 2 + l, OrLow(r \div 2^l, r % 2^l # 0), rm)
internal_cvt_i_sf(i, rm) ==
    LET r == IF i < 0 THEN -i ELSE i
        l == ICVT_SIZE - Clz(r, ICVT_SIZE) - (F_SIZE - 1)
    IN FromMagnitude(Sticky(i < 0), r, IF l > 0 THEN l ELSE 0, rm)

-----------------------------------------------------------------------------
(* libm.c: rounding to an integral float, and scaling by a power of two. *)

RintMode == {"RUP", "RDN", "RTZ", "RMM", "RMMUP"}
One == pack_sf(0, EXP_MASK \div 2, 0)

rint_sf(a, rm) ==
    LET e == ExpOf(a) - EXP_MASK \div 2
        s == SignOf(a)
        unit == 2^(MANT_SIZE - e)
        away == (rm = "RUP" /\ s = 0) \/ (rm = "RDN" /\ s = 1)
        half == rm \in {"RMM", "RMMUP"} /\ e = -1 /\ (MantOf(a) # 0 \/ s = 0 \/ rm = "RMM")
        addend == IF rm = "RMMUP" THEN unit \div 2 - s
                  ELSE IF rm = "RMM" THEN unit \div 2
                  ELSE IF away THEN unit - 1 ELSE 0
        up == a + addend
    IN IF IsZero(a) \/ e >= MANT_SIZE THEN a
       ELSE IF e < 0 THEN s * SIGN_MASK + IF away \/ half THEN One ELSE 0
       ELSE up - (up % unit)

Two54(n) == pack_sf(0, EXP_MASK \div 2 + n, 0)
SetExp(a, k) == SignOf(a) * SIGN_MASK + k * 2^MANT_SIZE + MantOf(a)

ScaledTo(x, k, p) ==
    IF k > EXP_MASK - 1 THEN Infinity(SignOf(x))
    ELSE IF k > 0 THEN SetExp(x, k)
    ELSE IF k <= -p THEN SignOf(x) * SIGN_MASK
    ELSE mul_sf(SetExp(x, k + p), Two54(-p), "RNE")
ScaledBy(x, n, p) == ScaledTo(x, ExpOf(x) + n, p)
js_scalbn(x0, n) ==
    LET p == MANT_SIZE + 2
        sub == ExpOf(x0) = 0
    IN IF IsZero(x0) THEN x0
       ELSE IF ExpOf(x0) = EXP_MASK THEN IF isnan_sf(x0) THEN F_QNAN ELSE x0
       ELSE ScaledBy(IF sub THEN mul_sf(x0, Two54(p), "RNE") ELSE x0, IF sub THEN n - p ELSE n, p)

-----------------------------------------------------------------------------
(* The reference: exact values, and what rounding one of them means.  The
   unit of magnitudes is the smallest subnormal, 2^-Unit; the code c of a
   magnitude is m * 2^e units, and infinity is the code after the largest
   finite one.  An exact value is [n, d, k]: n / d * 2^k units.            *)

Unit == EXP_MASK \div 2 + MANT_SIZE - 1
Val(c) == IF ExpOf(c) = 0 THEN [m |-> MantOf(c), e |-> 0]
          ELSE [m |-> MantOf(c) + 2^MANT_SIZE, e |-> ExpOf(c) - 1]
Mid(c) == [m |-> 2 * Val(c).m + 1, e |-> Val(c).e - 1]
IntVal(c) == [m |-> c, e |-> Unit]
IntMid(c) == [m |-> 2 * c + 1, e |-> Unit - 1]
Square(v) == [m |-> v.m * v.m, e |-> 2 * v.e]
SquareVal(c) == Square(Val(c))
SquareMid(c) == Square(Mid(c))

(* The sign of v - q.  Far is a distance no numerator here can bridge. *)
Far == 16
Cmp(v, q) ==
    LET D == q.k - v.e
        l == IF D < 0 THEN v.m * q.d * 2^(-D) ELSE v.m * q.d
        r == IF D < 0 THEN q.n ELSE q.n * 2^D
    IN IF v.m = 0 \/ q.n = 0 THEN (IF v.m = 0 THEN 0 ELSE 1) - (IF q.n = 0 THEN 0 ELSE 1)
       ELSE IF D > Far THEN -1
       ELSE IF D < -Far THEN 1
       ELSE IF l < r THEN -1 ELSE IF l > r THEN 1 ELSE 0

Direction(s, rm) ==
    CASE rm = "RNE" -> "even"
      [] rm = "RMM" -> "tie away"
      [] rm = "RMMUP" -> IF s = 0 THEN "tie away" ELSE "tie down"
      [] rm = "RTZ" -> "down"
      [] rm = "RDN" -> IF s = 1 THEN "away" ELSE "down"
      [] rm = "RUP" -> IF s = 0 THEN "away" ELSE "down"

(* c is the code q rounds to: no code lies between q and c on the side the
   direction excludes, and a tie goes where the direction says. *)
RoundsTo(V(_), M(_), top, q, dir, c) ==
    LET Stays(x) == dir = "tie down" \/ (dir = "even" /\ x % 2 = 0)
    IN CASE dir = "down" -> /\ c # top /\ Cmp(V(c), q) <= 0
                            /\ c + 1 = top \/ Cmp(V(c + 1), q) > 0
         [] dir = "away" -> /\ c = top \/ Cmp(V(c), q) >= 0
                            /\ c = 0 \/ Cmp(V(c - 1), q) < 0
         [] OTHER -> /\ \/ c = top \/ Cmp(M(c), q) > 0
                        \/ Cmp(M(c), q) = 0 /\ Stays(c)
                     /\ \/ c = 0 \/ Cmp(M(c - 1), q) < 0
                        \/ Cmp(M(c - 1), q) = 0 /\ ~Stays(c - 1)

IsRounded(s, q, rm, r) ==
    /\ SignOf(r) = s /\ ~isnan_sf(r)
    /\ RoundsTo(Val, Mid, Infinity(0), q, Direction(s, rm), Abs(r))

(* The exact sum; of an operand more than Far \div 2 doublings smaller only
   that it is not zero can matter. *)
SumIs(a, b, rm, r) ==
    LET big == IF Abs(a) >= Abs(b) THEN a ELSE b
        small == IF Abs(a) >= Abs(b) THEN b ELSE a
        gap == Val(Abs(big)).e - Val(Abs(small)).e
        near == gap <= Far \div 2
        n1 == Val(Abs(big)).m * 2^(IF near THEN gap ELSE Far \div 2)
        n2 == IF near THEN Val(Abs(small)).m ELSE Sticky(~IsZero(small))
        n == IF SignOf(a) = SignOf(b) THEN n1 + n2 ELSE n1 - n2
        k == IF near THEN Val(Abs(small)).e ELSE Val(Abs(big)).e - Far \div 2
    IN IF n = 0 THEN r = pack_sf(IF SignOf(a) = SignOf(b) THEN SignOf(a) ELSE Sticky(rm = "RDN"), 0, 0)
       ELSE IsRounded(SignOf(big), [n |-> n, d |-> 1, k |-> k], rm, r)

AddIsRight(a, b, rm, r) ==
    IF Unordered(a, b) \/ (IsInf(a) /\ IsInf(b) /\ a # b) THEN r = F_QNAN
    ELSE IF IsInf(a) \/ IsInf(b) THEN r = IF IsInf(a) THEN a ELSE b
    ELSE SumIs(a, b, rm, r)

(* Product and quotient, with the IEEE table for zeros and infinities. *)
MulIsRight(a, b, rm, r) ==
    LET s == IF SignOf(a) = SignOf(b) THEN 0 ELSE 1
        va == Val(Abs(a))
        vb == Val(Abs(b))
    IN CASE \/ Unordered(a, b) \/ (IsInf(a) /\ IsZero(b)) \/ (IsZero(a) /\ IsInf(b)) -> r = F_QNAN
         [] ~Unordered(a, b) /\ (IsInf(a) \/ IsInf(b)) /\ ~IsZero(a) /\ ~IsZero(b) -> r = Infinity(s)
         [] OTHER -> IsRounded(s, [n |-> va.m * vb.m, d |-> 1, k |-> va.e + vb.e - Unit], rm, r)
DivIsRight(a, b, rm, r) ==
    LET s == IF SignOf(a) = SignOf(b) THEN 0 ELSE 1
        va == Val(Abs(a))
        vb == Val(Abs(b))
    IN IF Unordered(a, b) \/ (IsInf(a) /\ IsInf(b)) \/ BothZero(a, b) THEN r = F_QNAN
       ELSE IF IsInf(a) \/ IsZero(b) THEN r = Infinity(s)
       ELSE IF IsInf(b) THEN r = pack_sf(s, 0, 0)
       ELSE IsRounded(s, [n |-> va.m, d |-> vb.m, k |-> va.e - vb.e + Unit], rm, r)
SqrtIsRight(a, rm, r) ==
    LET v == Val(Abs(a))
    IN IF IsZero(a) THEN r = a
       ELSE IF isnan_sf(a) \/ SignOf(a) = 1 THEN r = F_QNAN
       ELSE IF IsInf(a) THEN r = a
       ELSE /\ SignOf(r) = 0
            /\ RoundsTo(SquareVal, SquareMid, Infinity(0), [n |-> v.m, d |-> 1, k |-> v.e + Unit],
                        Direction(0, rm), r)
FmodIsRight(a, b, r) ==
    LET va == Val(Abs(a))
        vb == Val(Abs(b))
        rest == IF va.e < vb.e THEN [n |-> va.m, d |-> 1, k |-> va.e]
                ELSE [n |-> (va.m * (2^(va.e - vb.e) % vb.m)) % vb.m, d |-> 1, k |-> vb.e]
    IN IF Unordered(a, b) \/ IsInf(a) \/ IsZero(b) THEN r = F_QNAN
       ELSE SignOf(r) = SignOf(a) /\ (IF IsInf(b) THEN r = a ELSE Cmp(Val(Abs(r)), rest) = 0)

(* -1, 0 or 1 as the value of a is below, equal to or above the value of b. *)
Order(a, b) ==
    LET Rank(x) == IF SignOf(x) = 1 THEN -Abs(x) ELSE Abs(x)
    IN IF Rank(a) < Rank(b) THEN -1 ELSE IF Rank(a) > Rank(b) THEN 1 ELSE 0

ExactMagnitude(a) == [n |-> Val(Abs(a)).m, d |-> 1, k |-> Val(Abs(a)).e]
(* Rounding to an integer, clamped to the range of the type. *)
ToIntIsRight(a, rm, unsigned, r) ==
    LET lo == IF unsigned THEN 0 ELSE -(2^(ICVT_SIZE - 1))
        hi == IF unsigned THEN 2^ICVT_SIZE - 1 ELSE 2^(ICVT_SIZE - 1) - 1
        c == IF r < 0 THEN -r ELSE r
    IN IF isnan_sf(a) THEN r = hi
       ELSE /\ r \in lo .. hi
            /\ r # 0 /\ SignOf(a) = 1 => r < 0
            /\ \/ RoundsTo(IntVal, IntMid, -1, ExactMagnitude(a), Direction(SignOf(a), rm), c)
               \/ /\ r = (IF SignOf(a) = 1 THEN lo ELSE hi)
                  /\ Cmp(IntVal(c), ExactMagnitude(a)) <= 0
RintIsRight(a, rm, r) ==
    IF ExpOf(a) - EXP_MASK \div 2 >= MANT_SIZE THEN r = a
    ELSE /\ SignOf(r) = SignOf(a)
         /\ \E c \in 0 .. 2^(MANT_SIZE + 1) :
                /\ Cmp(IntVal(c), ExactMagnitude(r)) = 0
                /\ RoundsTo(IntVal, IntMid, -1, ExactMagnitude(a), Direction(SignOf(a), rm), c)
ScalbnIsRight(a, n, r) ==
    LET v == Val(Abs(a))
    IN IF ExpOf(a) = EXP_MASK \/ IsZero(a) THEN r = IF isnan_sf(a) THEN F_QNAN ELSE a
       ELSE IsRounded(SignOf(a), [n |-> v.m, d |-> 1, k |-> v.e + n], "RNE", r)

(* Everything said of the operand a with every b of a set, under rm. *)
BinaryLaw(a, rm, Operands) ==
    \A b \in Operands :
        /\ AddIsRight(a, b, rm, add_sf(a, b, rm))
        /\ AddIsRight(a, Negated(b), rm, sub_sf(a, b, rm))
        /\ MulIsRight(a, b, rm, mul_sf(a, b, rm))
        /\ DivIsRight(a, b, rm, div_sf(a, b, rm))
OrderLaw(a, Operands) ==
    \A b \in Operands :
        /\ FmodIsRight(a, b, fmod_sf(a, b))
        /\ cmp_sf(a, b) = IF Unordered(a, b) THEN 2 ELSE Order(a, b)
        /\ eq_quiet_sf(a, b) = (cmp_sf(a, b) = 0)
        /\ lt_sf(a, b) = (cmp_sf(a, b) = -1)
        /\ le_sf(a, b) = (cmp_sf(a, b) \in {-1, 0})
UnaryLaw(a, rm) ==
    /\ SqrtIsRight(a, rm, sqrt_sf(a, rm))
    /\ \A u \in BOOLEAN : ToIntIsRight(a, rm, u, internal_cvt_sf_i(a, rm, u))
RintLaw(a, rm) == RintIsRight(a, rm, rint_sf(a, rm))
ScalbnLaw(a) == \A n \in -40 .. 40 : ScalbnIsRight(a, n, js_scalbn(a, n))
FromIntLaw(i, rm) ==
    LET r == internal_cvt_i_sf(i, rm)
    IN IF i = 0 THEN r = 0
       ELSE IsRounded(Sticky(i < 0), [n |-> IF i < 0 THEN -i ELSE i, d |-> 1, k |-> Unit], rm, r)
=============================================================================
