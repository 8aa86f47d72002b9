---------------------------- MODULE SoftFloatCvt ----------------------------
(* softfp_template.h: the conversions between a narrow and a wide format
   (cvt_sf32_sf64 and cvt_sf64_sf32), for two instances of SoftFloat.      *)
EXTENDS Integers

CONSTANTS EXP_SIZE, MANT_SIZE, ICVT_SIZE, NARROW_EXP_SIZE, NARROW_MANT_SIZE

W == INSTANCE SoftFloat
N == INSTANCE SoftFloat WITH EXP_SIZE <- NARROW_EXP_SIZE, MANT_SIZE <- NARROW_MANT_SIZE

Rebias == W!EXP_MASK \div 2 - N!EXP_MASK \div 2

(* The narrow mantissa keeps its leading bit when it was subnormal: packing
   drops it. *)
cvt_sf32_sf(a) ==
    LET s == N!SignOf(a)
        u == N!Unpacked(a)
    IN IF N!isnan_sf(a) THEN W!F_QNAN
       ELSE IF N!IsInf(a) THEN W!Infinity(s)
       ELSE IF N!IsZero(a) THEN W!pack_sf(s, 0, 0)
       ELSE W!pack_sf(s, u.e + Rebias, u.m * 2^(MANT_SIZE - NARROW_MANT_SIZE))

(* The normalised mantissa of a subnormal is computed and dropped: its
   exponent alone puts it below the narrow range. *)
cvt_sf_sf32(a, rm) ==
    LET s == W!SignOf(a)
        mant == IF W!ExpOf(a) = 0 THEN W!MantOf(a) ELSE W!Unpacked(a).m
    IN IF W!isnan_sf(a) THEN N!F_QNAN
       ELSE IF W!IsInf(a) THEN N!Infinity(s)
       ELSE IF W!IsZero(a) THEN N!pack_sf(s, 0, 0)
       ELSE N!normalize_sf(s, W!Unpacked(a).e - Rebias,
                           W!rshift_rnd(mant, MANT_SIZE - (N!F_SIZE - 2)), rm)

-----------------------------------------------------------------------------
(* Widening is exact, narrowing rounds, and the first undoes the second. *)
WidenLaw(a) ==
    LET r == cvt_sf32_sf(a)
        v == N!Val(N!Abs(a))
    IN IF N!isnan_sf(a) THEN r = W!F_QNAN
       ELSE /\ W!SignOf(r) = N!SignOf(a)
            /\ IF N!IsInf(a) THEN W!IsInf(r)
               ELSE W!Cmp(W!Val(W!Abs(r)), [n |-> v.m, d |-> 1, k |-> v.e + W!Unit - N!Unit]) = 0
            /\ \A rm \in N!RoundingMode : cvt_sf_sf32(r, rm) = a
NarrowLaw(a, rm) ==
    LET r == cvt_sf_sf32(a, rm)
        v == W!Val(W!Abs(a))
    IN IF W!isnan_sf(a) THEN r = N!F_QNAN
       ELSE IF W!IsInf(a) THEN r = N!Infinity(W!SignOf(a))
       ELSE IF W!IsZero(a) THEN r = N!pack_sf(W!SignOf(a), 0, 0)
       ELSE N!IsRounded(W!SignOf(a), [n |-> v.m, d |-> 1, k |-> v.e + N!Unit - W!Unit], rm, r)
=============================================================================
