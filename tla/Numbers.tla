------------------------------- MODULE Numbers -------------------------------
(* The numbers of the engine.  A value holds a short integer, a float whose
   exponent is rotated into the place of the tag (a short float), or points to
   a float in the heap; the same number can come as any of them.  Here are the
   constructors, the way a number crosses from and to the host, and the
   conversion to 32 bits.  INT_SIZE is the width of int32_t, F_SIZE that of
   double and of JSValue, ICVT_SIZE that of Kotlin's Long.                 *)
EXTENDS SoftFloat
CONSTANTS INT_SIZE

JS_TAG_SHORT_FLOAT == 5
JS_SHORTINT_MAX == 2^(INT_SIZE - 2) - 1
JS_SHORTINT_MIN == -(2^(INT_SIZE - 2))
Int32 == -(2^(INT_SIZE - 1)) .. 2^(INT_SIZE - 1) - 1
Bias == EXP_MASK \div 2
Power(n) == pack_sf(0, Bias + n, 0)
(* The cast of a float to an integer it has room for, and back. *)
Truncated(d) == internal_cvt_sf_i(d, "RTZ", FALSE)
FromInt(i) == internal_cvt_i_sf(i, "RNE")

rotl64(a, n) == Shl(a, n) + a \div 2^(F_SIZE - n)
JS_FLOAT64_VALUE_EXP_MIN == Bias - (2^(EXP_SIZE - 4) - 1)
JS_FLOAT64_VALUE_ADDEND == Shl(JS_FLOAT64_VALUE_EXP_MIN - JS_TAG_SHORT_FLOAT * 2^(EXP_SIZE - 3), MANT_SIZE)
js_get_short_float(v) == (rotl64(v, F_SIZE - 4) + JS_FLOAT64_VALUE_ADDEND) % 2^F_SIZE
js_to_short_float(d) == rotl64((d - JS_FLOAT64_VALUE_ADDEND) % 2^F_SIZE, 4)

JS_NewShortInt(i) == [tag |-> "int", i |-> i]
ShortFloat(v) == [tag |-> "short_float", v |-> v]
JSFloat64(d) == [tag |-> "float64", d |-> d]
minus_zero == JSFloat64(SIGN_MASK)

(* Mutant: a float one exponent below the smallest short one is rotated too. *)
WideNewFloat64(d) ==
    IF le_sf(Power(-(2^(EXP_SIZE - 4))), Abs(d)) /\ le_sf(Abs(d), Power(2^(EXP_SIZE - 4)))
    THEN ShortFloat(js_to_short_float(d)) ELSE JSFloat64(d)
NewFloat64(d) ==
    IF d = SIGN_MASK THEN minus_zero
    ELSE IF le_sf(Power(-(2^(EXP_SIZE - 4) - 1)), Abs(d)) /\ le_sf(Abs(d), Power(2^(EXP_SIZE - 4)))
         THEN ShortFloat(js_to_short_float(d)) ELSE JSFloat64(d)

JS_NewFloat64(d) ==
    IF le_sf(FromInt(JS_SHORTINT_MIN), d) /\ le_sf(d, FromInt(JS_SHORTINT_MAX)) /\ FromInt(Truncated(d)) = d
    THEN JS_NewShortInt(Truncated(d)) ELSE NewFloat64(d)

(* The same with USE_SOFTFLOAT: only bits are looked at. *)
SoftNewFloat64(d) ==
    LET e == ExpOf(d) - Bias
        m == MantOf(d) + 2^MANT_SIZE
        b == m \div 2^(MANT_SIZE - e)
    IN CASE d = 0 -> JS_NewShortInt(0)
         [] e \in 0 .. INT_SIZE - 3 /\ m % 2^(MANT_SIZE - e) = 0 -> JS_NewShortInt(IF SignOf(d) = 1 THEN -b ELSE b)
         [] d = Negated(Power(INT_SIZE - 2)) -> JS_NewShortInt(JS_SHORTINT_MIN)
         [] OTHER -> NewFloat64(d)

JS_NewInt64(i) == IF i \in JS_SHORTINT_MIN .. JS_SHORTINT_MAX THEN JS_NewShortInt(i) ELSE NewFloat64(FromInt(i))

(* A number from the host: i is what the cast to int32_t gives, which C says
   only of a number that has room. *)
Casts(d) == IF ~isnan_sf(d) /\ Truncated(d) \in Int32 THEN {Truncated(d)} ELSE Int32
value_from_host(d, i) ==
    IF eq_quiet_sf(FromInt(i), d) /\ ~(IsZero(d) /\ SignOf(d) = 1) THEN JS_NewInt64(i) ELSE JS_NewFloat64(d)

JS_ToNumber(v) ==
    CASE v.tag = "int" -> FromInt(v.i)
      [] v.tag = "short_float" -> js_get_short_float(v.v)
      [] v.tag = "float64" -> v.d

(* The low INT_SIZE bits of n as an int32_t.  C leaves -low undefined for the
   smallest int32_t; the build's negation gives the same number again. *)
Wrapped(n) == ((n + 2^(INT_SIZE - 1)) % 2^INT_SIZE) - 2^(INT_SIZE - 1)
LowWord(u, e) == Wrapped((((MantOf(u) + 2^MANT_SIZE) * 2^(e - MANT_SIZE + INT_SIZE)) % 2^(2 * INT_SIZE)) \div 2^INT_SIZE)
Int32Of(u, e, sat_flag) ==
    IF e <= INT_SIZE - 2 THEN Truncated(u)
    ELSE IF sat_flag THEN IF isnan_sf(u) THEN 0 ELSE IF SignOf(u) = 1 THEN -(2^(INT_SIZE - 1)) ELSE 2^(INT_SIZE - 1) - 1
    ELSE IF e > INT_SIZE - 2 + MANT_SIZE + 1 THEN 0
    ELSE IF SignOf(u) = 1 THEN Wrapped(-LowWord(u, e)) ELSE LowWord(u, e)
JS_ToInt32Internal(v, sat_flag) ==
    IF v.tag = "int" THEN v.i ELSE Int32Of(JS_ToNumber(v), ExpOf(JS_ToNumber(v)) - Bias, sat_flag)

(* Double.toJsonPrimitive, and content.toDouble() of what it made. *)
toLong(d) == IF isnan_sf(d) THEN 0 ELSE Truncated(d)
toJsonPrimitive(d) ==
    LET whole == le_sf(Negated(Power(ICVT_SIZE - 1)), d) /\ lt_sf(d, Power(ICVT_SIZE - 1)) /\ eq_quiet_sf(d, FromInt(toLong(d)))
    IN IF whole THEN [long |-> toLong(d)] ELSE [double |-> d]
toDouble(content) == IF "long" \in DOMAIN content THEN FromInt(content.long) ELSE content.double

-----------------------------------------------------------------------------
(* The number d crosses to the engine and back with every bit, whatever the
   cast made of it, and always as the same value: an integer with room is a
   short one, but not a negative zero.  Its JSON is exact but for the sign of
   zero.  Whole is the integer part of d, of which only the bits below
   INT_SIZE can matter.                                                    *)
Whole(d) ==
    LET v == Val(Abs(d))
        k == v.e - Unit
    IN IF k < 0 THEN IF k < -MANT_SIZE THEN 0 ELSE v.m \div 2^(-k) ELSE IF k >= INT_SIZE THEN 0 ELSE v.m * 2^k
Signed(d, n) == IF SignOf(d) = 1 THEN -n ELSE n
IsShortInt(d) == d # SIGN_MASK /\ \E i \in JS_SHORTINT_MIN .. JS_SHORTINT_MAX : FromInt(i) = d
CrossesLaw(d) ==
    \A v \in {JS_NewFloat64(d)} :
        /\ JS_ToNumber(v) = d
        /\ SoftNewFloat64(d) = v
        /\ \A i \in Casts(d) : value_from_host(d, i) = v
        /\ v.tag = "int" <=> IsShortInt(d)
        /\ v.tag = "short_float" => v.v % 8 = JS_TAG_SHORT_FLOAT
        /\ \A content \in {toJsonPrimitive(d)} :
              /\ toDouble(content) = IF d = SIGN_MASK THEN 0 ELSE d
              /\ "long" \in DOMAIN content => Cmp(Val(Abs(d)), [n |-> Signed(d, content.long), d |-> 1, k |-> Unit]) = 0
(* The conversion to 32 bits is the integer part modulo 2^32, or its
   neighbour in the range. *)
Int32Law(d) ==
    \A v \in {JS_NewFloat64(d)} :
        LET inside == ~isnan_sf(d) /\ \E i \in Int32 : i = Signed(d, Whole(d)) /\ Abs(d) < Power(INT_SIZE)
            saturated == IF inside THEN Signed(d, Whole(d)) ELSE IF SignOf(d) = 1 THEN -(2^(INT_SIZE - 1)) ELSE 2^(INT_SIZE - 1) - 1
        IN \A sat_flag \in BOOLEAN :
               JS_ToInt32Internal(v, sat_flag) =
                   IF isnan_sf(d) THEN 0 ELSE IF sat_flag THEN saturated
                   ELSE IF ExpOf(d) = EXP_MASK THEN 0 ELSE Wrapped(Signed(d, Whole(d)))
(* An integer of any width makes the value its float makes. *)
IntegersLaw == \A i \in Int32 : JS_NewInt64(i) = JS_NewFloat64(FromInt(i))
NumberLaw(d) == CrossesLaw(d) /\ Int32Law(d) /\ (d = 0 => IntegersLaw)
=============================================================================
