---------------------------- MODULE SoftFloatConv ----------------------------
(* The conversions between floats and integers and the comparisons of        *)
(* softfloat/.  Signed integers are numbers, not bit patterns.               *)
EXTENDS SoftFloatOps

MaxInt(n) == 2^(n - 1) - 1
MinInt(n) == -(2^(n - 1))
MaxUint(n) == 2^n - 1
\* i32_fromNaN is the positive overflow; so are the other three.
Overflow(signed, n, sign) ==
  Raised(IF sign = 1 THEN IF signed THEN MinInt(n) ELSE 0
         ELSE IF signed THEN MaxInt(n) ELSE MaxUint(n), {"invalid"})
SignOf(F, a) == IF isNaNUI(F, a) THEN 0 ELSE signUI(F, a)
Sig(F, a) == fracUI(F, a) + (IF expUI(F, a) # 0 THEN Hidden(F) ELSE 0)
Signed(sign, n) == IF sign = 1 THEN -n ELSE n

-----------------------------------------------------------------------------
(* Float to integer, rounding as told.                                       *)

roundPackToI32(rm, exact, sign, sig) ==
  LET inc == Increment(rm, sign, RB)
      roundBits == sig % 2^RB
      z == Evened(rm, (sig + inc) \div 2^RB, roundBits, RB)
  IN IF sig + inc >= 2^(N32 + RB) \/ Signed(sign, z) \notin MinInt(N32)..MaxInt(N32)
       THEN Overflow(TRUE, N32, sign)
       ELSE Raised(Signed(sign, z), If(exact /\ roundBits # 0, "inexact"))
roundPackToUI32(rm, exact, sign, sig) ==
  LET inc == Increment(rm, sign, RB)
      roundBits == sig % 2^RB
      z == Evened(rm, (sig + inc) \div 2^RB, roundBits, RB)
  IN IF sig + inc >= 2^(N32 + RB) \/ (sign = 1 /\ z # 0)
       THEN Overflow(FALSE, N32, sign)
       ELSE Raised(z, If(exact /\ roundBits # 0, "inexact"))

\* The magnitude that the 64-bit routines round: an increment of the largest
\* word carries out of it, which is an overflow.
Rounded64(rm, sign, x) ==
  LET up == CASE rm \in {"near_even", "near_maxMag"} -> x.extra >= 2^(N64 - 1)
              [] rm = (IF sign = 1 THEN "min" ELSE "max") -> x.extra # 0
              [] OTHER -> FALSE
      z == x.v + AsBit(up)
  IN IF up /\ rm = "near_even" /\ x.extra = 2^(N64 - 1) /\ z < 2^N64 THEN z - (z % 2) ELSE z
roundPackToI64(rm, exact, sign, x) ==
  LET z == Rounded64(rm, sign, x)
  IN IF z >= 2^N64 \/ Signed(sign, z) \notin MinInt(N64)..MaxInt(N64)
       THEN Overflow(TRUE, N64, sign)
       ELSE Raised(Signed(sign, z), If(exact /\ x.extra # 0, "inexact"))
roundPackToUI64(rm, exact, sign, x) ==
  LET z == Rounded64(rm, sign, x)
  IN IF z >= 2^N64 \/ (sign = 1 /\ z # 0)
       THEN Overflow(FALSE, N64, sign)
       ELSE Raised(z, If(exact /\ x.extra # 0, "inexact"))

\* The significand with RB bits after the point, as far as it is not too big.
f32_Fixed(a) ==
  LET dist == Bias(F32) + F32.s + N32 - RB - expUI(F32, a)
      sig64 == Sig(F32, a) * 2^N32
  IN IF dist > 0 THEN softfloat_shiftRightJam64(sig64, dist) ELSE sig64
f64_Fixed(a) ==
  LET dist == Bias(F64) + F64.s - RB - expUI(F64, a)
  IN IF dist > 0 THEN softfloat_shiftRightJam64(Sig(F64, a), dist) ELSE Sig(F64, a)
f32_to_i32(rm, exact, a) == roundPackToI32(rm, exact, SignOf(F32, a), f32_Fixed(a))
f32_to_ui32(rm, exact, a) == roundPackToUI32(rm, exact, SignOf(F32, a), f32_Fixed(a))
f64_to_i32(rm, exact, a) == roundPackToI32(rm, exact, SignOf(F64, a), f64_Fixed(a))
f64_to_ui32(rm, exact, a) == roundPackToUI32(rm, exact, SignOf(F64, a), f64_Fixed(a))

f32_Dist64(a) == Bias(F32) + N64 - 1 - expUI(F32, a)
f32_Extra(a) ==
  LET sig64 == Sig(F32, a) * 2^(N64 - 1 - F32.s)
  IN IF f32_Dist64(a) = 0 THEN [v |-> sig64, extra |-> 0]
     ELSE softfloat_shiftRightJam64Extra(sig64, f32_Dist64(a))
f32_to_i64(rm, exact, a) ==
  IF f32_Dist64(a) < 0 THEN Overflow(TRUE, N64, SignOf(F32, a))
  ELSE roundPackToI64(rm, exact, signUI(F32, a), f32_Extra(a))
f32_to_ui64(rm, exact, a) ==
  IF f32_Dist64(a) < 0 THEN Overflow(FALSE, N64, SignOf(F32, a))
  ELSE roundPackToUI64(rm, exact, signUI(F32, a), f32_Extra(a))

f64_Dist64(a) == Bias(F64) + F64.s - expUI(F64, a)
f64_Extra(a) ==
  IF f64_Dist64(a) <= 0 THEN [v |-> Sig(F64, a) * 2^(-f64_Dist64(a)), extra |-> 0]
  ELSE softfloat_shiftRightJam64Extra(Sig(F64, a), f64_Dist64(a))
f64_to_i64(rm, exact, a) ==
  IF f64_Dist64(a) < -(N64 - 1 - F64.s) THEN Overflow(TRUE, N64, SignOf(F64, a))
  ELSE roundPackToI64(rm, exact, signUI(F64, a), f64_Extra(a))
f64_to_ui64(rm, exact, a) ==
  IF f64_Dist64(a) < -(N64 - 1 - F64.s) THEN Overflow(FALSE, N64, SignOf(F64, a))
  ELSE roundPackToUI64(rm, exact, signUI(F64, a), f64_Extra(a))

-----------------------------------------------------------------------------
(* Float to integer, towards zero.  Each tests the distance in its own way.   *)

Nothing(F, exact, a) == Raised(0, If(exact /\ ~IsZero(F, a), "inexact"))
Truncated(exact, sign, sig, dist) ==
  Raised(Signed(sign, sig \div 2^dist), If(exact /\ sig % 2^dist # 0, "inexact"))

f32_to_i32_r_minMag(exact, a) ==
  LET dist == Bias(F32) + N32 - 1 - expUI(F32, a)
  IN CASE N32 <= dist -> Nothing(F32, exact, a)
       [] dist <= 0 -> IF a = packToUI(F32, 1, Bias(F32) + N32 - 1, 0) THEN Z(MinInt(N32))
                       ELSE Overflow(TRUE, N32, SignOf(F32, a))
       [] OTHER -> Truncated(exact, signUI(F32, a),
                             (fracUI(F32, a) + Hidden(F32)) * 2^(N32 - 1 - F32.s), dist)
f32_to_ui32_r_minMag(exact, a) ==
  LET dist == Bias(F32) + N32 - 1 - expUI(F32, a)
  IN CASE N32 <= dist -> Nothing(F32, exact, a)
       [] dist < N32 /\ (signUI(F32, a) = 1 \/ dist < 0) -> Overflow(FALSE, N32, SignOf(F32, a))
       [] OTHER -> Truncated(exact, 0,
                             (fracUI(F32, a) + Hidden(F32)) * 2^(N32 - 1 - F32.s), dist)
f32_to_i64_r_minMag(exact, a) ==
  LET dist == f32_Dist64(a)
  IN CASE N64 <= dist -> Nothing(F32, exact, a)
       [] dist <= 0 -> IF a = packToUI(F32, 1, Bias(F32) + N64 - 1, 0) THEN Z(MinInt(N64))
                       ELSE Overflow(TRUE, N64, SignOf(F32, a))
       [] OTHER -> Truncated(exact, signUI(F32, a),
                             (fracUI(F32, a) + Hidden(F32)) * 2^(N64 - 1 - F32.s), dist)
f32_to_ui64_r_minMag(exact, a) ==
  LET dist == f32_Dist64(a)
  IN CASE N64 <= dist -> Nothing(F32, exact, a)
       [] dist < N64 /\ (signUI(F32, a) = 1 \/ dist < 0) -> Overflow(FALSE, N64, SignOf(F32, a))
       [] OTHER -> Truncated(exact, 0,
                             (fracUI(F32, a) + Hidden(F32)) * 2^(N64 - 1 - F32.s), dist)
f64_to_i32_r_minMag(exact, a) ==
  LET dist == f64_Dist64(a)
      isMin == /\ signUI(F64, a) = 1 /\ expUI(F64, a) = Bias(F64) + N32 - 1
               /\ fracUI(F64, a) < 2^(F64.s - N32 + 1)
  IN CASE F64.s + 1 <= dist -> Nothing(F64, exact, a)
       [] dist < F64.s - N32 + 2 ->
            IF isMin THEN Raised(MinInt(N32), If(exact /\ fracUI(F64, a) # 0, "inexact"))
            ELSE Overflow(TRUE, N32, SignOf(F64, a))
       [] OTHER -> Truncated(exact, signUI(F64, a), fracUI(F64, a) + Hidden(F64), dist)
f64_to_ui32_r_minMag(exact, a) ==
  LET dist == f64_Dist64(a)
  IN CASE F64.s + 1 <= dist -> Nothing(F64, exact, a)
       [] dist < F64.s + 1 /\ (signUI(F64, a) = 1 \/ dist < F64.s - N32 + 1) ->
            Overflow(FALSE, N32, SignOf(F64, a))
       [] OTHER -> Truncated(exact, 0, fracUI(F64, a) + Hidden(F64), dist)
f64_to_i64_r_minMag(exact, a) ==
  LET dist == f64_Dist64(a)
      sig == fracUI(F64, a) + Hidden(F64)
  IN CASE dist < -(N64 - 2 - F64.s) ->
            IF a = packToUI(F64, 1, Bias(F64) + N64 - 1, 0) THEN Z(MinInt(N64))
            ELSE Overflow(TRUE, N64, SignOf(F64, a))
       [] dist <= 0 /\ dist >= -(N64 - 2 - F64.s) -> Z(Signed(signUI(F64, a), sig * 2^(-dist)))
       [] dist > 0 -> IF F64.s + 1 <= dist THEN Nothing(F64, exact, a)
                      ELSE Truncated(exact, signUI(F64, a), sig, dist)
f64_to_ui64_r_minMag(exact, a) ==
  LET dist == f64_Dist64(a)
      sig == fracUI(F64, a) + Hidden(F64)
  IN CASE F64.s + 1 <= dist -> Nothing(F64, exact, a)
       [] dist <= F64.s /\ (signUI(F64, a) = 1 \/ dist < -(N64 - 1 - F64.s)) ->
            Overflow(FALSE, N64, SignOf(F64, a))
       [] OTHER -> IF dist <= 0 THEN Z(sig * 2^(-dist)) ELSE Truncated(exact, 0, sig, dist)

-----------------------------------------------------------------------------
(* Integer to float, and float to float.                                     *)

Magn(n) == IF n < 0 THEN -n ELSE n
i32_to_f32(rm, n) ==
  IF n \in {0, MinInt(N32)}
    THEN Z(IF n = 0 THEN 0 ELSE packToUI(F32, 1, Bias(F32) + N32 - 1, 0))
    ELSE normRoundPack(F32, rm, AsBit(n < 0), Bias(F32) + Width(F32) - 3, Magn(n))
i32_to_f64(n) ==
  LET k == countLeadingZeros(N32, Magn(n)) + F64.s - N32 + 1
  IN Z(IF n = 0 THEN 0
       ELSE packToUI(F64, AsBit(n < 0), Bias(F64) + F64.s - 1 - k, Magn(n) * 2^k))
\* In the code an ui32 fills the word of a float: it is moved down by a place.
ui32_to_f32(rm, n) ==
  CASE n = 0 -> Z(0)
    [] n >= 2^(N32 - 1) -> roundPack(F32, rm, 0, Bias(F32) + N32 - 2,
                                     shortShiftRightJam64(n * 2^(Width(F32) - N32), 1))
    [] OTHER -> normRoundPack(F32, rm, 0, Bias(F32) + Width(F32) - 3, n)
ui32_to_f64(n) ==
  LET k == countLeadingZeros(N32, n) + F64.s - N32 + 1
  IN Z(IF n = 0 THEN 0 ELSE packToUI(F64, 0, Bias(F64) + F64.s - 1 - k, n * 2^k))
i64_to_f32(rm, n) ==
  LET k == countLeadingZeros(N64, Magn(n)) - (N64 - 1 - F32.s)
      j == k + Rbits(F32)
  IN IF k >= 0
     THEN Z(IF n = 0 THEN 0
            ELSE packToUI(F32, AsBit(n < 0), Bias(F32) + F32.s - 1 - k, Magn(n) * 2^k))
     ELSE roundPack(F32, rm, AsBit(n < 0), Bias(F32) + Width(F32) - 3 - j,
                    IF j < 0 THEN shortShiftRightJam64(Magn(n), -j) ELSE Magn(n) * 2^j)
ui64_to_f32(rm, n) ==
  LET k == countLeadingZeros(N64, n) - (N64 - 1 - F32.s)
      j == k + Rbits(F32)
  IN IF k >= 0
     THEN Z(IF n = 0 THEN 0 ELSE packToUI(F32, 0, Bias(F32) + F32.s - 1 - k, n * 2^k))
     ELSE roundPack(F32, rm, 0, Bias(F32) + Width(F32) - 3 - j,
                    IF j < 0 THEN shortShiftRightJam64(n, -j) ELSE n * 2^j)
i64_to_f64(rm, n) ==
  IF n \in {0, MinInt(N64)}
    THEN Z(IF n = 0 THEN 0 ELSE packToUI(F64, 1, Bias(F64) + N64 - 1, 0))
    ELSE softfloat_normRoundPackToF64(rm, AsBit(n < 0), Bias(F64) + Width(F64) - 3, Magn(n))
ui64_to_f64(rm, n) ==
  CASE n = 0 -> Z(0)
    [] n >= 2^(N64 - 1) ->
         softfloat_roundPackToF64(rm, 0, Bias(F64) + N64 - 2,
                                  shortShiftRightJam64(n * 2^(Width(F64) - N64), 1))
    [] OTHER -> softfloat_normRoundPackToF64(rm, 0, Bias(F64) + Width(F64) - 3, n)

f32_to_f64(a) ==
  LET sign == signUI(F32, a)
      exp == IF expUI(F32, a) = 0 THEN normSubnormalSig(F32, fracUI(F32, a)).exp - 1
             ELSE expUI(F32, a)
      sig == IF expUI(F32, a) = 0 THEN normSubnormalSig(F32, fracUI(F32, a)).sig
             ELSE fracUI(F32, a)
  IN CASE isNaNUI(F32, a) -> Raised(defaultNaN(F64), If(isSigNaNUI(F32, a), "invalid"))
       [] IsInf(F32, a) -> Infinity(F64, sign)
       [] IsZero(F32, a) -> Zero(F64, sign)
       [] OTHER -> Z(packToUI(F64, sign, exp + Bias(F64) - Bias(F32),
                              sig * 2^(F64.s - F32.s)))
f64_to_f32(rm, a) ==
  LET sign == signUI(F64, a)
      sig32 == shortShiftRightJam64(fracUI(F64, a), F64.s - F32.s - Rbits(F32))
  IN CASE isNaNUI(F64, a) -> Raised(defaultNaN(F32), If(isSigNaNUI(F64, a), "invalid"))
       [] IsInf(F64, a) -> Infinity(F32, sign)
       [] expUI(F64, a) = 0 /\ sig32 = 0 -> Zero(F32, sign)
       [] OTHER -> roundPack(F32, rm, sign, expUI(F64, a) - (Bias(F64) - Bias(F32) + 1),
                             sig32 + Top(F32) \div 2)

-----------------------------------------------------------------------------
(* Comparisons, and the class of a float.                                    *)

\* Unordered: the signalling comparisons complain of every NaN.
Unordered(F, quiet, a, b) ==
  Raised(FALSE, If(~quiet \/ isSigNaNUI(F, a) \/ isSigNaNUI(F, b), "invalid"))
AnyNaN(F, a, b) == isNaNUI(F, a) \/ isNaNUI(F, b)
BothZero(F, a, b) == a % Top(F) = 0 /\ b % Top(F) = 0
eq(F, quiet, a, b) ==
  IF AnyNaN(F, a, b) THEN Unordered(F, quiet, a, b) ELSE Z(a = b \/ BothZero(F, a, b))
le(F, quiet, a, b) ==
  IF AnyNaN(F, a, b) THEN Unordered(F, quiet, a, b)
  ELSE IF signUI(F, a) # signUI(F, b) THEN Z(signUI(F, a) = 1 \/ BothZero(F, a, b))
  ELSE Z(a = b \/ (signUI(F, a) = 1) # (a < b))
lt(F, quiet, a, b) ==
  IF AnyNaN(F, a, b) THEN Unordered(F, quiet, a, b)
  ELSE IF signUI(F, a) # signUI(F, b) THEN Z(signUI(F, a) = 1 /\ ~BothZero(F, a, b))
  ELSE Z(a # b /\ (signUI(F, a) = 1) # (a < b))
f32_eq(a, b) == eq(F32, TRUE, a, b)
f32_eq_signaling(a, b) == eq(F32, FALSE, a, b)
f32_le(a, b) == le(F32, FALSE, a, b)
f32_le_quiet(a, b) == le(F32, TRUE, a, b)
f32_lt(a, b) == lt(F32, FALSE, a, b)
f32_lt_quiet(a, b) == lt(F32, TRUE, a, b)
f64_eq(a, b) == eq(F64, TRUE, a, b)
f64_eq_signaling(a, b) == eq(F64, FALSE, a, b)
f64_le(a, b) == le(F64, FALSE, a, b)
f64_le_quiet(a, b) == le(F64, TRUE, a, b)
f64_lt(a, b) == lt(F64, FALSE, a, b)
f64_lt_quiet(a, b) == lt(F64, TRUE, a, b)

\* The set of the bits set in the class mask.
classify(F, a) ==
  LET neg == signUI(F, a) = 1
      infOrNaN == expUI(F, a) = ExpMax(F)
      subnormalOrZero == expUI(F, a) = 0
      frac == fracUI(F, a) # 0
      Is(bit, c) == IF c THEN {bit} ELSE {}
  IN Is(0, neg /\ infOrNaN /\ ~frac) \cup Is(1, neg /\ ~infOrNaN /\ ~subnormalOrZero)
     \cup Is(2, neg /\ subnormalOrZero /\ frac) \cup Is(3, neg /\ subnormalOrZero /\ ~frac)
     \cup Is(7, ~neg /\ infOrNaN /\ ~frac) \cup Is(6, ~neg /\ ~infOrNaN /\ ~subnormalOrZero)
     \cup Is(5, ~neg /\ subnormalOrZero /\ frac) \cup Is(4, ~neg /\ subnormalOrZero /\ ~frac)
     \cup Is(8, isNaNUI(F, a) /\ isSigNaNUI(F, a)) \cup Is(9, isNaNUI(F, a) /\ ~isSigNaNUI(F, a))
f32_classify(a) == Z(classify(F32, a))
f64_classify(a) == Z(classify(F64, a))
=============================================================================
