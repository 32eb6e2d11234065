---------------------------- MODULE SoftFloatOps ----------------------------
(* Fused multiply-add, remainder, rounding to an integer, the conversions    *)
(* between floats and integers, and the comparisons of softfloat/.           *)
EXTENDS SoftFloat

-----------------------------------------------------------------------------
(* a * b + c with one rounding.                                              *)

\* The cases that need no arithmetic: NaNs, infinities, a zero product.
MulAddSpecial(F, a, b, c) == \/ \E x \in {a, b, c} : expUI(F, x) = ExpMax(F)
                             \/ IsZero(F, a) \/ IsZero(F, b)
mulAddSpecials(F, rm, a, b, c, signProd) ==
  LET signC == signUI(F, c)
      \* propagateNaN_ZC: a NaN made by the product meets c.
      WithC(z) == Raised(defaultNaN(F), z.fl \cup softfloat_propagateNaN(F, z.v, c).fl)
      inf == Infinity(F, signProd)
  IN CASE isNaNUI(F, a) \/ isNaNUI(F, b) -> WithC(softfloat_propagateNaN(F, a, b))
       [] ~isNaNUI(F, a) /\ ~isNaNUI(F, b) /\ (IsInf(F, a) \/ IsInf(F, b)) ->
            IF IsZero(F, a) \/ IsZero(F, b) THEN WithC(Invalid(F))
            ELSE IF isNaNUI(F, c) THEN WithC(inf)
            ELSE IF IsInf(F, c) /\ signC # signProd THEN WithC(Invalid(F))
            ELSE inf
       [] OTHER ->
            IF isNaNUI(F, c) THEN WithC(Z(0))
            ELSE IF IsZero(F, c) /\ signC # signProd THEN Zero(F, AsBit(rm = "min"))
            ELSE Z(c)

\* The significand and exponent of the product of two numbers, both scaled.
Product(F, x, y) ==
  LET raw == (x.sig * 2^Rbits(F)) * (y.sig * 2^Rbits(F))
      isShort == raw < 2^(2 * Width(F) - 3)
  IN [sig |-> IF isShort THEN 2 * raw ELSE raw,
      exp |-> x.exp + y.exp - Bias(F) + AsBit(~isShort)]
\* The scaled c that is added to it.
Addend(F, n) == [sig |-> n.sig * 2^(Rbits(F) - 1), exp |-> n.exp]
SumRounded(F, rm, sign, exp, sum) ==
  IF sum < Top(F) \div 2 THEN roundPack(F, rm, sign, exp - 1, 2 * sum)
                         ELSE roundPack(F, rm, sign, exp, sum)

DiffRoundedF32(rm, sign, exp, mag) ==
  LET F == F32
      k == countLeadingZeros(2 * Width(F), mag) - 1
  IN IF mag = 0 THEN Zero(F, AsBit(rm = "min"))
     ELSE roundPack(F, rm, sign, exp - k,
                    IF k < Width(F) THEN shortShiftRightJam64(mag, Width(F) - k)
                                    ELSE mag * 2^(k - Width(F)))
AddedF32(rm, signP, p, signC, c) ==
  LET F == F32
      W == 2^Width(F)
      d == p.exp - c.exp
      exp == IF d <= 0 THEN c.exp ELSE p.exp
      Jam(sig, count) == shiftRightJam(2 * Width(F), sig, count)
      Diff(sign, diff) == DiffRoundedF32(rm, XorSign(sign, AsBit(diff < 0)), exp,
                                         IF diff < 0 THEN -diff ELSE diff)
  IN IF signP = signC
     THEN SumRounded(F, rm, signP, exp,
            IF d <= 0 THEN c.sig + Jam(p.sig, Width(F) - d)
            ELSE shortShiftRightJam64(p.sig + Jam(c.sig * W, d), Width(F)))
     ELSE IF d < 0 THEN Diff(signC, c.sig * W - Jam(p.sig, -d))
     ELSE Diff(signP, p.sig - IF d = 0 THEN c.sig * W ELSE Jam(c.sig * W, d))
softfloat_mulAddF32(rm, a, b, c) ==
  LET F == F32
      signP == XorSign(signUI(F, a), signUI(F, b))
      p == Product(F, Norm(F, a), Norm(F, b))
  IN IF MulAddSpecial(F, a, b, c) THEN mulAddSpecials(F, rm, a, b, c, signP)
     ELSE IF IsZero(F, c)
     THEN roundPack(F, rm, signP, p.exp - 1, shortShiftRightJam64(p.sig, Width(F) - 1))
     ELSE AddedF32(rm, signP, p, signUI(F, c), Addend(F, Norm(F, c)))

\* The 128-bit product is one number here; its high word is Hi, its low word Lo.
Hi(z) == z \div 2^Width(F64)
Lo(z) == z % 2^Width(F64)
HiJam(z) == Or1(Hi(z), Lo(z) # 0)
LiftedF64(rm, sign, exp, mag) ==
  LET k == countLeadingZeros(Width(F64), Hi(mag)) - 1
  IN softfloat_roundPackToF64(rm, sign, exp - k,
       IF k < 0 THEN Or1(shortShiftRightJam64(Hi(mag), -k), Lo(mag) # 0)
                ELSE HiJam(mag * 2^k))
DiffRoundedF64(rm, sign, exp, mag) ==
  IF mag = 0 THEN Zero(F64, AsBit(rm = "min"))
  ELSE IF Hi(mag) = 0 THEN LiftedF64(rm, sign, exp - Width(F64), mag * 2^Width(F64))
  ELSE LiftedF64(rm, sign, exp, mag)
AddedF64(rm, signP, p, signC, c) ==
  LET W == 2^Width(F64)
      d == p.exp - c.exp
      exp == IF d < 0 THEN c.exp ELSE p.exp
      \* Only the high word is shifted unless the difference needs the low one.
      aligned == IF d >= 0 THEN p.sig
                 ELSE IF signP = signC \/ d < -1
                 THEN softfloat_shiftRightJam64(Hi(p.sig), -d) * W + Lo(p.sig)
                 ELSE shortShiftRightJam64(p.sig, 1)
      alignedC == IF d > 0 THEN softfloat_shiftRightJam128(c.sig * W, d) ELSE c.sig * W
      Diff(sign, diff) == DiffRoundedF64(rm, XorSign(sign, AsBit(diff < 0)), exp,
                                         IF diff < 0 THEN -diff ELSE diff)
  IN IF signP = signC THEN SumRounded(F64, rm, signP, exp, HiJam(aligned + alignedC))
     ELSE IF d < 0 THEN Diff(signC, alignedC - aligned)
     ELSE Diff(signP, aligned - alignedC)
softfloat_mulAddF64(rm, a, b, c) ==
  LET F == F64
      signP == XorSign(signUI(F, a), signUI(F, b))
      p == Product(F, Norm(F, a), Norm(F, b))
  IN IF MulAddSpecial(F, a, b, c) THEN mulAddSpecials(F, rm, a, b, c, signP)
     ELSE IF IsZero(F, c)
     THEN softfloat_roundPackToF64(rm, signP, p.exp - 1, Or1(2 * Hi(p.sig), Lo(p.sig) # 0))
     ELSE AddedF64(rm, signP, p, signUI(F, c), Addend(F, Norm(F, c)))

f32_mulAdd(rm, a, b, c) == softfloat_mulAddF32(rm, a, b, c)
f64_mulAdd(rm, a, b, c) == softfloat_mulAddF64(rm, a, b, c)

-----------------------------------------------------------------------------
(* The remainder.  The loop that divides a few bits at a time leaves          *)
(* a * 2^d - q * b with q the quotient, short of it by miss.                  *)

PowMod(m, d, n) == LET P[k \in Nat] == IF k = 0 THEN m % n ELSE (2 * P[k - 1]) % n IN P[d]
RemSpecial(F, a, b) == expUI(F, a) = ExpMax(F) \/ expUI(F, b) = ExpMax(F)
                       \/ IsZero(F, a) \/ IsZero(F, b)
remOfSpecials(F, a, b) ==
  CASE isNaNUI(F, a) \/ isNaNUI(F, b) -> softfloat_propagateNaN(F, a, b)
    [] IsInf(F, a) /\ ~isNaNUI(F, b) -> Invalid(F)
    [] IsInf(F, b) /\ expUI(F, a) < ExpMax(F) -> Z(a)
    [] IsZero(F, b) /\ expUI(F, a) < ExpMax(F) -> Invalid(F)
    [] IsZero(F, a) /\ ~IsZero(F, b) /\ expUI(F, b) < ExpMax(F) -> Z(a)

\* From a remainder and the parity of its quotient to the nearest one; of two
\* equally near the one with the even quotient.
selectRem(F, rm, signA, expB, rem, odd, sigB) ==
  LET n == rem \div sigB                          \* turns that stay positive
      low == IF rem < 0 THEN rem ELSE rem - (n + 1) * sigB
      alt == low + sigB
      q == IF rem < 0 THEN odd ELSE (odd + n + 1) % 2
      mean == low + alt
      r == IF mean < 0 \/ (mean = 0 /\ q = 1) THEN alt ELSE low
  IN normRoundPack(F, rm, XorSign(signA, AsBit(r < 0)), expB, IF r < 0 THEN -r ELSE r)

remainder(F, rm, a, b, miss) ==
  LET x == Norm(F, a)  y == Norm(F, b)
      d == x.exp - y.exp
      k == 2^(Rbits(F) - 1)
      twice == PowMod(x.sig, d, 2 * y.sig)        \* the quotient's parity too
      odd == twice \div y.sig
      m == IF d < 1 THEN 0 ELSE miss
  IN IF RemSpecial(F, a, b) THEN remOfSpecials(F, a, b)
     ELSE IF d < -1 THEN Z(a)
     ELSE IF d = -1
     THEN selectRem(F, rm, signUI(F, a), y.exp, x.sig * (k \div 2), 0, y.sig * k)
     ELSE selectRem(F, rm, signUI(F, a), y.exp, ((twice % y.sig) + m * y.sig) * k,
                    (odd + (IF m < 0 THEN -m ELSE m)) % 2, y.sig * k)
f32_rem(rm, a, b, miss) == remainder(F32, rm, a, b, miss)
f64_rem(rm, a, b, miss) == remainder(F64, rm, a, b, miss)

-----------------------------------------------------------------------------
(* Rounding to an integral float.                                            *)

roundToInt(F, rm, exact, a) ==
  LET exp == expUI(F, a)  sign == signUI(F, a)
      one == packToUI(F, sign, Bias(F), 0)
      zero == packToUI(F, sign, 0, 0)
      isHalf == exp = Bias(F) - 1
      small == CASE rm = "near_even" -> IF isHalf /\ fracUI(F, a) # 0 THEN one ELSE zero
                 [] rm = "near_maxMag" -> IF isHalf THEN one ELSE zero
                 [] rm = "min" -> IF sign = 1 THEN one ELSE zero
                 [] rm = "max" -> IF sign = 0 THEN one ELSE zero
                 [] rm = "minMag" -> zero
      last == 2^(Bias(F) + F.s - exp)
      up == CASE rm = "near_maxMag" -> a + last \div 2
              [] rm = "near_even" ->
                   LET z == a + last \div 2
                   IN IF z % last = 0 /\ (z \div last) % 2 = 1 THEN z - last ELSE z
              [] rm = "minMag" -> a
              [] rm \in {"min", "max"} ->
                   IF sign = AsBit(rm = "max") THEN a ELSE a + last - 1
      uiZ == up - (up % last)
  IN CASE exp <= Bias(F) - 1 ->
            IF IsZero(F, a) THEN Z(a) ELSE Raised(small, If(exact, "inexact"))
       [] exp >= Bias(F) + F.s ->
            IF isNaNUI(F, a) THEN softfloat_propagateNaN(F, a, 0) ELSE Z(a)
       [] OTHER -> Raised(uiZ, If(exact /\ uiZ # a, "inexact"))
f32_roundToInt(rm, exact, a) == roundToInt(F32, rm, exact, a)
f64_roundToInt(rm, exact, a) == roundToInt(F64, rm, exact, a)
=============================================================================
