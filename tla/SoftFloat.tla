------------------------------ MODULE SoftFloat ------------------------------
(* The floating-point library of the instruction set simulator: the         *)
(* algorithms of softfloat/ as operators.  A float is its bit pattern, a     *)
(* natural number; a format F has F.e exponent and F.s fraction bits and is   *)
(* computed in words of Width(F) = 1 + F.e + F.s bits (32 and 64 in the code). *)
(* An operator with a format parameter is the body that the f32 and the f64   *)
(* function share up to their constants; where the two algorithms differ each *)
(* has its own.  Every result is a record: the bits and the flags raised.     *)
(* N32 and N64 are the widths of the integers of the conversions, RB the      *)
(* fraction bits that softfloat_roundPackToI32 takes (7 in the code).         *)
EXTENDS Integers, FiniteSets

CONSTANTS F32, F64, N32, N64, RB

(* What the shift distances below take for granted of the widths.            *)
ASSUME FormatAssumption ==
  /\ \A F \in {F32, F64} : F.e \in Nat /\ F.s \in Nat /\ F.e > 4 /\ F.s >= RB
  /\ F64.e > F32.e /\ F64.s >= F32.s + F32.e - 1
  /\ N32 \in Nat /\ N64 \in Nat /\ RB \in Nat
  /\ F64.s >= N32 + RB /\ N64 > F64.s + 1 /\ N32 > F32.s + 1 /\ RB > 1

Width(F) == 1 + F.e + F.s
Bias(F) == 2^(F.e - 1) - 1
ExpMax(F) == 2^F.e - 1
Hidden(F) == 2^F.s
Rbits(F) == F.e - 1                     \* bits below the last one of a result
Top(F) == 2^(Width(F) - 1)

(* These powers of two are positive numbers: arithmetic, which the proofs    *)
(* cite because no prover they use knows powers.                             *)
ASSUME PowersAssumption ==
  \A F \in {F32, F64} :
    /\ 2^F.e \in Nat \ {0} /\ Hidden(F) \in Nat \ {0} /\ Top(F) \in Nat \ {0}
    /\ 2^(F.e - 1) \in Nat \ {0}

signUI(F, a) == a \div Top(F)
expUI(F, a) == (a \div Hidden(F)) % 2^F.e
fracUI(F, a) == a % Hidden(F)
packToUI(F, sign, exp, sig) == (sign * Top(F) + exp * Hidden(F) + sig) % 2^Width(F)
isNaNUI(F, a) == expUI(F, a) = ExpMax(F) /\ fracUI(F, a) # 0
isSigNaNUI(F, a) == isNaNUI(F, a) /\ fracUI(F, a) < Hidden(F) \div 2
defaultNaN(F) == packToUI(F, 0, ExpMax(F), Hidden(F) \div 2)

Z(v) == [v |-> v, fl |-> {}]
Raised(v, flags) == [v |-> v, fl |-> flags]
If(c, flag) == IF c THEN {flag} ELSE {}
XorSign(p, q) == (p + q) % 2
AsBit(c) == IF c THEN 1 ELSE 0
Or1(n, c) == IF c /\ n % 2 = 0 THEN n + 1 ELSE n

Infinity(F, sign) == Z(packToUI(F, sign, ExpMax(F), 0))
Zero(F, sign) == Z(packToUI(F, sign, 0, 0))
Invalid(F) == Raised(defaultNaN(F), {"invalid"})

-----------------------------------------------------------------------------
(* The primitives.                                                           *)

\* With a count of zero the complementary shift keeps every bit of a.
Lost(a, count) == IF count = 0 THEN a # 0 ELSE a % 2^count # 0
\* Mutant: what is shifted out is forgotten.
shiftRightJam_Drop(w, a, count) == IF count < w - 1 THEN a \div 2^count ELSE 0
shiftRightJam(w, a, count) ==
  IF count < w - 1 THEN Or1(a \div 2^count, Lost(a, count)) ELSE AsBit(a # 0)
softfloat_shiftRightJam64(a, count) == shiftRightJam(Width(F64), a, count)
shortShiftRightJam64(a, count) == Or1(a \div 2^count, a % 2^count # 0)
softfloat_shiftRightJam128(a, count) == shiftRightJam(2 * Width(F64), a, count)
softfloat_shiftRightJam64Extra(a, count) ==
  IF count < N64
    THEN [v |-> a \div 2^count, extra |-> (a * 2^((N64 - count) % N64)) % 2^N64]
    ELSE [v |-> 0, extra |-> IF count = N64 THEN a ELSE AsBit(a # 0)]
countLeadingZeros(w, a) == Cardinality({k \in 0..(w - 1) : a < 2^k})

softfloat_propagateNaN(F, a, b) ==
  Raised(defaultNaN(F), If(isSigNaNUI(F, a) \/ isSigNaNUI(F, b), "invalid"))
softfloat_propagateNaNF64UI(a, b) == softfloat_propagateNaN(F64, a, b)

normSubnormalSig(F, sig) ==
  LET n == countLeadingZeros(Width(F), sig) - (Width(F) - 1 - F.s)
  IN [exp |-> 1 - n, sig |-> sig * 2^n]
softfloat_normSubnormalF64Sig(sig) == normSubnormalSig(F64, sig)

\* The exponent and the significand, with the hidden bit, of a number not zero.
Norm(F, a) ==
  IF expUI(F, a) = 0
    THEN IF F = F64 THEN softfloat_normSubnormalF64Sig(fracUI(F, a))
                    ELSE normSubnormalSig(F, fracUI(F, a))
    ELSE [exp |-> expUI(F, a), sig |-> fracUI(F, a) + Hidden(F)]
IsZero(F, a) == expUI(F, a) = 0 /\ fracUI(F, a) = 0
IsInf(F, a) == expUI(F, a) = ExpMax(F) /\ fracUI(F, a) = 0

-----------------------------------------------------------------------------
(* Rounding and packing.  sig has its leading bit just below the top one, or  *)
(* is smaller when exp is negative.                                           *)

Increment(rm, sign, bits) ==
  CASE rm \in {"near_even", "near_maxMag"} -> 2^(bits - 1)
    [] rm = (IF sign = 1 THEN "min" ELSE "max") -> 2^bits - 1
    [] OTHER -> 0
\* Of two equally near results the even one.
Evened(rm, sig, roundBits, bits) ==
  IF rm = "near_even" /\ roundBits = 2^(bits - 1) THEN sig - (sig % 2) ELSE sig

roundPack(F, rm, sign, exp, sig) ==
  LET inc == Increment(rm, sign, Rbits(F))
      isTiny == exp < -1 \/ sig + inc < Top(F)
      shifted == IF exp < 0 THEN shiftRightJam(Width(F), sig, -exp) ELSE sig
      roundBits == shifted % 2^Rbits(F)
      sigZ == Evened(rm, (shifted + inc) \div 2^Rbits(F), roundBits, Rbits(F))
  IN IF \/ exp > ExpMax(F) - 2
        \/ exp = ExpMax(F) - 2 /\ Top(F) <= sig + inc
     THEN Raised(packToUI(F, sign, ExpMax(F), 0) - AsBit(inc = 0), {"overflow", "inexact"})
     ELSE Raised(packToUI(F, sign, IF sigZ = 0 \/ exp < 0 THEN 0 ELSE exp, sigZ),
                 If(exp < 0 /\ isTiny /\ roundBits # 0, "underflow")
                   \cup If(roundBits # 0, "inexact"))

softfloat_roundPackToF64(rm, sign, exp, sig) == roundPack(F64, rm, sign, exp, sig)

normRoundPack(F, rm, sign, exp, sig) ==
  LET n == countLeadingZeros(Width(F), sig) - 1
  IN IF Rbits(F) <= n /\ exp - n \in 0..(ExpMax(F) - 3)
       THEN Z(packToUI(F, sign, IF sig = 0 THEN 0 ELSE exp - n, sig * 2^(n - Rbits(F))))
       ELSE roundPack(F, rm, sign, exp - n, sig * 2^n)
softfloat_normRoundPackToF64(rm, sign, exp, sig) == normRoundPack(F64, rm, sign, exp, sig)

-----------------------------------------------------------------------------
(* Addition and subtraction.                                                 *)

addMags(F, rm, a, b, signZ) ==
  LET expA == expUI(F, a)  expB == expUI(F, b)
      d == expA - expB
      sigA == fracUI(F, a) * 2^(Rbits(F) - 1)
      sigB == fracUI(F, b) * 2^(Rbits(F) - 1)
      one == 2^(Width(F) - 3)
      Aligned(exp, sig) ==
        shiftRightJam(Width(F), sig + (IF exp = 0 THEN sig ELSE one), IF d < 0 THEN -d ELSE d)
      sum == one + (IF d < 0 THEN Aligned(expA, sigA) + sigB ELSE sigA + Aligned(expB, sigB))
      expZ == IF d < 0 THEN expB ELSE expA
  IN CASE isNaNUI(F, a) \/ isNaNUI(F, b) -> softfloat_propagateNaN(F, a, b)
       [] d = 0 /\ expA = ExpMax(F) -> Z(a)
       [] d = 0 /\ expA = 0 -> Z(packToUI(F, signZ, 0, (a + b) % Top(F)))
       [] d = 0 /\ expA \notin {0, ExpMax(F)} ->
            roundPack(F, rm, signZ, expA, 2 * one + sigA + sigB)
       [] d # 0 /\ expZ = ExpMax(F) -> Infinity(F, signZ)
       [] OTHER -> IF sum < 2 * one THEN roundPack(F, rm, signZ, expZ - 1, 2 * sum)
                                    ELSE roundPack(F, rm, signZ, expZ, sum)
softfloat_addMagsF64(rm, a, b, signZ) == addMags(F64, rm, a, b, signZ)

subMags(F, rm, a, b, signZ) ==
  LET expA == expUI(F, a)  expB == expUI(F, b)
      d == expA - expB
      sigA == fracUI(F, a) * 2^Rbits(F)
      sigB == fracUI(F, b) * 2^Rbits(F)
      one == 2^(Width(F) - 2)
      Aligned(exp, sig) ==
        shiftRightJam(Width(F), sig + (IF exp = 0 THEN sig ELSE one), IF d < 0 THEN -d ELSE d)
      Pack(sign, exp, sig) == normRoundPack(F, rm, sign, exp - 1, sig)
      exp0 == IF expA = 0 THEN 1 ELSE expA
  IN CASE isNaNUI(F, a) \/ isNaNUI(F, b) -> softfloat_propagateNaN(F, a, b)
       [] d = 0 /\ expA = ExpMax(F) -> Invalid(F)
       [] d = 0 /\ expA < ExpMax(F) /\ sigB < sigA -> Pack(signZ, exp0, sigA - sigB)
       [] d = 0 /\ expA < ExpMax(F) /\ sigA < sigB -> Pack(1 - signZ, exp0, sigB - sigA)
       [] d = 0 /\ expA < ExpMax(F) /\ sigA = sigB -> Zero(F, AsBit(rm = "min"))
       [] d < 0 -> IF expB = ExpMax(F) THEN Infinity(F, 1 - signZ)
                   ELSE Pack(1 - signZ, expB, sigB + one - Aligned(expA, sigA))
       [] d > 0 -> IF expA = ExpMax(F) THEN Z(a)
                   ELSE Pack(signZ, expA, sigA + one - Aligned(expB, sigB))
softfloat_subMagsF64(rm, a, b, signZ) == subMags(F64, rm, a, b, signZ)

f32_add(rm, a, b) ==
  IF signUI(F32, a) = signUI(F32, b) THEN addMags(F32, rm, a, b, signUI(F32, a))
                                     ELSE subMags(F32, rm, a, b, signUI(F32, a))
f32_sub(rm, a, b) ==
  IF signUI(F32, a) = signUI(F32, b) THEN subMags(F32, rm, a, b, signUI(F32, a))
                                     ELSE addMags(F32, rm, a, b, signUI(F32, a))
f64_add(rm, a, b) ==
  IF signUI(F64, a) = signUI(F64, b) THEN softfloat_addMagsF64(rm, a, b, signUI(F64, a))
                                     ELSE softfloat_subMagsF64(rm, a, b, signUI(F64, a))
f64_sub(rm, a, b) ==
  IF signUI(F64, a) = signUI(F64, b) THEN softfloat_subMagsF64(rm, a, b, signUI(F64, a))
                                     ELSE softfloat_addMagsF64(rm, a, b, signUI(F64, a))

-----------------------------------------------------------------------------
(* Multiplication, division and square root.                                 *)

\* The special cases of a product; what is left over is finite and not zero.
ProductOfSpecials(F, a, b, signZ) ==
  CASE isNaNUI(F, a) \/ isNaNUI(F, b) -> softfloat_propagateNaN(F, a, b)
    [] IsInf(F, a) /\ ~isNaNUI(F, b) ->
         IF IsZero(F, b) THEN Invalid(F) ELSE Infinity(F, signZ)
    [] IsInf(F, b) /\ ~IsInf(F, a) /\ ~isNaNUI(F, a) ->
         IF IsZero(F, a) THEN Invalid(F) ELSE Infinity(F, signZ)
    [] OTHER -> Zero(F, signZ)
Special(F, a) == expUI(F, a) = ExpMax(F) \/ IsZero(F, a)

mulF(F, rm, a, b) ==
  LET signZ == XorSign(signUI(F, a), signUI(F, b))
      x == Norm(F, a)  y == Norm(F, b)
      expZ == x.exp + y.exp - Bias(F)
      sigZ == shortShiftRightJam64((x.sig * 2^Rbits(F)) * (y.sig * 2^(Rbits(F) + 1)), Width(F))
  IN IF Special(F, a) \/ Special(F, b) THEN ProductOfSpecials(F, a, b, signZ)
     ELSE IF sigZ < Top(F) \div 2 THEN roundPack(F, rm, signZ, expZ - 1, 2 * sigZ)
     ELSE roundPack(F, rm, signZ, expZ, sigZ)
f32_mul(rm, a, b) == mulF(F32, rm, a, b)
f64_mul(rm, a, b) == mulF(F64, rm, a, b)

QuotientOfSpecials(F, a, b, signZ) ==
  CASE isNaNUI(F, a) \/ isNaNUI(F, b) -> softfloat_propagateNaN(F, a, b)
    [] IsInf(F, a) /\ IsInf(F, b) -> Invalid(F)
    [] IsInf(F, a) /\ expUI(F, b) < ExpMax(F) -> Infinity(F, signZ)
    [] IsInf(F, b) /\ expUI(F, a) < ExpMax(F) -> Zero(F, signZ)
    [] IsZero(F, b) /\ IsZero(F, a) -> Invalid(F)
    [] IsZero(F, b) /\ ~Special(F, a) ->
         Raised(Infinity(F, signZ).v, {"infinite"})
    [] IsZero(F, a) /\ ~Special(F, b) -> Zero(F, signZ)

\* The exponent and the scaled dividend of a quotient between one half and one.
Dividend(F, x, y) ==
  IF x.sig < y.sig
    THEN [exp |-> x.exp - y.exp + Bias(F) - 2, sig |-> x.sig * 2^(Width(F) - 1)]
    ELSE [exp |-> x.exp - y.exp + Bias(F) - 1, sig |-> x.sig * 2^(Width(F) - 2)]

f32_div(rm, a, b) ==
  LET signZ == XorSign(signUI(F32, a), signUI(F32, b))
      y == Norm(F32, b)
      n == Dividend(F32, Norm(F32, a), y)
      q == n.sig \div y.sig
      sigZ == Or1(q, q % 2^(Rbits(F32) - 1) = 0 /\ q * y.sig # n.sig)
  IN IF Special(F32, a) \/ Special(F32, b) THEN QuotientOfSpecials(F32, a, b, signZ)
     ELSE roundPack(F32, rm, signZ, n.exp, sigZ)

\* The quotient is first estimated from a reciprocal; est is how far above it
\* the estimate lies, less than 2^(Rbits - 4) above the exact value, and is
\* corrected only where the bits to round could tell.
Slip(isExact, est, slack) == IF isExact THEN est % slack ELSE est % (slack + 1)
DivSlack == 2^(Rbits(F64) - 4)
f64_div(rm, a, b, est) ==
  LET signZ == XorSign(signUI(F64, a), signUI(F64, b))
      y == Norm(F64, b)
      n == Dividend(F64, Norm(F64, a), y)
      z == n.sig \div y.sig + Slip(n.sig % y.sig = 0, est, DivSlack)
      cut == z - (z % (2 * DivSlack))
      sigZ == IF z % 2^(Rbits(F64) - 1) >= DivSlack THEN z
              ELSE IF cut * y.sig > n.sig THEN cut - 2 * DivSlack
              ELSE Or1(cut, cut * y.sig # n.sig)
  IN IF Special(F64, a) \/ Special(F64, b) THEN QuotientOfSpecials(F64, a, b, signZ)
     ELSE softfloat_roundPackToF64(rm, signZ, n.exp, sigZ)

RootOfSpecials(F, a) ==
  CASE isNaNUI(F, a) -> softfloat_propagateNaN(F, a, 0)
    [] IsZero(F, a) \/ (IsInf(F, a) /\ signUI(F, a) = 0) -> Z(a)
    [] OTHER -> Invalid(F)
Radicand(F, x) ==
  x.sig * 2^(2 * (Width(F) - 2) - F.s) * (IF x.exp % 2 = 1 THEN 1 ELSE 2)
RootExp(F, x) == (x.exp - Bias(F)) \div 2 + Bias(F) - 1
ISqrt(n) == LET Root[b \in Nat, lo \in Nat] ==    \* lo plus the bits below b
                  IF b = 0 THEN lo
                  ELSE LET try == lo + 2^(b - 1)
                       IN Root[b - 1, IF try * try <= n THEN try ELSE lo]
            IN Root[15, 0]

\* The root is estimated too: est above the root rounded down.
f32_sqrt(rm, a, est) ==
  LET x == Norm(F32, a)
      n == Radicand(F32, x)
      z == ISqrt(n) + Slip(ISqrt(n) * ISqrt(n) = n, est, 2)
      cut == z - (z % 4)
      sigZ == IF z % 2^(Rbits(F32) - 1) >= 2 THEN z
              ELSE IF cut * cut < n THEN cut + 1
              ELSE cut - AsBit(cut * cut # n)
  IN IF Special(F32, a) \/ signUI(F32, a) = 1 THEN RootOfSpecials(F32, a)
     ELSE roundPack(F32, rm, 0, RootExp(F32, x), sigZ)

SqrtSlack == 2^(Rbits(F64) - 5)
f64_sqrt(rm, a, est) ==
  LET x == Norm(F64, a)
      n == Radicand(F64, x)
      z == ISqrt(n) + Slip(ISqrt(n) * ISqrt(n) = n, est, SqrtSlack)
      cut == z - (z % (2 * SqrtSlack))
      sigZ == IF z % 2^(Rbits(F64) - 1) >= SqrtSlack THEN z
              ELSE IF cut * cut > n THEN cut - 1
              ELSE Or1(cut, cut * cut # n)
  IN IF Special(F64, a) \/ signUI(F64, a) = 1 THEN RootOfSpecials(F64, a)
     ELSE softfloat_roundPackToF64(rm, 0, RootExp(F64, x), sigZ)
=============================================================================
