------------------------------- MODULE FpProofs -------------------------------
(***************************************************************************)
(* Theorem about FpUnit, for every pair of formats, integer widths and     *)
(* every call: the flags of softfloat end in fflags, and what a context    *)
(* switch does not save is what was saved.  What the numeric functions      *)
(* compute is not its subject; only that each of their paths ends in a      *)
(* result with a set of the five flags.                                    *)
(***************************************************************************)
EXTENDS FpUnit, TLAPS

(* What a function of the library returns: a value and flags that there are. *)
Known(r) == \E v, fl : r = Raised(v, fl) /\ fl \subseteq FlagNames

LEMMA RaisedParts ==
  ASSUME NEW v, NEW fl
  PROVE  /\ Raised(v, fl).v = v /\ Raised(v, fl).fl = fl
         /\ \A w : [Raised(v, fl) EXCEPT !.v = w] = Raised(w, fl)
BY DEF Raised

LEMMA KnownFlags ==
  ASSUME NEW r, Known(r)
  PROVE  /\ r.fl \subseteq FlagNames
         /\ \A v : [r EXCEPT !.v = v].fl \subseteq FlagNames
<1>1. PICK w, fl : r = Raised(w, fl) /\ fl \subseteq FlagNames
  BY DEF Known
<1> QED BY <1>1, RaisedParts

LEMMA KnownRaised ==
  ASSUME NEW v, NEW fl \in SUBSET FlagNames
  PROVE  Known(Raised(v, fl))
BY DEF Known

LEMMA IfFlag ==
  ASSUME NEW c, NEW flag \in FlagNames
  PROVE  If(c, flag) \in SUBSET FlagNames
BY DEF If

LEMMA ZKnown ==
  ASSUME NEW v
  PROVE  Z(v) = Raised(v, {}) /\ Known(Z(v))
<1>1. Z(v) = Raised(v, {})
  BY DEF Z, Raised
<1> QED BY <1>1, KnownRaised

(* The constant results, and a NaN passed on.                              *)
LEMMA SpecialsKnown ==
  ASSUME NEW F, NEW sign, NEW a, NEW b
  PROVE  /\ Known(Infinity(F, sign)) /\ Known(Zero(F, sign)) /\ Known(Invalid(F))
         /\ Known(softfloat_propagateNaN(F, a, b))
<1>1. {"invalid"} \in SUBSET FlagNames /\ "invalid" \in FlagNames
  BY DEF FlagNames
<1>2. Known(Infinity(F, sign)) /\ Known(Zero(F, sign))
  BY ZKnown DEF Infinity, Zero
<1>3. Known(Invalid(F))
  BY <1>1, KnownRaised DEF Invalid
<1>4. Known(softfloat_propagateNaN(F, a, b))
  BY <1>1, IfFlag, KnownRaised DEF softfloat_propagateNaN
<1> QED BY <1>2, <1>3, <1>4

(* Rounding.                                                               *)
LEMMA RoundPackKnown ==
  ASSUME NEW F, NEW rm, NEW sign, NEW exp, NEW sig
  PROVE  Known(roundPack(F, rm, sign, exp, sig))
<1>1. {"overflow", "inexact"} \in SUBSET FlagNames
      /\ \A c, d : If(c, "underflow") \cup If(d, "inexact") \in SUBSET FlagNames
  BY DEF FlagNames, If
<1>2. \A v, c, d : Known(Raised(v, If(c, "underflow") \cup If(d, "inexact")))
  BY <1>1, KnownRaised
<1>3. \A v : Known(Raised(v, {"overflow", "inexact"}))
  BY <1>1, KnownRaised
<1> QED BY <1>2, <1>3, Zenon DEF roundPack

LEMMA NormRoundPackKnown ==
  ASSUME NEW F, NEW rm, NEW sign, NEW exp, NEW sig
  PROVE  Known(normRoundPack(F, rm, sign, exp, sig))
BY RoundPackKnown, ZKnown, Zenon DEF normRoundPack

-----------------------------------------------------------------------------
(* The fields of a float.                                                  *)
LEMMA Remainder ==
  ASSUME NEW m \in Nat \ {0}, NEW x \in Int
  PROVE  x % m \in 0 .. m - 1 /\ x \div m \in Int
OBVIOUS

LEMMA FieldRanges ==
  ASSUME NEW F \in {F32, F64}, NEW a \in Int
  PROVE  /\ ExpMax(F) \in Nat /\ expUI(F, a) \in 0 .. ExpMax(F) /\ fracUI(F, a) \in Nat
         /\ Bias(F) \in Int /\ F.s \in Nat
<1> DEFINE p == 2^F.e  h == Hidden(F)  q == 2^(F.e - 1)
<1>1. p \in Nat \ {0} /\ h \in Nat \ {0} /\ q \in Nat \ {0}
  BY PowersAssumption
<1>2. ExpMax(F) = p - 1 /\ expUI(F, a) = (a \div h) % p /\ fracUI(F, a) = a % h /\ Bias(F) = q - 1
  BY Zenon DEF ExpMax, expUI, fracUI, Bias
<1>3. F.s \in Nat
  BY FormatAssumption
<1> HIDE DEF p, h, q
<1>4. a \div h \in Int /\ a % h \in 0 .. h - 1
  BY <1>1, Remainder
<1>5. (a \div h) % p \in 0 .. p - 1
  BY <1>1, <1>4, Remainder
<1> QED BY <1>1, <1>2, <1>3, <1>4, <1>5

(* A NaN, an infinity or a number; nothing else.                           *)
LEMMA Kinds ==
  ASSUME NEW F \in {F32, F64}, NEW a \in Int
  PROVE  \/ isNaNUI(F, a) /\ ~IsInf(F, a)
         \/ IsInf(F, a) /\ ~isNaNUI(F, a)
         \/ expUI(F, a) < ExpMax(F) /\ ~isNaNUI(F, a) /\ ~IsInf(F, a)
<1>1. expUI(F, a) \in Int /\ ExpMax(F) \in Int /\ expUI(F, a) <= ExpMax(F)
  BY FieldRanges
<1> QED BY <1>1 DEF isNaNUI, IsInf

-----------------------------------------------------------------------------
(* Addition and subtraction.                                               *)
LEMMA AddMagsKnown ==
  ASSUME NEW F, NEW rm, NEW a, NEW b, NEW signZ
  PROVE  Known(addMags(F, rm, a, b, signZ))
BY RoundPackKnown, ZKnown, SpecialsKnown, Zenon DEF addMags

LEMMA SubMagsKnown ==
  ASSUME NEW F \in {F32, F64}, NEW rm, NEW a \in Int, NEW b \in Int, NEW signZ
  PROVE  Known(subMags(F, rm, a, b, signZ))
<1> DEFINE expA == expUI(F, a)  expB == expUI(F, b)  d == expA - expB
           q == 2^(F.e - 1)
           sigA == fracUI(F, a) * 2^Rbits(F)  sigB == fracUI(F, b) * 2^Rbits(F)
<1>1. expA \in Nat /\ expB \in Nat /\ ExpMax(F) \in Nat /\ expA <= ExpMax(F)
  BY FieldRanges
<1>2. sigA \in Int /\ sigB \in Int
  <2>1. fracUI(F, a) \in Int /\ fracUI(F, b) \in Int /\ q \in Int
    BY FieldRanges, PowersAssumption
  <2>2. sigA = fracUI(F, a) * q /\ sigB = fracUI(F, b) * q
    BY Zenon DEF Rbits
  <2> HIDE DEF q, sigA, sigB
  <2> QED BY <2>1, <2>2
<1>3. \/ d = 0 /\ expA = ExpMax(F)
      \/ d = 0 /\ expA < ExpMax(F) /\ sigB < sigA
      \/ d = 0 /\ expA < ExpMax(F) /\ sigA < sigB
      \/ d = 0 /\ expA < ExpMax(F) /\ sigA = sigB
      \/ d < 0
      \/ d > 0
  <2> HIDE DEF expA, expB, sigA, sigB
  <2> QED BY <1>1, <1>2
<1>4. \A sign, exp, sig : Known(normRoundPack(F, rm, sign, exp, sig))
  BY NormRoundPackKnown
<1> QED BY <1>3, <1>4, ZKnown, SpecialsKnown, Zenon DEF subMags

LEMMA SumsKnown ==
  ASSUME NEW rm, NEW a \in Int, NEW b \in Int
  PROVE  /\ Known(f32_add(rm, a, b)) /\ Known(f32_sub(rm, a, b))
         /\ Known(f64_add(rm, a, b)) /\ Known(f64_sub(rm, a, b))
<1>1. \A s : /\ Known(addMags(F32, rm, a, b, s)) /\ Known(subMags(F32, rm, a, b, s))
             /\ Known(addMags(F64, rm, a, b, s)) /\ Known(subMags(F64, rm, a, b, s))
  BY AddMagsKnown, SubMagsKnown
<1> QED
  BY <1>1, Zenon
     DEF f32_add, f32_sub, f64_add, f64_sub, softfloat_addMagsF64, softfloat_subMagsF64

-----------------------------------------------------------------------------
(* Multiplication, division and square root.                               *)
LEMMA ProductKnown ==
  ASSUME NEW F, NEW rm, NEW a, NEW b
  PROVE  Known(mulF(F, rm, a, b))
<1>1. \A s : Known(ProductOfSpecials(F, a, b, s))
  BY SpecialsKnown, Zenon DEF ProductOfSpecials
<1> QED BY <1>1, RoundPackKnown, Zenon DEF mulF

(* The special cases of a quotient are all there.                          *)
LEMMA QuotientOfSpecialsKnown ==
  ASSUME NEW F \in {F32, F64}, NEW a \in Int, NEW b \in Int, NEW s,
         Special(F, a) \/ Special(F, b)
  PROVE  Known(QuotientOfSpecials(F, a, b, s))
<1>1. \/ isNaNUI(F, a) \/ isNaNUI(F, b)
      \/ IsInf(F, a) /\ IsInf(F, b)
      \/ IsInf(F, a) /\ expUI(F, b) < ExpMax(F)
      \/ IsInf(F, b) /\ expUI(F, a) < ExpMax(F)
      \/ IsZero(F, b) /\ IsZero(F, a)
      \/ IsZero(F, b) /\ ~Special(F, a)
      \/ IsZero(F, a) /\ ~Special(F, b)
  BY Kinds, Zenon DEF Special, IsInf, isNaNUI
<1>2. {"infinite"} \in SUBSET FlagNames
  BY DEF FlagNames
<1>3. Known(Raised(Infinity(F, s).v, {"infinite"}))
  BY <1>2, KnownRaised
<1> QED BY <1>1, <1>3, SpecialsKnown, Zenon DEF QuotientOfSpecials

LEMMA QuotientsKnown ==
  ASSUME NEW rm, NEW a \in Int, NEW b \in Int, NEW est
  PROVE  Known(f32_div(rm, a, b)) /\ Known(f64_div(rm, a, b, est))
<1>1. \A s : /\ Special(F32, a) \/ Special(F32, b) => Known(QuotientOfSpecials(F32, a, b, s))
             /\ Special(F64, a) \/ Special(F64, b) => Known(QuotientOfSpecials(F64, a, b, s))
  BY QuotientOfSpecialsKnown
<1>2. Known(f32_div(rm, a, b))
  BY <1>1, RoundPackKnown, Zenon DEF f32_div
<1>3. Known(f64_div(rm, a, b, est))
  BY <1>1, RoundPackKnown, Zenon DEF f64_div, softfloat_roundPackToF64
<1> QED BY <1>2, <1>3

LEMMA RootsKnown ==
  ASSUME NEW rm, NEW a, NEW est
  PROVE  Known(f32_sqrt(rm, a, est)) /\ Known(f64_sqrt(rm, a, est))
<1>1. \A F : Known(RootOfSpecials(F, a))
  BY SpecialsKnown, ZKnown, Zenon DEF RootOfSpecials
<1>2. Known(f32_sqrt(rm, a, est))
  BY <1>1, RoundPackKnown, Zenon DEF f32_sqrt
<1>3. Known(f64_sqrt(rm, a, est))
  BY <1>1, RoundPackKnown, Zenon DEF f64_sqrt, softfloat_roundPackToF64
<1> QED BY <1>2, <1>3

-----------------------------------------------------------------------------
(* The fused multiply-add.                                                 *)
LEMMA MulAddSpecialsKnown ==
  ASSUME NEW F, NEW rm, NEW a, NEW b, NEW c, NEW s
  PROVE  Known(mulAddSpecials(F, rm, a, b, c, s))
<1>1. \A z, n : Known(z) =>
         Known(Raised(defaultNaN(F), z.fl \cup softfloat_propagateNaN(F, n, c).fl))
  <2> SUFFICES ASSUME NEW z, NEW n, Known(z)
               PROVE  Known(Raised(defaultNaN(F), z.fl \cup softfloat_propagateNaN(F, n, c).fl))
    OBVIOUS
  <2>1. z.fl \subseteq FlagNames /\ softfloat_propagateNaN(F, n, c).fl \subseteq FlagNames
    BY SpecialsKnown, KnownFlags
  <2>2. z.fl \cup softfloat_propagateNaN(F, n, c).fl \in SUBSET FlagNames
    BY <2>1
  <2> QED BY <2>2, KnownRaised
<1> QED BY <1>1, ZKnown, SpecialsKnown, Zenon DEF mulAddSpecials

LEMMA SumRoundedKnown ==
  ASSUME NEW F, NEW rm, NEW sign, NEW exp, NEW sum
  PROVE  Known(SumRounded(F, rm, sign, exp, sum))
BY RoundPackKnown, Zenon DEF SumRounded

LEMMA DiffRoundedKnown ==
  ASSUME NEW rm, NEW sign, NEW exp, NEW mag
  PROVE  Known(DiffRoundedF32(rm, sign, exp, mag)) /\ Known(DiffRoundedF64(rm, sign, exp, mag))
<1>1. Known(DiffRoundedF32(rm, sign, exp, mag))
  BY RoundPackKnown, SpecialsKnown, Zenon DEF DiffRoundedF32
<1>2. \A e, m : Known(LiftedF64(rm, sign, e, m))
  BY RoundPackKnown, Zenon DEF LiftedF64, softfloat_roundPackToF64
<1>3. Known(DiffRoundedF64(rm, sign, exp, mag))
  BY <1>2, SpecialsKnown, Zenon DEF DiffRoundedF64
<1> QED BY <1>1, <1>3

LEMMA MulAddsKnown ==
  ASSUME NEW rm, NEW a, NEW b, NEW c
  PROVE  Known(f32_mulAdd(rm, a, b, c)) /\ Known(f64_mulAdd(rm, a, b, c))
<1>1. \A s, p, t, n : Known(AddedF32(rm, s, p, t, n))
  <2> SUFFICES ASSUME NEW s, NEW p, NEW t, NEW n
               PROVE  Known(AddedF32(rm, s, p, t, n))
    OBVIOUS
  <2>1. CASE s = t
    <3>1. \A e, m : Known(SumRounded(F32, rm, s, e, m))
      BY SumRoundedKnown
    <3> QED BY <2>1, <3>1, Zenon DEF AddedF32
  <2>2. CASE s # t
    <3>1. \A g, e, m : Known(DiffRoundedF32(rm, g, e, m))
      BY DiffRoundedKnown
    <3> QED BY <2>2, <3>1, Zenon DEF AddedF32
  <2> QED BY <2>1, <2>2
<1>2. \A s, p, t, n : Known(AddedF64(rm, s, p, t, n))
  <2> SUFFICES ASSUME NEW s, NEW p, NEW t, NEW n
               PROVE  Known(AddedF64(rm, s, p, t, n))
    OBVIOUS
  <2>1. CASE s = t
    <3>1. \A e, m : Known(SumRounded(F64, rm, s, e, m))
      BY SumRoundedKnown
    <3> QED BY <2>1, <3>1, Zenon DEF AddedF64
  <2>2. CASE s # t
    <3>1. \A g, e, m : Known(DiffRoundedF64(rm, g, e, m))
      BY DiffRoundedKnown
    <3> QED BY <2>2, <3>1, Zenon DEF AddedF64
  <2> QED BY <2>1, <2>2
<1>3. Known(f32_mulAdd(rm, a, b, c))
  BY <1>1, MulAddSpecialsKnown, RoundPackKnown, Zenon DEF f32_mulAdd, softfloat_mulAddF32
<1>4. Known(f64_mulAdd(rm, a, b, c))
  BY <1>2, MulAddSpecialsKnown, RoundPackKnown, Zenon
     DEF f64_mulAdd, softfloat_mulAddF64, softfloat_roundPackToF64
<1> QED BY <1>3, <1>4

-----------------------------------------------------------------------------
(* The remainder and the rounding to an integral float.                    *)
LEMMA RemaindersKnown ==
  ASSUME NEW rm, NEW a \in Int, NEW b \in Int, NEW miss
  PROVE  Known(f32_rem(rm, a, b, miss)) /\ Known(f64_rem(rm, a, b, miss))
<1>1. ASSUME NEW F \in {F32, F64}
      PROVE  Known(remainder(F, rm, a, b, miss))
  <2>1. ASSUME RemSpecial(F, a, b)
        PROVE  Known(remOfSpecials(F, a, b))
    <3>1. \/ isNaNUI(F, a) \/ isNaNUI(F, b)
          \/ IsInf(F, a) /\ ~isNaNUI(F, b)
          \/ IsInf(F, b) /\ expUI(F, a) < ExpMax(F)
          \/ IsZero(F, b) /\ expUI(F, a) < ExpMax(F)
          \/ IsZero(F, a) /\ ~IsZero(F, b) /\ expUI(F, b) < ExpMax(F)
      BY <2>1, Kinds, Zenon DEF RemSpecial, IsInf, isNaNUI
    <3> QED BY <3>1, ZKnown, SpecialsKnown, Zenon DEF remOfSpecials
  <2>2. \A s, e, r, o, g : Known(selectRem(F, rm, s, e, r, o, g))
    <3> SUFFICES ASSUME NEW s, NEW e, NEW r, NEW o, NEW g
                 PROVE  Known(selectRem(F, rm, s, e, r, o, g))
      OBVIOUS
    <3>1. \A t, n : Known(normRoundPack(F, rm, t, e, n))
      BY NormRoundPackKnown
    <3>2. \E t, n : selectRem(F, rm, s, e, r, o, g) = normRoundPack(F, rm, t, e, n)
      BY SMT DEF selectRem
    <3> QED BY <3>1, <3>2
  <2>3. CASE RemSpecial(F, a, b)
    <3>1. Known(remOfSpecials(F, a, b))
      BY <2>1, <2>3
    <3> QED BY <2>3, <3>1, Zenon DEF remainder
  <2>4. CASE ~RemSpecial(F, a, b)
    <3>1. Known(Z(a))
      BY ZKnown
    <3> QED BY <2>2, <2>4, <3>1, Zenon DEF remainder
  <2> QED BY <2>3, <2>4
<1> QED BY <1>1, Zenon DEF f32_rem, f64_rem

LEMMA InexactKnown ==
  ASSUME NEW v, NEW c
  PROVE  Known(Raised(v, If(c, "inexact"))) /\ Known(Raised(v, If(c, "invalid")))
<1>1. "inexact" \in FlagNames /\ "invalid" \in FlagNames
  BY DEF FlagNames
<1> QED BY <1>1, IfFlag, KnownRaised

LEMMA RoundToIntKnown ==
  ASSUME NEW rm, NEW a
  PROVE  Known(f32_roundToInt(rm, TRUE, a)) /\ Known(f64_roundToInt(rm, TRUE, a))
<1>1. ASSUME NEW F
      PROVE  Known(roundToInt(F, rm, TRUE, a))
  <2>1. \A v, c : Known(Raised(v, If(c, "inexact")))
    BY InexactKnown
  <2>2. Known(Z(a)) /\ Known(softfloat_propagateNaN(F, a, 0))
    BY ZKnown, SpecialsKnown
  <2> QED BY <2>1, <2>2, Zenon DEF roundToInt
<1> QED BY <1>1, Zenon DEF f32_roundToInt, f64_roundToInt

-----------------------------------------------------------------------------
(* From a float to an integer.                                             *)
LEMMA OverflowKnown ==
  ASSUME NEW signed, NEW n, NEW sign
  PROVE  Known(Overflow(signed, n, sign))
<1>1. {"invalid"} \in SUBSET FlagNames
  BY DEF FlagNames
<1> QED BY <1>1, KnownRaised, Zenon DEF Overflow

LEMMA ToIntsKnown ==
  ASSUME NEW rm, NEW a
  PROVE  /\ Known(f32_to_i32(rm, TRUE, a)) /\ Known(f32_to_ui32(rm, TRUE, a))
         /\ Known(f32_to_i64(rm, TRUE, a)) /\ Known(f32_to_ui64(rm, TRUE, a))
         /\ Known(f64_to_i32(rm, TRUE, a)) /\ Known(f64_to_ui32(rm, TRUE, a))
         /\ Known(f64_to_i64(rm, TRUE, a)) /\ Known(f64_to_ui64(rm, TRUE, a))
<1>1. \A s, x : Known(roundPackToI32(rm, TRUE, s, x))
  BY InexactKnown, OverflowKnown, Zenon DEF roundPackToI32
<1>2. \A s, x : Known(roundPackToUI32(rm, TRUE, s, x))
  BY InexactKnown, OverflowKnown, Zenon DEF roundPackToUI32
<1>3. \A s, x : Known(roundPackToI64(rm, TRUE, s, x))
  BY InexactKnown, OverflowKnown, Zenon DEF roundPackToI64
<1>4. \A s, x : Known(roundPackToUI64(rm, TRUE, s, x))
  BY InexactKnown, OverflowKnown, Zenon DEF roundPackToUI64
<1>5. Known(f32_to_i32(rm, TRUE, a)) /\ Known(f64_to_i32(rm, TRUE, a))
  BY <1>1, Zenon DEF f32_to_i32, f64_to_i32
<1>6. Known(f32_to_ui32(rm, TRUE, a)) /\ Known(f64_to_ui32(rm, TRUE, a))
  BY <1>2, Zenon DEF f32_to_ui32, f64_to_ui32
<1>7. Known(f32_to_i64(rm, TRUE, a)) /\ Known(f64_to_i64(rm, TRUE, a))
  BY <1>3, OverflowKnown, Zenon DEF f32_to_i64, f64_to_i64
<1>8. Known(f32_to_ui64(rm, TRUE, a)) /\ Known(f64_to_ui64(rm, TRUE, a))
  BY <1>4, OverflowKnown, Zenon DEF f32_to_ui64, f64_to_ui64
<1> QED BY <1>5, <1>6, <1>7, <1>8

(* Towards zero: what is left of the significand, or nothing of it.        *)
LEMMA TruncationsKnown ==
  ASSUME NEW F, NEW a, NEW sign, NEW sig, NEW dist
  PROVE  Known(Nothing(F, TRUE, a)) /\ Known(Truncated(TRUE, sign, sig, dist))
BY InexactKnown, Zenon DEF Nothing, Truncated

LEMMA MinMagsS ==
  ASSUME NEW a
  PROVE  /\ Known(f32_to_i32_r_minMag(TRUE, a)) /\ Known(f32_to_ui32_r_minMag(TRUE, a))
         /\ Known(f32_to_i64_r_minMag(TRUE, a)) /\ Known(f32_to_ui64_r_minMag(TRUE, a))
<1>1. Known(f32_to_i32_r_minMag(TRUE, a))
  BY TruncationsKnown, OverflowKnown, ZKnown, Zenon DEF f32_to_i32_r_minMag
<1>2. Known(f32_to_ui32_r_minMag(TRUE, a))
  BY TruncationsKnown, OverflowKnown, ZKnown, Zenon DEF f32_to_ui32_r_minMag
<1>3. Known(f32_to_i64_r_minMag(TRUE, a))
  BY TruncationsKnown, OverflowKnown, ZKnown, Zenon DEF f32_to_i64_r_minMag
<1>4. Known(f32_to_ui64_r_minMag(TRUE, a))
  BY TruncationsKnown, OverflowKnown, ZKnown, Zenon DEF f32_to_ui64_r_minMag
<1> QED BY <1>1, <1>2, <1>3, <1>4

LEMMA MinMagsD ==
  ASSUME NEW a \in Int
  PROVE  /\ Known(f64_to_i32_r_minMag(TRUE, a)) /\ Known(f64_to_ui32_r_minMag(TRUE, a))
         /\ Known(f64_to_i64_r_minMag(TRUE, a)) /\ Known(f64_to_ui64_r_minMag(TRUE, a))
<1>1. Known(f64_to_i32_r_minMag(TRUE, a))
  BY TruncationsKnown, OverflowKnown, InexactKnown, Zenon DEF f64_to_i32_r_minMag
<1>2. Known(f64_to_ui32_r_minMag(TRUE, a))
  BY TruncationsKnown, OverflowKnown, Zenon DEF f64_to_ui32_r_minMag
<1>3. Known(f64_to_i64_r_minMag(TRUE, a))
  <2> DEFINE dist == f64_Dist64(a)  low == -(N64 - 2 - F64.s)
  <2>1. dist \in Int
    <3>1. F64 \in {F32, F64}
      OBVIOUS
    <3>2. Bias(F64) \in Int /\ F64.s \in Int /\ expUI(F64, a) \in Int
      BY <3>1, FieldRanges
    <3> QED BY <3>2 DEF f64_Dist64
  <2>2. low \in Int
    BY FormatAssumption
  <2>3. dist < low \/ (dist <= 0 /\ dist >= low) \/ dist > 0
    <3> HIDE DEF dist, low
    <3> QED BY <2>1, <2>2
  <2> QED BY <2>3, TruncationsKnown, OverflowKnown, ZKnown, Zenon DEF f64_to_i64_r_minMag
<1>4. Known(f64_to_ui64_r_minMag(TRUE, a))
  BY TruncationsKnown, OverflowKnown, ZKnown, Zenon DEF f64_to_ui64_r_minMag
<1> QED BY <1>1, <1>2, <1>3, <1>4

-----------------------------------------------------------------------------
(* From an integer, from one float to the other, and comparisons.          *)
LEMMA FromIntsKnown ==
  ASSUME NEW rm, NEW n
  PROVE  /\ Known(i32_to_f32(rm, n)) /\ Known(ui32_to_f32(rm, n))
         /\ Known(i64_to_f32(rm, n)) /\ Known(ui64_to_f32(rm, n))
         /\ Known(i32_to_f64(n)) /\ Known(ui32_to_f64(n))
         /\ Known(i64_to_f64(rm, n)) /\ Known(ui64_to_f64(rm, n))
<1>1. Known(i32_to_f32(rm, n)) /\ Known(ui32_to_f32(rm, n))
  BY RoundPackKnown, NormRoundPackKnown, ZKnown, Zenon DEF i32_to_f32, ui32_to_f32
<1>2. Known(i64_to_f32(rm, n)) /\ Known(ui64_to_f32(rm, n))
  BY RoundPackKnown, ZKnown, Zenon DEF i64_to_f32, ui64_to_f32
<1>3. Known(i32_to_f64(n)) /\ Known(ui32_to_f64(n))
  BY ZKnown, Zenon DEF i32_to_f64, ui32_to_f64
<1>4. Known(i64_to_f64(rm, n)) /\ Known(ui64_to_f64(rm, n))
  BY RoundPackKnown, NormRoundPackKnown, ZKnown, Zenon
     DEF i64_to_f64, ui64_to_f64, softfloat_roundPackToF64, softfloat_normRoundPackToF64
<1> QED BY <1>1, <1>2, <1>3, <1>4

LEMMA ConvertsKnown ==
  ASSUME NEW rm, NEW a
  PROVE  Known(f32_to_f64(a)) /\ Known(f64_to_f32(rm, a))
<1>1. Known(f32_to_f64(a))
  BY InexactKnown, SpecialsKnown, ZKnown, Zenon DEF f32_to_f64
<1>2. Known(f64_to_f32(rm, a))
  BY InexactKnown, SpecialsKnown, RoundPackKnown, Zenon DEF f64_to_f32
<1> QED BY <1>1, <1>2

LEMMA ComparisonsKnown ==
  ASSUME NEW F, NEW q, NEW a, NEW b
  PROVE  Known(eq(F, q, a, b)) /\ Known(le(F, q, a, b)) /\ Known(lt(F, q, a, b))
<1>1. Known(Unordered(F, q, a, b))
  BY InexactKnown, Zenon DEF Unordered
<1> QED BY <1>1, ZKnown, Zenon DEF eq, le, lt

-----------------------------------------------------------------------------
(* The instructions: what they write has the flags of what they call.      *)
Sound(r) == r.fl \subseteq FlagNames

LEMMA WritesSound ==
  ASSUME NEW r, Known(r)
  PROVE  /\ Sound(WRITE_FRD(r)) /\ Sound(WRITE_RD(r))
         /\ \A v : Sound(WRITE_RD([r EXCEPT !.v = v]))
         /\ \A v : Sound(WRITE_FRD([v |-> v, fl |-> r.fl]))
<1>1. r.fl \subseteq FlagNames /\ \A v : [r EXCEPT !.v = v].fl \subseteq FlagNames
  BY KnownFlags
<1>2. \A t : WRITE_FRD(t).fl = t.fl /\ WRITE_RD(t).fl = t.fl
  BY DEF WRITE_FRD, WRITE_RD
<1>3. \A v : [v |-> v, fl |-> r.fl].fl = r.fl
  OBVIOUS
<1>4. Sound(WRITE_FRD(r)) /\ Sound(WRITE_RD(r))
  BY <1>1, <1>2, Zenon DEF Sound
<1>5. ASSUME NEW v
      PROVE  Sound(WRITE_RD([r EXCEPT !.v = v])) /\ Sound(WRITE_FRD([v |-> v, fl |-> r.fl]))
  <2>1. WRITE_RD([r EXCEPT !.v = v]).fl = [r EXCEPT !.v = v].fl
    BY <1>2, Zenon
  <2>2. WRITE_FRD([v |-> v, fl |-> r.fl]).fl = r.fl
    BY <1>2, <1>3, Zenon
  <2> QED BY <1>1, <2>1, <2>2, Zenon DEF Sound
<1> QED BY <1>4, <1>5

(* The bits an instruction looks at are a number.                          *)
LEMMA Operands ==
  ASSUME NEW x \in Int
  PROVE  /\ f32(x) \in Int /\ f64(x) \in Int
         /\ Flipped(F32, f32(x)) \in Int /\ Flipped(F64, f64(x)) \in Int
<1> DEFINE t == Top(F32)  d == Top(F64)
<1>1. t \in Nat \ {0} /\ d \in Nat \ {0}
  BY PowersAssumption
<1>2. /\ f32(x) = x % (2 * t) /\ f64(x) = x % (2 * d)
      /\ \A a : Flipped(F32, a) = (a + t) % (2 * t) /\ Flipped(F64, a) = (a + d) % (2 * d)
  BY Zenon DEF f32, f64, Flipped
<1> HIDE DEF t, d
<1>3. 2 * t \in Nat \ {0} /\ 2 * d \in Nat \ {0}
  BY <1>1
<1>4. f32(x) \in Int /\ f64(x) \in Int
  BY <1>2, <1>3
<1>5. (f32(x) + t) % (2 * t) \in Int /\ (f64(x) + d) % (2 * d) \in Int
  BY <1>1, <1>3, <1>4
<1> QED BY <1>2, <1>4, <1>5

LEMMA ArithmeticSound ==
  ASSUME NEW c, NEW m, NEW est, c.a \in Int, c.b \in Int, c.c \in Int, c.op \in ArithmeticOps
  PROVE  Sound(ArithmeticS(c, m, est)) /\ Sound(ArithmeticD(c, m, est))
<1>1. /\ f32(c.a) \in Int /\ f32(c.b) \in Int
      /\ f64(c.a) \in Int /\ f64(c.b) \in Int
  BY Operands
<1>2. Sound(fadd_s(c, m)) /\ Sound(fsub_s(c, m)) /\ Sound(fadd_d(c, m)) /\ Sound(fsub_d(c, m))
  BY <1>1, SumsKnown, WritesSound, Zenon DEF fadd_s, fsub_s, fadd_d, fsub_d
<1>3. Sound(fmul_s(c, m)) /\ Sound(fmul_d(c, m))
  BY ProductKnown, WritesSound, Zenon DEF fmul_s, fmul_d, f32_mul, f64_mul
<1>4. Sound(fdiv_s(c, m, est)) /\ Sound(fdiv_d(c, m, est))
  BY <1>1, QuotientsKnown, WritesSound, Zenon DEF fdiv_s, fdiv_d
<1>5. Sound(fsqrt_s(c, m, est)) /\ Sound(fsqrt_d(c, m, est))
  BY RootsKnown, WritesSound, Zenon DEF fsqrt_s, fsqrt_d
<1>6. /\ Sound(fmadd_s(c, m)) /\ Sound(fmsub_s(c, m))
      /\ Sound(fnmsub_s(c, m)) /\ Sound(fnmadd_s(c, m))
  BY MulAddsKnown, WritesSound, Zenon DEF fmadd_s, fmsub_s, fnmsub_s, fnmadd_s
<1>7. /\ Sound(fmadd_d(c, m)) /\ Sound(fmsub_d(c, m))
      /\ Sound(fnmsub_d(c, m)) /\ Sound(fnmadd_d(c, m))
  BY MulAddsKnown, WritesSound, Zenon DEF fmadd_d, fmsub_d, fnmsub_d, fnmadd_d
<1>8. \/ c.op = "add" \/ c.op = "sub" \/ c.op = "mul" \/ c.op = "div" \/ c.op = "sqrt"
      \/ c.op = "madd" \/ c.op = "msub" \/ c.op = "nmsub" \/ c.op = "nmadd"
  BY Zenon DEF ArithmeticOps
<1>9. Sound(ArithmeticS(c, m, est))
  BY <1>2, <1>3, <1>4, <1>5, <1>6, <1>8, Zenon DEF ArithmeticS
<1>10. Sound(ArithmeticD(c, m, est))
  BY <1>2, <1>3, <1>4, <1>5, <1>7, <1>8, Zenon DEF ArithmeticD
<1> QED BY <1>9, <1>10

LEMMA ConversionSound ==
  ASSUME NEW c, NEW m, c.op \in Conversions
  PROVE  Sound(ConversionS(c, m)) /\ Sound(ConversionD(c, m))
<1>1. /\ Sound(fcvt_w_s(c, m)) /\ Sound(fcvt_l_s(c, m)) /\ Sound(fcvt_lu_s(c, m))
      /\ Sound(fcvt_w_d(c, m)) /\ Sound(fcvt_l_d(c, m)) /\ Sound(fcvt_lu_d(c, m))
  BY ToIntsKnown, WritesSound, Zenon
     DEF fcvt_w_s, fcvt_l_s, fcvt_lu_s, fcvt_w_d, fcvt_l_d, fcvt_lu_d
<1>2. Sound(fcvt_wu_s(c, m)) /\ Sound(fcvt_wu_d(c, m))
  BY ToIntsKnown, WritesSound, Zenon DEF fcvt_wu_s, fcvt_wu_d
<1>3. /\ Sound(fcvt_s_w(c, m)) /\ Sound(fcvt_s_wu(c, m))
      /\ Sound(fcvt_s_l(c, m)) /\ Sound(fcvt_s_lu(c, m))
  BY FromIntsKnown, WritesSound, Zenon DEF fcvt_s_w, fcvt_s_wu, fcvt_s_l, fcvt_s_lu
<1>4. /\ Sound(fcvt_d_w(c, m)) /\ Sound(fcvt_d_wu(c, m))
      /\ Sound(fcvt_d_l(c, m)) /\ Sound(fcvt_d_lu(c, m))
  BY FromIntsKnown, WritesSound, Zenon DEF fcvt_d_w, fcvt_d_wu, fcvt_d_l, fcvt_d_lu
<1>5. Sound(fcvt_d_s(c, m)) /\ Sound(fcvt_s_d(c, m))
  BY ConvertsKnown, WritesSound, Zenon DEF fcvt_d_s, fcvt_s_d
<1>6. \/ c.op = "to_i32" \/ c.op = "to_ui32" \/ c.op = "to_i64" \/ c.op = "to_ui64"
      \/ c.op = "from_i32" \/ c.op = "from_ui32" \/ c.op = "from_i64" \/ c.op = "from_ui64"
      \/ c.op = "convert"
  BY Zenon DEF Conversions, ToInts, FromInts
<1>7. Sound(ConversionS(c, m))
  BY <1>1, <1>2, <1>3, <1>5, <1>6, Zenon DEF ConversionS
<1>8. Sound(ConversionD(c, m))
  BY <1>1, <1>2, <1>4, <1>5, <1>6, Zenon DEF ConversionD
<1> QED BY <1>7, <1>8

LEMMA LibrarySound ==
  ASSUME NEW c, NEW est, c.a \in Int, c.b \in Int, c.op \in LibraryOps
  PROVE  Sound(WRITE_RD(LibraryS(c, est))) /\ Sound(WRITE_RD(LibraryD(c, est)))
<1>1. \/ c.op = "rem" \/ c.op = "roundToInt" \/ c.op = "eq_signaling"
      \/ c.op = "i32_minMag" \/ c.op = "ui32_minMag"
      \/ c.op = "i64_minMag" \/ c.op = "ui64_minMag"
  BY Zenon DEF LibraryOps, MinMags
<1>2. /\ Known(f32_rem(c.rm, c.a, c.b, est)) /\ Known(f64_rem(c.rm, c.a, c.b, est))
      /\ Known(f32_roundToInt(c.rm, TRUE, c.a)) /\ Known(f64_roundToInt(c.rm, TRUE, c.a))
  BY RemaindersKnown, RoundToIntKnown
<1>3. Known(f32_eq_signaling(c.a, c.b)) /\ Known(f64_eq_signaling(c.a, c.b))
  BY ComparisonsKnown, Zenon DEF f32_eq_signaling, f64_eq_signaling
<1>4. /\ Known(f32_to_i32_r_minMag(TRUE, c.a)) /\ Known(f32_to_ui32_r_minMag(TRUE, c.a))
      /\ Known(f32_to_i64_r_minMag(TRUE, c.a)) /\ Known(f32_to_ui64_r_minMag(TRUE, c.a))
  BY MinMagsS
<1>5. /\ Known(f64_to_i32_r_minMag(TRUE, c.a)) /\ Known(f64_to_ui32_r_minMag(TRUE, c.a))
      /\ Known(f64_to_i64_r_minMag(TRUE, c.a)) /\ Known(f64_to_ui64_r_minMag(TRUE, c.a))
  BY MinMagsD
<1>6. Known(LibraryS(c, est))
  BY <1>1, <1>2, <1>3, <1>4, Zenon DEF LibraryS
<1>7. Known(LibraryD(c, est))
  BY <1>1, <1>2, <1>3, <1>5, Zenon DEF LibraryD
<1> QED BY <1>6, <1>7, WritesSound

LEMMA ComparisonSound ==
  ASSUME NEW c, c.op \in Comparisons
  PROVE  Sound(SelectionS(c)) /\ Sound(SelectionD(c))
<1>1. \A F, q, a, b : Known(eq(F, q, a, b)) /\ Known(le(F, q, a, b)) /\ Known(lt(F, q, a, b))
  BY ComparisonsKnown
<1>2. Sound(feq_s(c)) /\ Sound(fle_s(c)) /\ Sound(flt_s(c))
  BY <1>1, WritesSound, Zenon DEF feq_s, fle_s, flt_s, f32_eq, f32_le, f32_lt
<1>3. Sound(feq_d(c)) /\ Sound(fle_d(c)) /\ Sound(flt_d(c))
  BY <1>1, WritesSound, Zenon DEF feq_d, fle_d, flt_d, f64_eq, f64_le, f64_lt
<1>4. Sound(fmin_s(c)) /\ Sound(fmax_s(c))
  BY <1>1, ZKnown, WritesSound, Zenon DEF fmin_s, fmax_s, f32_lt_quiet, f32_le_quiet
<1>5. Sound(fmin_d(c)) /\ Sound(fmax_d(c))
  BY <1>1, ZKnown, WritesSound, Zenon DEF fmin_d, fmax_d, f64_lt_quiet, f64_le_quiet
<1>6. c.op = "eq" \/ c.op = "le" \/ c.op = "lt" \/ c.op = "min" \/ c.op = "max"
  BY Zenon DEF Comparisons
<1>7. Sound(SelectionS(c))
  BY <1>2, <1>4, <1>6, Zenon DEF SelectionS
<1>8. Sound(SelectionD(c))
  BY <1>3, <1>5, <1>6, Zenon DEF SelectionD
<1> QED BY <1>7, <1>8

(* A selection, a move, a load and a store raise nothing.                  *)
LEMMA SelectionSilent ==
  ASSUME NEW c, c.op \in Selections
  PROVE  SelectionS(c).fl = {} /\ SelectionD(c).fl = {}
<1>1. \A v : WRITE_FRD(Z(v)).fl = {} /\ WRITE_RD(Z(v)).fl = {} /\ store(v).fl = {}
  BY DEF WRITE_FRD, WRITE_RD, Z, store
<1>2. \/ c.op = "sgnj" \/ c.op = "sgnjn" \/ c.op = "sgnjx" \/ c.op = "class"
      \/ c.op = "mv_x" \/ c.op = "mv_f" \/ c.op = "load" \/ c.op = "store"
  BY Zenon DEF Selections
<1>3. /\ fsgnj_s(c).fl = {} /\ fsgnjn_s(c).fl = {} /\ fsgnjx_s(c).fl = {}
      /\ fclass_s(c).fl = {} /\ fmv_x_s(c).fl = {} /\ fmv_s_x(c).fl = {}
      /\ flw(c).fl = {} /\ fsw(c).fl = {}
  BY <1>1, Zenon DEF fsgnj_s, fsgnjn_s, fsgnjx_s, fclass_s, f32_classify, fmv_x_s, fmv_s_x,
                     flw, fsw
<1>4. /\ fsgnj_d(c).fl = {} /\ fsgnjn_d(c).fl = {} /\ fsgnjx_d(c).fl = {}
      /\ fclass_d(c).fl = {} /\ fmv_x_d(c).fl = {} /\ fmv_d_x(c).fl = {}
      /\ fld(c).fl = {} /\ fsd(c).fl = {}
  BY <1>1, Zenon DEF fsgnj_d, fsgnjn_d, fsgnjx_d, fclass_d, f64_classify, fmv_x_d, fmv_d_x,
                     fld, fsd
<1>5. SelectionS(c).fl = {}
  BY <1>2, <1>3, Zenon DEF SelectionS
<1>6. SelectionD(c).fl = {}
  BY <1>2, <1>4, Zenon DEF SelectionD
<1> QED BY <1>5, <1>6

FpOps == ArithmeticOps \cup Conversions \cup LibraryOps \cup Comparisons \cup Selections

(* What an instruction computes has flags that there are, and no flags where  *)
(* it does not move them into fflags.                                      *)
LEMMA ComputedSound ==
  ASSUME NEW c, NEW m, NEW est, c.op \in FpOps, c.a \in Int, c.b \in Int, c.c \in Int
  PROVE  /\ Computed(c, m, est).fl \subseteq FlagNames
         /\ ~MovesFlags(c) => Computed(c, m, est).fl = {}
<1>1. CASE c.op \in ArithmeticOps
  <2>1. Sound(Computed(c, m, est))
    BY <1>1, ArithmeticSound, Zenon DEF Computed
  <2>2. MovesFlags(c)
    BY <1>1 DEF MovesFlags, ArithmeticOps, Selections
  <2> QED BY <2>1, <2>2 DEF Sound
<1>2. CASE c.op \in Conversions
  <2>1. c.op \notin ArithmeticOps /\ MovesFlags(c)
    BY <1>2 DEF MovesFlags, ArithmeticOps, Conversions, ToInts, FromInts, Selections
  <2>2. Sound(Computed(c, m, est))
    BY <1>2, <2>1, ConversionSound, Zenon DEF Computed
  <2> QED BY <2>1, <2>2 DEF Sound
<1>3. CASE c.op \in LibraryOps
  <2>1. c.op \notin ArithmeticOps /\ c.op \notin Conversions /\ MovesFlags(c)
    BY <1>3 DEF MovesFlags, ArithmeticOps, Conversions, ToInts, FromInts, Selections,
                LibraryOps, MinMags
  <2>2. Sound(Computed(c, m, est))
    BY <1>3, <2>1, LibrarySound, Zenon DEF Computed
  <2> QED BY <2>1, <2>2 DEF Sound
<1>4. ASSUME c.op \in Comparisons \cup Selections
      PROVE  Computed(c, m, est) = IF c.f = "s" THEN SelectionS(c) ELSE SelectionD(c)
  <2>1. c.op \notin ArithmeticOps /\ c.op \notin Conversions /\ c.op \notin LibraryOps
    BY <1>4 DEF ArithmeticOps, Conversions, ToInts, FromInts, Selections, Comparisons,
                LibraryOps, MinMags
  <2> QED BY <2>1, Zenon DEF Computed
<1>5. CASE c.op \in Comparisons
  <2>1. Sound(Computed(c, m, est))
    BY <1>4, <1>5, ComparisonSound
  <2>2. MovesFlags(c)
    BY <1>5 DEF MovesFlags, Comparisons, Selections
  <2> QED BY <2>1, <2>2 DEF Sound
<1>6. CASE c.op \in Selections
  BY <1>4, <1>6, SelectionSilent
<1> QED BY <1>1, <1>2, <1>3, <1>5, <1>6 DEF FpOps

-----------------------------------------------------------------------------
(* The invariant: the flags are on their way from softfloat's variable into  *)
(* fflags, and whatever differs from the saved context is marked dirty.      *)
FpTypes ==
  /\ call.op \in FpOps /\ call.a \in Int /\ call.b \in Int /\ call.c \in Int
  /\ hart \in [ext : SUBSET {"F", "D"}, rv64 : BOOLEAN,
               fs : {"off", "initial", "clean", "dirty"}, frm : Modes \cup {"reserved"}]
  /\ fp \in {"call", "flags", "idle", "trapped"}
  /\ result.fl \subseteq FlagNames
FlagsOnTheWay ==
  /\ fp \in {"call", "trapped"} => softfloat_exceptionFlags = {} /\ fflags = {}
  /\ fp = "flags" => softfloat_exceptionFlags = result.fl /\ fflags = {}
  /\ fp = "idle" => softfloat_exceptionFlags = {} /\ fflags = result.fl
SavedUnlessDirty ==
  hart.fs # "dirty" \/ fp \in {"call", "trapped"} => saved = [frd |-> frd, fflags |-> fflags]
FpInv == FpTypes /\ FlagsOnTheWay /\ SavedUnlessDirty

LEMMA InitInv == FpInit => FpInv
<1> SUFFICES ASSUME FpInit
             PROVE  FpInv
  OBVIOUS
<1>1. PICK g \in Groups : \E op \in g.ops, rm \in g.rms, a \in g.a, b \in g.b, c \in g.c :
                            call = Call(g.f, op, rm, a, b, c) /\ hart \in g.harts
  BY DEF FpInit
<1>2. PICK op \in g.ops, rm \in g.rms, a \in g.a, b \in g.b, c \in g.c :
        call = Call(g.f, op, rm, a, b, c) /\ hart \in g.harts
  BY <1>1
<1>3. /\ op \in FpOps /\ a \in Int /\ b \in Int /\ c \in Int
      /\ hart \in [ext : SUBSET {"F", "D"}, rv64 : BOOLEAN,
                   fs : {"off", "initial", "clean", "dirty"}, frm : Modes \cup {"reserved"}]
  BY <1>2, CallsAssumption, Zenon DEF FpOps
<1>4. call.op = op /\ call.a = a /\ call.b = b /\ call.c = c
  BY <1>2 DEF Call
<1>5. result.fl = {}
  BY DEF FpInit, WRITE_RD, Z
<1>6. FpTypes
  BY <1>3, <1>4, <1>5, Zenon DEF FpInit, FpTypes
<1>7. FlagsOnTheWay /\ SavedUnlessDirty
  BY Zenon DEF FpInit, FlagsOnTheWay, SavedUnlessDirty
<1> QED BY <1>6, <1>7 DEF FpInv

(* Marking the state dirty or clean leaves a hart what it is.              *)
LEMMA MarkedHart ==
  ASSUME FpTypes, NEW fs \in {"off", "initial", "clean", "dirty"}
  PROVE  /\ [hart EXCEPT !.fs = fs] \in [ext : SUBSET {"F", "D"}, rv64 : BOOLEAN,
                                         fs : {"off", "initial", "clean", "dirty"},
                                         frm : Modes \cup {"reserved"}]
         /\ [hart EXCEPT !.fs = fs].fs = fs
BY DEF FpTypes

LEMMA IllegalInv == FpInv /\ Illegal => FpInv'
BY Zenon DEF FpInv, Illegal, FpTypes, FlagsOnTheWay, SavedUnlessDirty

LEMMA ComputeInv == FpInv /\ Compute => FpInv'
<1> SUFFICES ASSUME FpInv, Compute
             PROVE  FpInv'
  OBVIOUS
<1>1. FpTypes /\ fp = "call" /\ softfloat_exceptionFlags = {} /\ fflags = {}
  BY DEF FpInv, FlagsOnTheWay, Compute
<1>2. PICK r : /\ r.fl \subseteq FlagNames /\ (~MovesFlags(call) => r.fl = {})
               /\ result' = r
               /\ softfloat_exceptionFlags' = softfloat_exceptionFlags \cup r.fl
               /\ frd' = IF r.to = "f" THEN r.v ELSE frd
               /\ hart' = IF r.to = "f" THEN [hart EXCEPT !.fs = "dirty"] ELSE hart
  <2>1. PICK est \in Estimates(call) : \E r \in {Computed(call, RM(call, hart), est)} :
               /\ result' = r
               /\ softfloat_exceptionFlags' = softfloat_exceptionFlags \cup r.fl
               /\ frd' = IF r.to = "f" THEN r.v ELSE frd
               /\ hart' = IF r.to = "f" THEN [hart EXCEPT !.fs = "dirty"] ELSE hart
    BY Zenon DEF Compute
  <2> DEFINE x == Computed(call, RM(call, hart), est)
  <2>2. x.fl \subseteq FlagNames /\ (~MovesFlags(call) => x.fl = {})
    BY <1>1, ComputedSound DEF FpTypes
  <2> HIDE DEF x
  <2> QED BY <2>1, <2>2, Zenon DEF x
<1>3. /\ fp' = IF MovesFlags(call) THEN "flags" ELSE "idle"
      /\ call' = call /\ fflags' = {} /\ saved' = saved
  BY <1>1 DEF Compute
<1>4. softfloat_exceptionFlags' = result'.fl
  BY <1>1, <1>2
<1>5. /\ hart' \in [ext : SUBSET {"F", "D"}, rv64 : BOOLEAN,
                   fs : {"off", "initial", "clean", "dirty"}, frm : Modes \cup {"reserved"}]
      /\ frd' = frd \/ hart'.fs = "dirty"
  BY <1>1, <1>2, MarkedHart DEF FpTypes
<1>6. FpTypes'
  BY <1>1, <1>2, <1>3, <1>5 DEF FpTypes
<1>7. FlagsOnTheWay'
  BY <1>2, <1>3, <1>4 DEF FlagsOnTheWay
<1>8. SavedUnlessDirty'
  <2>1. saved = [frd |-> frd, fflags |-> {}]
    BY <1>1 DEF FpInv, SavedUnlessDirty
  <2>2. fp' \notin {"call", "trapped"}
    BY <1>3
  <2> QED BY <1>3, <1>5, <2>1, <2>2 DEF SavedUnlessDirty
<1> QED BY <1>6, <1>7, <1>8 DEF FpInv

LEMMA MoveInv == FpInv /\ set_fp_exceptions => FpInv'
<1> SUFFICES ASSUME FpInv, set_fp_exceptions
             PROVE  FpInv'
  OBVIOUS
<1>1. FpTypes /\ fp = "flags" /\ softfloat_exceptionFlags = result.fl /\ fflags = {}
  BY DEF FpInv, FlagsOnTheWay, set_fp_exceptions
<1>2. /\ fflags' = fflags \cup softfloat_exceptionFlags
      /\ hart' = IF softfloat_exceptionFlags # {} THEN [hart EXCEPT !.fs = "dirty"] ELSE hart
      /\ softfloat_exceptionFlags' = {} /\ fp' = "idle"
      /\ call' = call /\ result' = result /\ frd' = frd /\ saved' = saved
  BY DEF set_fp_exceptions
<1>3. fflags' = result.fl
  BY <1>1, <1>2
<1>4. FpTypes'
  BY <1>1, <1>2, MarkedHart DEF FpTypes
<1>5. FlagsOnTheWay'
  BY <1>2, <1>3 DEF FlagsOnTheWay
<1>6. SavedUnlessDirty'
  <2>1. CASE softfloat_exceptionFlags = {}
    <3>1. hart' = hart /\ fflags' = fflags
      BY <1>2, <2>1
    <3>2. hart.fs # "dirty" => saved = [frd |-> frd, fflags |-> fflags]
      BY DEF FpInv, SavedUnlessDirty
    <3> QED BY <1>2, <3>1, <3>2 DEF SavedUnlessDirty
  <2>2. CASE softfloat_exceptionFlags # {}
    <3>1. hart'.fs = "dirty"
      BY <1>1, <1>2, <2>2, MarkedHart
    <3> QED BY <1>2, <3>1 DEF SavedUnlessDirty
  <2> QED BY <2>1, <2>2
<1> QED BY <1>4, <1>5, <1>6 DEF FpInv

LEMMA ContinueInv == FpInv /\ ClearAndContinue => FpInv'
<1> SUFFICES ASSUME FpInv, ClearAndContinue
             PROVE  FpInv'
  OBVIOUS
<1>1. FpTypes /\ fp = "idle" /\ softfloat_exceptionFlags = {}
  BY DEF FpInv, FlagsOnTheWay, ClearAndContinue
<1>2. /\ fflags' = {} /\ saved' = [frd |-> frd, fflags |-> {}]
      /\ hart' = [hart EXCEPT !.fs = "clean"]
      /\ call' \in Followers /\ result' = WRITE_RD(Z(0)) /\ fp' = "call"
      /\ softfloat_exceptionFlags' = softfloat_exceptionFlags /\ frd' = frd
  BY Zenon DEF ClearAndContinue
<1>3. call'.op \in FpOps /\ call'.a \in Int /\ call'.b \in Int /\ call'.c \in Int
  BY <1>2, CallsAssumption, Zenon DEF FpOps
<1>4. result'.fl = {}
  BY <1>2 DEF WRITE_RD, Z
<1>5. FpTypes'
  BY <1>1, <1>2, <1>3, <1>4, MarkedHart DEF FpTypes
<1>6. FlagsOnTheWay' /\ SavedUnlessDirty'
  BY <1>1, <1>2 DEF FlagsOnTheWay, SavedUnlessDirty
<1> QED BY <1>5, <1>6 DEF FpInv

(* FpStateCurrent, which set_fp_exceptions and WRITE_FRD of decode.h keep:    *)
(* once an instruction has retired, fflags holds the flags it raised and     *)
(* none that softfloat's global variable still had, and registers and flags *)
(* that mstatus.FS does not call dirty are those last saved.                *)
THEOREM FpStateCurrentHolds == FpSpec => []FpStateCurrent
<1>1. FpInit => FpInv
  BY InitInv
<1>2. FpInv /\ [FpNext]_fvars => FpInv'
  <2> SUFFICES ASSUME FpInv, [FpNext]_fvars
               PROVE  FpInv'
    OBVIOUS
  <2>1. CASE FpNext
    BY <2>1, IllegalInv, ComputeInv, MoveInv, ContinueInv DEF FpNext
  <2>2. CASE UNCHANGED fvars
    BY <2>2, Zenon DEF fvars, FpInv, FpTypes, FlagsOnTheWay, SavedUnlessDirty
  <2> QED BY <2>1, <2>2
<1>3. FpInv => FpStateCurrent
  BY Zenon DEF FpInv, FpTypes, FlagsOnTheWay, SavedUnlessDirty, FpStateCurrent
<1> QED BY <1>1, <1>2, <1>3, PTL DEF FpSpec
===============================================================================
