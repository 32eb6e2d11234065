------------------------------- MODULE Ieee754 -------------------------------
(* What IEEE 754 asks of a binary float with F.e exponent and F.s fraction    *)
(* bits: a result is the exact value rounded once.  Nothing here comes from   *)
(* an implementation; a finite float is the exact number                     *)
(* (-1)^neg * m * 2^x, and an exact result that has more bits than matter is  *)
(* cut off with its last bit set.  NaNs and flags are those RISC-V asks for.  *)
EXTENDS Integers, FiniteSets

Bits(F) == 1 + F.e + F.s
Special(F) == (2^F.e - 1) * 2^F.s               \* infinity, and above it NaNs
Magnitude(F, a) == a % 2^(F.e + F.s)
Negative(F, a) == a >= 2^(F.e + F.s)
NaN(F, a) == Magnitude(F, a) > Special(F)
Signaling(F, a) == NaN(F, a) /\ Magnitude(F, a) < Special(F) + 2^(F.s - 1)
Inf(F, a) == Magnitude(F, a) = Special(F)
Quiet(F) == Special(F) + 2^(F.s - 1)
With(F, neg, bits) == bits + (IF neg THEN 2^(F.e + F.s) ELSE 0)
EMin(F) == 2 - 2^(F.e - 1) - F.s                \* the exponent of the last bit of a subnormal

Fin(F, a) ==
  LET exp == Magnitude(F, a) \div 2^F.s
      frac == a % 2^F.s
  IN [neg |-> Negative(F, a),
      m |-> IF exp = 0 THEN frac ELSE frac + 2^F.s,
      x |-> EMin(F) + (IF exp = 0 THEN 0 ELSE exp - 1)]

Max2(i, j) == IF i > j THEN i ELSE j
Min2(i, j) == IF i < j THEN i ELSE j
Msb(m) == Cardinality({k \in 1..30 : m >= 2^k})

\* m / 2^d as a whole number and how what is left compares with one half.
Split(m, d) ==
  IF d <= 0 THEN [n |-> m * 2^(-d), left |-> "none"]
  ELSE IF d > 30 THEN [n |-> 0, left |-> IF m = 0 THEN "none" ELSE "below"]
  ELSE LET rest == m % 2^d
       IN [n |-> m \div 2^d,
           left |-> IF rest = 0 THEN "none" ELSE IF rest < 2^(d - 1) THEN "below"
                    ELSE IF rest = 2^(d - 1) THEN "half" ELSE "above"]
Jammed(m, d) == LET p == Split(m, d)
                IN IF p.left # "none" /\ p.n % 2 = 0 THEN p.n + 1 ELSE p.n
Nearest(rm, neg, m, d) ==
  LET p == Split(m, d)
      up == CASE rm = "near_even" -> p.left = "above" \/ (p.left = "half" /\ p.n % 2 = 1)
              [] rm = "near_maxMag" -> p.left \in {"half", "above"}
              [] rm = "min" -> neg /\ p.left # "none"
              [] rm = "max" -> ~neg /\ p.left # "none"
              [] rm = "minMag" -> FALSE
  IN p.n + (IF up THEN 1 ELSE 0)

R(v, flags) == [v |-> v, fl |-> flags]
When(c, flag) == IF c THEN {flag} ELSE {}
TowardsInf(rm, neg) == rm \in {"near_even", "near_maxMag"} \/ rm = (IF neg THEN "min" ELSE "max")

(* The exact value m * 2^x rounded into F; underflow is tininess after        *)
(* rounding together with a loss.                                            *)
Round(F, rm, neg, m, x) ==
  LET free == Msb(m) + x - F.s                  \* were the exponent unbounded
      q == Max2(free, EMin(F))
      bits == (q - EMin(F)) * 2^F.s + Nearest(rm, neg, m, q - x)
      inexact == Split(m, q - x).left # "none"
      tiny == free < EMin(F) /\ ~(free = EMin(F) - 1
                                  /\ Nearest(rm, neg, m, free - x) = 2^(F.s + 1))
  IN IF m = 0 THEN R(With(F, neg, 0), {})
     ELSE IF bits >= Special(F)
     THEN R(With(F, neg, IF TowardsInf(rm, neg) THEN Special(F) ELSE Special(F) - 1),
            {"overflow", "inexact"})
     ELSE R(With(F, neg, bits), When(inexact, "inexact") \cup When(inexact /\ tiny, "underflow"))

(* Exact sums and products of numbers, and the roots and quotients.          *)
SumOf(F, rm, p, q) ==
  LET pBig == Msb(p.m) + p.x >= Msb(q.m) + q.x
      big == IF pBig THEN p ELSE q
      small == IF pBig THEN q ELSE p
      x0 == Max2(Min2(p.x, q.x), big.x - (28 - Msb(big.m)))
      b == big.m * 2^(big.x - x0)
      s == Jammed(small.m, x0 - small.x)
      d == IF p.neg = q.neg THEN b + s ELSE b - s
  IN CASE p.m = 0 /\ q.m = 0 ->
            R(With(F, IF p.neg = q.neg THEN p.neg ELSE rm = "min", 0), {})
       [] p.m = 0 /\ q.m # 0 -> Round(F, rm, q.neg, q.m, q.x)
       [] p.m # 0 /\ q.m = 0 -> Round(F, rm, p.neg, p.m, p.x)
       [] OTHER -> IF d = 0 THEN R(With(F, rm = "min", 0), {})
                   ELSE Round(F, rm, IF d < 0 THEN ~big.neg ELSE big.neg,
                              IF d < 0 THEN -d ELSE d, x0)
Product(p, q) == [neg |-> p.neg # q.neg, m |-> p.m * q.m, x |-> p.x + q.x]
Quotient(F, rm, p, q) ==
  LET n == p.m * 2^20
      m == n \div q.m
  IN Round(F, rm, p.neg # q.neg,
           IF n % q.m # 0 /\ m % 2 = 0 THEN m + 1 ELSE m, p.x - q.x - 20)
Root(F, rm, p) ==
  LET k == IF p.x % 2 = 0 THEN 20 ELSE 21
      n == p.m * 2^k
      r == CHOOSE i \in 0..32767 : i * i <= n /\ n < (i + 1) * (i + 1)
  IN Round(F, rm, FALSE, IF r * r # n /\ r % 2 = 0 THEN r + 1 ELSE r, (p.x - k) \div 2)

NaNResult(F, args) == R(Quiet(F), When(\E a \in args : Signaling(F, a), "invalid"))
Bad(F) == R(Quiet(F), {"invalid"})
Infinite(F, neg) == R(With(F, neg, Special(F)), {})

Add(F, rm, a, b) ==
  CASE NaN(F, a) \/ NaN(F, b) -> NaNResult(F, {a, b})
    [] Inf(F, a) /\ ~NaN(F, b) ->
         IF Inf(F, b) /\ Negative(F, a) # Negative(F, b) THEN Bad(F) ELSE R(a, {})
    [] Inf(F, b) /\ ~NaN(F, a) /\ ~Inf(F, a) -> R(b, {})
    [] OTHER -> SumOf(F, rm, Fin(F, a), Fin(F, b))
Negated(F, a) == With(F, ~Negative(F, a), Magnitude(F, a))
Sub(F, rm, a, b) == IF NaN(F, b) THEN NaNResult(F, {a, b}) ELSE Add(F, rm, a, Negated(F, b))

InfTimesZero(F, a, b) == \/ Inf(F, a) /\ Magnitude(F, b) = 0
                         \/ Inf(F, b) /\ Magnitude(F, a) = 0
MulAdd(F, rm, a, b, c) ==
  LET neg == Negative(F, a) # Negative(F, b)
  IN CASE InfTimesZero(F, a, b) -> Bad(F)
       [] ~InfTimesZero(F, a, b) /\ (NaN(F, a) \/ NaN(F, b) \/ NaN(F, c)) ->
            NaNResult(F, {a, b, c})
       [] ~NaN(F, a) /\ ~NaN(F, b) /\ ~NaN(F, c) /\ ~InfTimesZero(F, a, b)
          /\ (Inf(F, a) \/ Inf(F, b)) ->
            IF Inf(F, c) /\ Negative(F, c) # neg THEN Bad(F) ELSE Infinite(F, neg)
       [] OTHER -> IF Inf(F, c) THEN R(c, {})
                   ELSE SumOf(F, rm, Product(Fin(F, a), Fin(F, b)), Fin(F, c))
Mul(F, rm, a, b) ==
  LET neg == Negative(F, a) # Negative(F, b)
      p == Product(Fin(F, a), Fin(F, b))
  IN CASE NaN(F, a) \/ NaN(F, b) -> NaNResult(F, {a, b})
       [] InfTimesZero(F, a, b) -> Bad(F)
       [] ~NaN(F, a) /\ ~NaN(F, b) /\ ~InfTimesZero(F, a, b)
          /\ (Inf(F, a) \/ Inf(F, b)) -> Infinite(F, neg)
       [] OTHER -> Round(F, rm, p.neg, p.m, p.x)
Div(F, rm, a, b) ==
  LET neg == Negative(F, a) # Negative(F, b)
      zA == Magnitude(F, a) = 0
      zB == Magnitude(F, b) = 0
  IN CASE NaN(F, a) \/ NaN(F, b) -> NaNResult(F, {a, b})
       [] (zA /\ zB) \/ (Inf(F, a) /\ Inf(F, b)) -> Bad(F)
       [] Inf(F, a) /\ ~Inf(F, b) /\ ~NaN(F, b) -> Infinite(F, neg)
       [] zB /\ ~zA /\ ~Inf(F, a) /\ ~NaN(F, a) ->
            R(Infinite(F, neg).v, {"infinite"})
       [] OTHER -> IF zA \/ Inf(F, b) THEN R(With(F, neg, 0), {})
                   ELSE Quotient(F, rm, Fin(F, a), Fin(F, b))
Sqrt(F, rm, a) ==
  CASE NaN(F, a) -> NaNResult(F, {a})
    [] Magnitude(F, a) = 0 -> R(a, {})
    [] Negative(F, a) /\ Magnitude(F, a) \in 1..Special(F) -> Bad(F)
    [] OTHER -> IF Inf(F, a) THEN R(a, {}) ELSE Root(F, rm, Fin(F, a))

(* a - n * b for the integer n nearest to a / b, the even one of two.         *)
Rem(F, rm, a, b) ==
  LET p == Fin(F, a)  q == Fin(F, b)
      d == p.x - q.x
      mb == IF d < 0 THEN q.m * 2^(-d) ELSE q.m
      Pow[k \in Nat] == IF k = 0 THEN p.m % (2 * mb) ELSE (2 * Pow[k - 1]) % (2 * mb)
      t == Pow[Max2(d, 0)]
      r == t % mb
      down == 2 * r < mb \/ (2 * r = mb /\ t < mb)
  IN CASE NaN(F, a) \/ NaN(F, b) -> NaNResult(F, {a, b})
       [] Inf(F, a) /\ ~NaN(F, b) -> Bad(F)
       [] Magnitude(F, b) = 0 /\ ~NaN(F, a) /\ ~Inf(F, a) -> Bad(F)
       [] OTHER ->
            IF Inf(F, b) \/ p.m = 0 \/ Msb(p.m) + p.x + 1 < Msb(q.m) + q.x THEN R(a, {})
            ELSE Round(F, rm, IF down THEN p.neg ELSE ~p.neg,
                       IF down THEN r ELSE mb - r, Min2(p.x, q.x))

(* A float as an integer of n bits: saturated, with the invalid flag, when it  *)
(* is out of range.                                                          *)
ToInt(F, rm, exact, signed, n, a) ==
  LET p == Fin(F, a)
      lo == IF signed THEN -(2^(n - 1)) ELSE 0
      hi == IF signed THEN 2^(n - 1) - 1 ELSE 2^n - 1
      k == Nearest(rm, p.neg, p.m, -p.x)
      z == IF p.neg THEN -k ELSE k
      big == ~NaN(F, a) /\ (Inf(F, a) \/ (p.m # 0 /\ Msb(p.m) + p.x > n + 1))
  IN CASE NaN(F, a) -> R(hi, {"invalid"})
       [] big -> R(IF p.neg THEN lo ELSE hi, {"invalid"})
       [] OTHER -> IF z \notin lo..hi THEN R(IF p.neg THEN lo ELSE hi, {"invalid"})
                   ELSE R(z, When(exact /\ Split(p.m, -p.x).left # "none", "inexact"))
FromInt(F, rm, n) == Round(F, rm, n < 0, IF n < 0 THEN -n ELSE n, 0)
Convert(F, G, rm, a) ==
  LET p == Fin(F, a)
  IN IF NaN(F, a) THEN R(Quiet(G), When(Signaling(F, a), "invalid"))
     ELSE IF Inf(F, a) THEN Infinite(G, Negative(F, a))
     ELSE Round(G, rm, p.neg, p.m, p.x)
ToIntegral(F, rm, exact, a) ==
  LET p == Fin(F, a)
  IN IF NaN(F, a) THEN NaNResult(F, {a})
     ELSE IF Inf(F, a) \/ p.x >= 0 THEN R(a, {})
     ELSE R(Round(F, rm, p.neg, Nearest(rm, p.neg, p.m, -p.x), 0).v,
            When(exact /\ Split(p.m, -p.x).left # "none", "inexact"))

(* The order of the numbers; the two zeros are one number.                   *)
Key(F, a) == IF Negative(F, a) THEN -Magnitude(F, a) ELSE Magnitude(F, a)
Compare(F, op, quiet, a, b) ==
  IF NaN(F, a) \/ NaN(F, b)
    THEN R(FALSE, When(~quiet \/ Signaling(F, a) \/ Signaling(F, b), "invalid"))
    ELSE R(CASE op = "eq" -> Key(F, a) = Key(F, b)
             [] op = "le" -> Key(F, a) <= Key(F, b)
             [] op = "lt" -> Key(F, a) < Key(F, b), {})
=============================================================================
