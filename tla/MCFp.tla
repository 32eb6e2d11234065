--------------------------------- MODULE MCFp ---------------------------------
(* Operands for the floating-point unit: floats of 8 and of 14 bits, integers  *)
(* of 5 and of 10.                                                           *)
EXTENDS FpUnit

Single == [e |-> 5, s |-> 2]
Double == [e |-> 6, s |-> 7]

\* A hart with the unit on, whose state is not dirty yet.
Ready == Hart({"F", "D"}, TRUE, "initial", "min")

\* A group of calls: every combination of its functions, modes and operands.
G(f, ops, rms, a, b, c) ==
  [f |-> f, ops |-> ops, rms |-> rms, a |-> a, b |-> b, c |-> c, harts |-> {Ready}]
Unary(f, ops, rms, a) == G(f, ops, rms, a, {0}, {0})
Floats(F, signs, exps, fracs) ==
  {packToUI(F, s, e, m) : s \in signs, e \in exps, m \in fracs}

\* Subnormals, the smallest normals, numbers around one and the largest ones,
\* infinities and NaNs.
A32 == Floats(F32, {0}, {0, 1, 2, 14, 15, 17, 29, 30, 31}, 0..3)
B32 == Floats(F32, {0, 1}, {0, 1, 2, 15, 17, 29, 30, 31}, 0..3)
C32 == Floats(F32, {0, 1}, {0, 1, 10, 15, 16, 20, 30, 31}, {0, 1, 3})
Singles ==
  {G("s", {"add", "sub", "mul", "div"}, Modes, A32, B32, {0}),
   G("s", {"rem"}, {"near_even"}, B32, A32, {0}),
   Unary("s", {"sqrt"}, Modes, 0..255),
   G("s", {"madd"}, {"near_even", "min", "max"}, Floats(F32, {0}, {0, 1, 15, 31}, {0, 3}),
     Floats(F32, {0, 1}, {0, 8, 16, 31}, {0, 1}), C32),
   G("s", {"msub", "nmsub", "nmadd"}, {"max"}, {60, 61}, {1, 59, 190}, C32)}

A64 == Floats(F64, {0}, {0, 1, 2, 30, 31, 33, 61, 62}, {0, 1, 85, 127})
      \cup Floats(F64, {0}, {63}, {0, 1, 64})
B64 == Floats(F64, {0, 1}, {0, 1, 24, 29, 31, 62}, {0, 3, 42, 126})
      \cup Floats(F64, {0}, {63}, {0, 1})
Doubles ==
  {G("d", {"add", "sub", "mul", "div"}, Modes, A64, B64, {0}),
   G("d", {"rem"}, {"near_even"}, A64, B64, {0}),
   Unary("d", {"sqrt"}, {"near_even", "max"},
         B64 \cup Floats(F64, {0}, {0, 1, 31, 32, 62}, {k \in 0..127 : k % 5 = 0})),
   G("d", {"madd"}, {"near_even", "min"}, Floats(F64, {0}, {0, 31, 63}, {0, 127}),
     Floats(F64, {0, 1}, {0, 8, 30, 31, 63}, {0, 1, 127}),
     Floats(F64, {0, 1}, {0, 1, 20, 28, 31, 32, 40, 63}, {0, 1, 126})),
   G("d", {"msub", "nmsub", "nmadd"}, {"max"}, {31 * 128, 31 * 128 + 5}, {1, 30 * 128 + 99},
     Floats(F64, {0, 1}, {0, 31}, {0, 1, 126}))}

Integers64 == {-512, -511, -505, -260, -17, -1, 0, 1, 13, 31, 127, 255, 257, 383, 511}
Naturals64 == {0, 1, 29, 255, 257, 511, 512, 513, 767, 1021, 1022, 1023}
Limits64 == Floats(F64, {0, 1}, {0, 29, 30, 31, 35, 36, 39, 40, 41, 63},
                   {0, 1, 63, 64, 65, 96, 120, 126, 127})
Converted ==
  {Unary(f, {"from_i32"}, Modes, -16..15) : f \in {"s", "d"}}
  \cup {Unary(f, {"from_ui32"}, Modes, 0..31) : f \in {"s", "d"}}
  \cup {Unary(f, {"from_i64"}, Modes, Integers64) : f \in {"s", "d"}}
  \cup {Unary(f, {"from_ui64"}, Modes, Naturals64) : f \in {"s", "d"}}
  \cup {Unary("s", ToInts, Modes, {k \in 0..255 : k % 4 # 2 \/ k < 96}),
        Unary("s", MinMags, {"near_even"}, {k \in 0..255 : k % 4 # 2 \/ k < 96}),
        Unary("d", ToInts, Modes, Limits64),
        Unary("d", MinMags, {"near_even"}, Limits64),
        Unary("s", {"convert", "roundToInt"}, Modes, 0..255),
        Unary("d", {"convert", "roundToInt"}, Modes,
              Floats(F64, {0, 1}, {0, 1, 14, 15, 16, 17, 29, 30, 31, 32, 37, 46, 47, 62, 63},
                     {0, 1, 15, 16, 17, 32, 48, 112, 113, 127}))}

N64s == B64 \cup {63 * 128 + 64}
Compared ==
  {G("s", Comparisons \cup {"eq_signaling", "sgnj"}, {"near_even"}, B32, B32, {0}),
   G("d", Comparisons \cup {"eq_signaling", "sgnjn", "sgnjx"}, {"near_even"}, N64s, N64s, {0}),
   Unary("s", {"class"}, {"near_even"}, 0..255),
   Unary("d", {"class"}, {"near_even"}, B64)}

\* Singles in registers that hold a double, and every instruction on a hart
\* that may lack the extension, the width, the unit or the rounding mode.
AnyOp == ArithmeticOps \cup Conversions \cup Comparisons \cup Selections
Junk == {60, 60 + 5 * 256, 188, 188 + 256, 127 + 768}
Harts == {Hart(x, w, fs, frm) : x \in {{}, {"F"}, {"F", "D"}}, w \in BOOLEAN,
                                fs \in {"off", "initial"}, frm \in {"max", "reserved"}}
Guarded ==
  {G("s", AnyOp, {"near_even"}, Junk, Junk, {61}),
   [G("s", AnyOp, {"dyn", "min", "reserved"}, {60}, {61, 125}, {1}) EXCEPT !.harts = Harts],
   [G("d", AnyOp, {"dyn", "min", "reserved"}, {31 * 128}, {31 * 128 + 5, 63 * 128 + 1}, {1})
      EXCEPT !.harts = Harts]}

Calls == Singles \cup Doubles \cup Converted \cup Compared \cup Guarded
\* One that raises nothing, one that is inexact.
Next2 == {Call("s", "add", "near_even", 60, 60, 0),
          Call("s", "mul", "near_even", 61, 61, 0)}
=============================================================================
