-------------------------------- MODULE FpUnit --------------------------------
(* A hart executing floating-point instructions: each checks that the unit is *)
(* there and on, calls softfloat, which leaves its flags in a global variable, *)
(* writes its register and moves the flags into fflags.  The registers are as  *)
(* wide as F64 and are not boxed: an instruction on singles looks at the low   *)
(* bits.                                                                      *)
EXTENDS SoftFloatConv

CONSTANTS Groups,     \* the first instruction: sets of functions, of operands
                      \* and of harts
          Followers   \* the instructions that may come after it

Ref == INSTANCE Ieee754

VARIABLES call,       \* the instruction being executed
          hart,       \* what it depends on: misa, xlen and mstatus.FS, frm
          result,     \* what it wrote and where, and the flags of this call
          softfloat_exceptionFlags,
          fflags,
          frd,        \* the floating-point register it writes
          saved,      \* the floating-point state in the context the operating
                      \* system has saved
          fp          \* "call": about to compute, "flags": about to move the
                      \* flags, "idle": retired, "trapped": illegal instruction

fvars == <<call, hart, result, softfloat_exceptionFlags, fflags, frd, saved, fp>>

FlagNames == {"invalid", "infinite", "overflow", "underflow", "inexact"}
Modes == {"near_even", "minMag", "min", "max", "near_maxMag"}
Format(c) == IF c.f = "s" THEN F32 ELSE F64
\* Calls whose quotient or root is estimated, and how far off it may be.
Estimates(c) == CASE c.op = "rem" -> IF c.f = "s" THEN 0..1 ELSE -1..1
                  [] c.op \in {"div", "sqrt"} -> 0..2
                  [] OTHER -> {0}

-----------------------------------------------------------------------------
(* The instructions.                                                         *)

f32(x) == x % (2 * Top(F32))
f64(x) == x % (2 * Top(F64))
sext(n, x) == LET y == x % 2^n IN IF y >= 2^(n - 1) THEN y - 2^n ELSE y
sext32(x) == sext(N32, x)
ui32(x) == x % 2^N32
ui64(x) == x % 2^N64

WRITE_FRD(r) == [v |-> r.v, fl |-> r.fl, to |-> "f"]
WRITE_RD(r) == [v |-> r.v, fl |-> r.fl, to |-> "x"]
store(v) == [v |-> v, fl |-> {}, to |-> "mem"]
\* c.rm after frm has taken the place of the dynamic mode.
RM(c, h) == IF c.rm = "dyn" THEN h.frm ELSE c.rm

Flipped(F, a) == (a + Top(F)) % (2 * Top(F))
fadd_s(c, m) == WRITE_FRD(f32_add(m, f32(c.a), f32(c.b)))
fsub_s(c, m) == WRITE_FRD(f32_sub(m, f32(c.a), f32(c.b)))
fmul_s(c, m) == WRITE_FRD(f32_mul(m, f32(c.a), f32(c.b)))
fdiv_s(c, m, est) == WRITE_FRD(f32_div(m, f32(c.a), f32(c.b)))
fsqrt_s(c, m, est) == WRITE_FRD(f32_sqrt(m, f32(c.a), est))
fmadd_s(c, m) == WRITE_FRD(f32_mulAdd(m, f32(c.a), f32(c.b), f32(c.c)))
fmsub_s(c, m) ==
  WRITE_FRD(f32_mulAdd(m, f32(c.a), f32(c.b), Flipped(F32, f32(c.c))))
fnmsub_s(c, m) ==
  WRITE_FRD(f32_mulAdd(m, Flipped(F32, f32(c.a)), f32(c.b), f32(c.c)))
fnmadd_s(c, m) ==
  WRITE_FRD(f32_mulAdd(m, Flipped(F32, f32(c.a)), f32(c.b), Flipped(F32, f32(c.c))))

fadd_d(c, m) == WRITE_FRD(f64_add(m, f64(c.a), f64(c.b)))
fsub_d(c, m) == WRITE_FRD(f64_sub(m, f64(c.a), f64(c.b)))
fmul_d(c, m) == WRITE_FRD(f64_mul(m, f64(c.a), f64(c.b)))
fdiv_d(c, m, est) == WRITE_FRD(f64_div(m, f64(c.a), f64(c.b), est))
fsqrt_d(c, m, est) == WRITE_FRD(f64_sqrt(m, f64(c.a), est))
fmadd_d(c, m) == WRITE_FRD(f64_mulAdd(m, f64(c.a), f64(c.b), f64(c.c)))
fmsub_d(c, m) ==
  WRITE_FRD(f64_mulAdd(m, f64(c.a), f64(c.b), Flipped(F64, f64(c.c))))
fnmsub_d(c, m) ==
  WRITE_FRD(f64_mulAdd(m, Flipped(F64, f64(c.a)), f64(c.b), f64(c.c)))
fnmadd_d(c, m) ==
  WRITE_FRD(f64_mulAdd(m, Flipped(F64, f64(c.a)), f64(c.b), Flipped(F64, f64(c.c))))

fcvt_w_s(c, m) == WRITE_RD(f32_to_i32(m, TRUE, f32(c.a)))
fcvt_wu_s(c, m) ==
  LET r == f32_to_ui32(m, TRUE, f32(c.a)) IN WRITE_RD([r EXCEPT !.v = sext32(r.v)])
fcvt_l_s(c, m) == WRITE_RD(f32_to_i64(m, TRUE, f32(c.a)))
fcvt_lu_s(c, m) == WRITE_RD(f32_to_ui64(m, TRUE, f32(c.a)))
fcvt_w_d(c, m) == WRITE_RD(f64_to_i32(m, TRUE, f64(c.a)))
fcvt_wu_d(c, m) ==
  LET r == f64_to_ui32(m, TRUE, f64(c.a)) IN WRITE_RD([r EXCEPT !.v = sext32(r.v)])
fcvt_l_d(c, m) == WRITE_RD(f64_to_i64(m, TRUE, f64(c.a)))
fcvt_lu_d(c, m) == WRITE_RD(f64_to_ui64(m, TRUE, f64(c.a)))
fcvt_s_w(c, m) == WRITE_FRD(i32_to_f32(m, sext32(c.a)))
fcvt_s_wu(c, m) == WRITE_FRD(ui32_to_f32(m, ui32(c.a)))
fcvt_s_l(c, m) == WRITE_FRD(i64_to_f32(m, sext(N64, c.a)))
fcvt_s_lu(c, m) == WRITE_FRD(ui64_to_f32(m, ui64(c.a)))
fcvt_d_w(c, m) == WRITE_FRD(i32_to_f64(sext32(c.a)))
fcvt_d_wu(c, m) == WRITE_FRD(ui32_to_f64(ui32(c.a)))
fcvt_d_l(c, m) == WRITE_FRD(i64_to_f64(m, sext(N64, c.a)))
fcvt_d_lu(c, m) == WRITE_FRD(ui64_to_f64(m, ui64(c.a)))
fcvt_d_s(c, m) == WRITE_FRD(f32_to_f64(f32(c.a)))
fcvt_s_d(c, m) == WRITE_FRD(f64_to_f32(m, f64(c.a)))

feq_s(c) == WRITE_RD(f32_eq(f32(c.a), f32(c.b)))
fle_s(c) == WRITE_RD(f32_le(f32(c.a), f32(c.b)))
flt_s(c) == WRITE_RD(f32_lt(f32(c.a), f32(c.b)))
fmin_s(c) ==
  LET r == IF isNaNUI(F32, f32(c.b)) THEN Z(TRUE) ELSE f32_lt_quiet(f32(c.a), f32(c.b))
  IN WRITE_FRD([v |-> IF r.v THEN c.a ELSE c.b, fl |-> r.fl])
fmax_s(c) ==
  LET r == IF isNaNUI(F32, f32(c.b)) THEN Z(TRUE) ELSE f32_le_quiet(f32(c.b), f32(c.a))
  IN WRITE_FRD([v |-> IF r.v THEN c.a ELSE c.b, fl |-> r.fl])
fsgnj_s(c) == WRITE_FRD(Z((f32(c.a) % Top(F32)) + Top(F32) * signUI(F32, f32(c.b))))
fsgnjn_s(c) ==
  WRITE_FRD(Z((f32(c.a) % Top(F32)) + Top(F32) * (1 - signUI(F32, f32(c.b)))))
fsgnjx_s(c) ==
  LET x == f32(c.a)
  IN WRITE_FRD(Z((c.a - x) + IF signUI(F32, f32(c.b)) = 1 THEN Flipped(F32, x) ELSE x))
fclass_s(c) == WRITE_RD(f32_classify(f32(c.a)))
feq_d(c) == WRITE_RD(f64_eq(f64(c.a), f64(c.b)))
fle_d(c) == WRITE_RD(f64_le(f64(c.a), f64(c.b)))
flt_d(c) == WRITE_RD(f64_lt(f64(c.a), f64(c.b)))
fmin_d(c) ==
  LET r == IF isNaNUI(F64, f64(c.b)) THEN Z(TRUE) ELSE f64_lt_quiet(f64(c.a), f64(c.b))
  IN WRITE_FRD([v |-> IF r.v THEN c.a ELSE c.b, fl |-> r.fl])
fmax_d(c) ==
  LET r == IF isNaNUI(F64, f64(c.b)) THEN Z(TRUE) ELSE f64_le_quiet(f64(c.b), f64(c.a))
  IN WRITE_FRD([v |-> IF r.v THEN c.a ELSE c.b, fl |-> r.fl])
fsgnj_d(c) == WRITE_FRD(Z((f64(c.a) % Top(F64)) + Top(F64) * signUI(F64, f64(c.b))))
fsgnjn_d(c) ==
  WRITE_FRD(Z((f64(c.a) % Top(F64)) + Top(F64) * (1 - signUI(F64, f64(c.b)))))
fsgnjx_d(c) ==
  LET x == f64(c.a)
  IN WRITE_FRD(Z((c.a - x) + IF signUI(F64, f64(c.b)) = 1 THEN Flipped(F64, x) ELSE x))
fclass_d(c) == WRITE_RD(f64_classify(f64(c.a)))
fmv_x_s(c) == WRITE_RD(Z(sext(Width(F32), c.a)))
fmv_x_d(c) == WRITE_RD(Z(c.a))
fmv_s_x(c) == WRITE_FRD(Z(f32(c.a)))
fmv_d_x(c) == WRITE_FRD(Z(f64(c.a)))
\* The word at the address is c.a.
flw(c) == WRITE_FRD(Z(f32(c.a)))
fld(c) == WRITE_FRD(Z(f64(c.a)))
fsw(c) == store(f32(c.b))
fsd(c) == store(c.b)

ArithmeticS(c, m, est) ==
  CASE c.op = "add" -> fadd_s(c, m)
    [] c.op = "sub" -> fsub_s(c, m)
    [] c.op = "mul" -> fmul_s(c, m)
    [] c.op = "div" -> fdiv_s(c, m, est)
    [] c.op = "sqrt" -> fsqrt_s(c, m, est)
    [] c.op = "madd" -> fmadd_s(c, m)
    [] c.op = "msub" -> fmsub_s(c, m)
    [] c.op = "nmsub" -> fnmsub_s(c, m)
    [] c.op = "nmadd" -> fnmadd_s(c, m)
ArithmeticD(c, m, est) ==
  CASE c.op = "add" -> fadd_d(c, m)
    [] c.op = "sub" -> fsub_d(c, m)
    [] c.op = "mul" -> fmul_d(c, m)
    [] c.op = "div" -> fdiv_d(c, m, est)
    [] c.op = "sqrt" -> fsqrt_d(c, m, est)
    [] c.op = "madd" -> fmadd_d(c, m)
    [] c.op = "msub" -> fmsub_d(c, m)
    [] c.op = "nmsub" -> fnmsub_d(c, m)
    [] c.op = "nmadd" -> fnmadd_d(c, m)
ConversionS(c, m) ==
  CASE c.op = "to_i32" -> fcvt_w_s(c, m)
    [] c.op = "to_ui32" -> fcvt_wu_s(c, m)
    [] c.op = "to_i64" -> fcvt_l_s(c, m)
    [] c.op = "to_ui64" -> fcvt_lu_s(c, m)
    [] c.op = "from_i32" -> fcvt_s_w(c, m)
    [] c.op = "from_ui32" -> fcvt_s_wu(c, m)
    [] c.op = "from_i64" -> fcvt_s_l(c, m)
    [] c.op = "from_ui64" -> fcvt_s_lu(c, m)
    [] c.op = "convert" -> fcvt_d_s(c, m)
ConversionD(c, m) ==
  CASE c.op = "to_i32" -> fcvt_w_d(c, m)
    [] c.op = "to_ui32" -> fcvt_wu_d(c, m)
    [] c.op = "to_i64" -> fcvt_l_d(c, m)
    [] c.op = "to_ui64" -> fcvt_lu_d(c, m)
    [] c.op = "from_i32" -> fcvt_d_w(c, m)
    [] c.op = "from_ui32" -> fcvt_d_wu(c, m)
    [] c.op = "from_i64" -> fcvt_d_l(c, m)
    [] c.op = "from_ui64" -> fcvt_d_lu(c, m)
    [] c.op = "convert" -> fcvt_s_d(c, m)
SelectionS(c) ==
  CASE c.op = "eq" -> feq_s(c)
    [] c.op = "le" -> fle_s(c)
    [] c.op = "lt" -> flt_s(c)
    [] c.op = "min" -> fmin_s(c)
    [] c.op = "max" -> fmax_s(c)
    [] c.op = "sgnj" -> fsgnj_s(c)
    [] c.op = "sgnjn" -> fsgnjn_s(c)
    [] c.op = "sgnjx" -> fsgnjx_s(c)
    [] c.op = "class" -> fclass_s(c)
    [] c.op = "mv_x" -> fmv_x_s(c)
    [] c.op = "mv_f" -> fmv_s_x(c)
    [] c.op = "load" -> flw(c)
    [] c.op = "store" -> fsw(c)
SelectionD(c) ==
  CASE c.op = "eq" -> feq_d(c)
    [] c.op = "le" -> fle_d(c)
    [] c.op = "lt" -> flt_d(c)
    [] c.op = "min" -> fmin_d(c)
    [] c.op = "max" -> fmax_d(c)
    [] c.op = "sgnj" -> fsgnj_d(c)
    [] c.op = "sgnjn" -> fsgnjn_d(c)
    [] c.op = "sgnjx" -> fsgnjx_d(c)
    [] c.op = "class" -> fclass_d(c)
    [] c.op = "mv_x" -> fmv_x_d(c)
    [] c.op = "mv_f" -> fmv_d_x(c)
    [] c.op = "load" -> fld(c)
    [] c.op = "store" -> fsd(c)
\* The functions of the library that no instruction calls.
LibraryS(c, est) ==
  CASE c.op = "rem" -> f32_rem(c.rm, c.a, c.b, est)
    [] c.op = "roundToInt" -> f32_roundToInt(c.rm, TRUE, c.a)
    [] c.op = "eq_signaling" -> f32_eq_signaling(c.a, c.b)
    [] c.op = "i32_minMag" -> f32_to_i32_r_minMag(TRUE, c.a)
    [] c.op = "ui32_minMag" -> f32_to_ui32_r_minMag(TRUE, c.a)
    [] c.op = "i64_minMag" -> f32_to_i64_r_minMag(TRUE, c.a)
    [] c.op = "ui64_minMag" -> f32_to_ui64_r_minMag(TRUE, c.a)
LibraryD(c, est) ==
  CASE c.op = "rem" -> f64_rem(c.rm, c.a, c.b, est)
    [] c.op = "roundToInt" -> f64_roundToInt(c.rm, TRUE, c.a)
    [] c.op = "eq_signaling" -> f64_eq_signaling(c.a, c.b)
    [] c.op = "i32_minMag" -> f64_to_i32_r_minMag(TRUE, c.a)
    [] c.op = "ui32_minMag" -> f64_to_ui32_r_minMag(TRUE, c.a)
    [] c.op = "i64_minMag" -> f64_to_i64_r_minMag(TRUE, c.a)
    [] c.op = "ui64_minMag" -> f64_to_ui64_r_minMag(TRUE, c.a)

ArithmeticOps == {"add", "sub", "mul", "div", "sqrt", "madd", "msub", "nmsub", "nmadd"}
ToInts == {"to_i32", "to_ui32", "to_i64", "to_ui64"}
FromInts == {"from_i32", "from_ui32", "from_i64", "from_ui64"}
Conversions == ToInts \cup FromInts \cup {"convert"}
Comparisons == {"eq", "le", "lt", "min", "max"}
Selections == {"sgnj", "sgnjn", "sgnjx", "class", "mv_x", "mv_f", "load", "store"}
MinMags == {"i32_minMag", "ui32_minMag", "i64_minMag", "ui64_minMag"}
LibraryOps == MinMags \cup {"rem", "roundToInt", "eq_signaling"}

Computed(c, m, est) ==
  LET s == c.f = "s"
  IN IF c.op \in ArithmeticOps THEN IF s THEN ArithmeticS(c, m, est) ELSE ArithmeticD(c, m, est)
     ELSE IF c.op \in Conversions THEN IF s THEN ConversionS(c, m) ELSE ConversionD(c, m)
     ELSE IF c.op \in LibraryOps
       THEN WRITE_RD(IF s THEN LibraryS(c, est) ELSE LibraryD(c, est))
     ELSE IF s THEN SelectionS(c) ELSE SelectionD(c)

-----------------------------------------------------------------------------
Call(f, op, rm, a, b, c) ==
  [f |-> f, op |-> op, rm |-> rm, a |-> a, b |-> b, c |-> c]
Hart(ext, rv64, fs, frm) == [ext |-> ext, rv64 |-> rv64, fs |-> fs, frm |-> frm]

(* The instructions are those above, on bit patterns; a hart has some of the  *)
(* extensions, one of the four states of mstatus.FS and what frm can hold.    *)
ASSUME CallsAssumption ==
  LET Ops == ArithmeticOps \cup Conversions \cup LibraryOps \cup Comparisons \cup Selections
  IN /\ \A g \in Groups :
          /\ g.ops \subseteq Ops
          /\ g.a \subseteq Int /\ g.b \subseteq Int /\ g.c \subseteq Int
          /\ g.harts \subseteq [ext : SUBSET {"F", "D"}, rv64 : BOOLEAN,
                               fs : {"off", "initial", "clean", "dirty"},
                               frm : Modes \cup {"reserved"}]
     /\ \A c \in Followers : c.op \in Ops /\ c.a \in Int /\ c.b \in Int /\ c.c \in Int

FpInit == /\ \E g \in Groups :
               \E op \in g.ops, rm \in g.rms, a \in g.a, b \in g.b, c \in g.c :
                 /\ call = Call(g.f, op, rm, a, b, c)
                 /\ hart \in g.harts
          /\ result = WRITE_RD(Z(0)) /\ softfloat_exceptionFlags = {} /\ fflags = {}
          /\ frd = 0 /\ saved = [frd |-> 0, fflags |-> {}]
          /\ fp = "call"

\* The extension an instruction belongs to, whether RV32 lacks it and whether
\* it looks at its rounding mode: the conversions do even when they are exact.
require_extension(c) == IF c.f = "d" \/ c.op = "convert" THEN "D" ELSE "F"
require_rv64(c) == \/ c.op \in {"to_i64", "to_ui64", "from_i64", "from_ui64"}
                   \/ c.f = "d" /\ c.op \in {"mv_x", "mv_f"}
NeedsRM(c) == c.op \in ArithmeticOps \cup Conversions
Legal(c, h) ==
  /\ require_extension(c) \in h.ext
  /\ require_rv64(c) => h.rv64
  /\ h.fs # "off"
  /\ NeedsRM(c) => RM(c, h) \in Modes
\* The instructions that end with set_fp_exceptions; the others raise nothing.
MovesFlags(c) == c.op \notin Selections

Illegal ==
  /\ fp = "call" /\ ~Legal(call, hart)
  /\ fp' = "trapped"
  /\ UNCHANGED <<call, hart, result, softfloat_exceptionFlags, fflags, frd, saved>>

\* The body up to the write of the register, which dirties mstatus.FS;
\* softfloat_raiseFlags adds to the global flags.
Compute ==
  /\ fp = "call" /\ Legal(call, hart)
  /\ \E est \in Estimates(call) : \E r \in {Computed(call, RM(call, hart), est)} :
       /\ result' = r
       /\ softfloat_exceptionFlags' = softfloat_exceptionFlags \cup r.fl
       /\ frd' = IF r.to = "f" THEN r.v ELSE frd
       /\ hart' = IF r.to = "f" THEN [hart EXCEPT !.fs = "dirty"] ELSE hart
  /\ fp' = IF MovesFlags(call) THEN "flags" ELSE "idle"
  /\ UNCHANGED <<call, fflags, saved>>

\* Mutant: only the write of a register dirties the state.
set_fp_exceptions_Clean ==
  /\ fp = "flags"
  /\ fflags' = fflags \cup softfloat_exceptionFlags
  /\ softfloat_exceptionFlags' = {}
  /\ fp' = "idle"
  /\ UNCHANGED <<call, hart, result, frd, saved>>
set_fp_exceptions ==
  /\ fp = "flags"
  /\ fflags' = fflags \cup softfloat_exceptionFlags
  /\ hart' = IF softfloat_exceptionFlags # {} THEN [hart EXCEPT !.fs = "dirty"] ELSE hart
  /\ softfloat_exceptionFlags' = {}
  /\ fp' = "idle"
  /\ UNCHANGED <<call, result, frd, saved>>

\* The program clears fflags; the operating system saves the dirty state and
\* marks it clean; the program goes on with another instruction.
ClearAndContinue ==
  /\ fp = "idle" /\ call \notin Followers
  /\ fflags' = {}
  /\ saved' = [frd |-> frd, fflags |-> {}]
  /\ hart' = [hart EXCEPT !.fs = "clean"]
  /\ call' \in {c \in Followers : Legal(c, hart)}
  /\ result' = WRITE_RD(Z(0))
  /\ fp' = "call"
  /\ UNCHANGED <<softfloat_exceptionFlags, frd>>

FpNext == Illegal \/ Compute \/ set_fp_exceptions \/ ClearAndContinue
FpSpec == FpInit /\ [][FpNext]_fvars

-----------------------------------------------------------------------------
(* What each function must return, by Ieee754.                               *)

LowBits(c) == LET t(x) == IF c.f = "s" THEN f32(x) ELSE f64(x)
                IN [c EXCEPT !.a = t(c.a), !.b = t(c.b), !.c = t(c.c)]
Arithmetic(F, op, m, a, b, c) ==
  CASE op = "add" -> Ref!Add(F, m, a, b)
    [] op = "sub" -> Ref!Sub(F, m, a, b)
    [] op = "mul" -> Ref!Mul(F, m, a, b)
    [] op = "div" -> Ref!Div(F, m, a, b)
    [] op = "sqrt" -> Ref!Sqrt(F, m, a)
    [] op = "madd" -> Ref!MulAdd(F, m, a, b, c)
    [] op = "msub" -> Ref!MulAdd(F, m, a, b, Flipped(F, c))
    [] op = "nmsub" -> Ref!MulAdd(F, m, Flipped(F, a), b, c)
    [] op = "nmadd" -> Ref!MulAdd(F, m, Flipped(F, a), b, Flipped(F, c))
    [] op = "rem" -> Ref!Rem(F, m, a, b)
Reference(c, m) ==
  LET F == Format(c)
      t == LowBits(c)
      w == c.op \in {"to_i32", "to_ui32", "i32_minMag", "ui32_minMag"}
      signed == c.op \in {"to_i32", "to_i64", "i32_minMag", "i64_minMag"}
      int == Ref!ToInt(F, IF c.op \in MinMags THEN "minMag" ELSE m, TRUE, signed,
                       IF w THEN N32 ELSE N64, t.a)
      from == CASE c.op = "from_i32" -> sext32(c.a) [] c.op = "from_ui32" -> ui32(c.a)
                [] c.op = "from_i64" -> sext(N64, c.a) [] c.op = "from_ui64" -> ui64(c.a)
  IN CASE c.op = "to_ui32" -> [int EXCEPT !.v = sext32(int.v)]
       [] c.op \in (ToInts \ {"to_ui32"}) \cup MinMags -> int
       [] c.op \in FromInts -> Ref!FromInt(F, m, from)
       [] c.op = "convert" -> Ref!Convert(F, IF c.f = "s" THEN F64 ELSE F32, m, t.a)
       [] c.op = "roundToInt" -> Ref!ToIntegral(F, m, TRUE, t.a)
       [] c.op \in {"eq", "eq_signaling"} -> Ref!Compare(F, "eq", c.op = "eq", t.a, t.b)
       [] c.op \in {"le", "lt"} -> Ref!Compare(F, c.op, FALSE, t.a, t.b)
       [] OTHER -> Arithmetic(F, c.op, m, t.a, t.b, t.c)

Returned == [v |-> result.v, fl |-> result.fl]
Finished(ops) == fp = "flags" /\ call.op \in ops
\* fmin and fmax answer an operand that is a number and bounds both.
Bounds(lo) ==
  LET F == Format(call)
      t == LowBits(call)
      r == IF call.f = "s" THEN f32(result.v) ELSE f64(result.v)
      Leq(x, y) == Ref!NaN(F, x) \/ Ref!NaN(F, y) \/ Ref!Key(F, x) <= Ref!Key(F, y)
  IN /\ result.v \in {call.a, call.b}
     /\ Ref!NaN(F, r) => Ref!NaN(F, t.a) /\ Ref!NaN(F, t.b)
     /\ \A x \in {t.a, t.b} : IF lo THEN Leq(r, x) ELSE Leq(x, r)

(* Every sum, product, quotient, root and fused multiply-add is the exact one  *)
(* rounded once in the mode asked for, with exactly the flags IEEE 754 raises, *)
(* whatever the reciprocal estimates were: the sticky bits that the alignments *)
(* keep and the corrections of the estimates suffice.  The remainder is that   *)
(* of the nearest quotient, however far the loop's quotient fell short.  A     *)
(* conversion saturates exactly at the edge of the integer type, where an      *)
(* increment may carry out of the word.  The comparisons order the floats as   *)
(* numbers though they compare bits, and fmin and fmax answer the operand that *)
(* is a number; each float has one class.                                     *)
ResultsExact ==
  /\ Finished(ArithmeticOps \cup Conversions \cup LibraryOps \cup {"eq", "le", "lt"})
       => Returned = Reference(call, RM(call, hart))
  /\ Finished({"min"}) => Bounds(TRUE)
  /\ Finished({"max"}) => Bounds(FALSE)
  /\ (fp = "idle" /\ call.op = "class") => Cardinality(result.v) = 1

(* When an instruction has retired after fflags was cleared, fflags holds what *)
(* that instruction raised and nothing left over from an earlier one; and      *)
(* unless mstatus.FS says dirty, the registers and the flags are those the     *)
(* operating system saved, so that a context switch that skips the save loses  *)
(* nothing.  An instruction that traps has changed none of them.              *)
FpStateCurrent ==
  /\ fp = "idle" => fflags \subseteq FlagNames /\ fflags = result.fl
  /\ (hart.fs # "dirty" /\ fp \in {"idle", "trapped"}) => saved = [frd |-> frd, fflags |-> fflags]
=============================================================================
