------------------------------ MODULE SpikeInsns ------------------------------
(***************************************************************************)
(* The integer, multiply, atomic, compressed and CSR instructions of the   *)
(* Spike simulator, and the loop that executes them in batches.  A hart of *)
(* either width keeps its registers in variables of the host's 64 bits     *)
(* (REG): in RV32 every one of them must stay sign-extended, because       *)
(* comparisons, logic and stores use the whole variable.  insns/NAME.h     *)
(* becomes rv_NAME(c, i), for the core c and the decoded instruction i.    *)
(***************************************************************************)
EXTENDS Integers
LOCAL INSTANCE Bitwise

CONSTANTS REG,      \* bits of reg_t; a word has half of them, a byte an eighth
          Suites    \* what to execute: a function to [cores, insns, max], the
                    \* harts to start with, the instructions that may come
                    \* and how many of them

VARIABLES suite,    \* the one chosen
          core,     \* the hart
          pending,  \* the instruction at the pc when it is known, or NoInsn
          last,     \* the instruction executed last, and how it ended
          executed, \* how many have been executed, trapped ones included
          retired,  \* what minstret ought to count
          drifted   \* an interrupt came between the two executions of a
                    \* CSR instruction

Menu == Suites  \* evaluated once
xvars == <<suite, core, pending, last, executed, retired, drifted>>

WORD == REG \div 2
HANDLER == 8
X_RA == 1
X_SP == 2
BYTES == 8            \* of memory, from address 0 on
NoInsn == [op |-> "none", rd |-> 0, rs1 |-> 0, rs2 |-> 0, imm |-> 0, csr |-> ""]

-----------------------------------------------------------------------------
(* Numbers.  Unsigned arithmetic wraps; sreg and int32 read a pattern as   *)
(* signed.                                                                 *)

Mod(v) == v % 2^REG
SignedAt(v, n) == LET u == v % 2^n IN IF u >= 2^(n - 1) THEN u - 2^n ELSE u
sreg(v) == SignedAt(v, REG)
int32(v) == SignedAt(v, WORD)
uint32(v) == v % 2^WORD
Sext32(v) == Mod(int32(v))
sext_xlen(c, v) == Mod(SignedAt(v, c.xlen))
zext_xlen(c, v) == v % 2^c.xlen
Quotient(a, b) ==
  LET q == (IF a < 0 THEN -a ELSE a) \div (IF b < 0 THEN -b ELSE b)
  IN IF (a < 0) = (b < 0) THEN q ELSE -q
Remainder(a, b) == a - b * Quotient(a, b)
Truth(p) == IF p THEN 1 ELSE 0
Larger(a, b) == IF a < b THEN b ELSE a
Smaller(a, b) == IF b < a THEN b ELSE a

\* mulhi.h: the upper half of a product from products of halves.
mulhi_mulhu(a, b) ==
  LET a0 == uint32(a)  a1 == a \div 2^WORD
      b0 == uint32(b)  b1 == b \div 2^WORD
      t == Mod(a1 * b0 + (a0 * b0) \div 2^WORD)
      s == Mod(a0 * b1 + uint32(t))
  IN Mod(a1 * b1 + t \div 2^WORD + s \div 2^WORD)
Complemented(res, a, b) == Mod((2^REG - 1 - res) + Truth(Mod(a * b) = 0))
\* Mutant: the complement without the carry out of the lower half.
mulhi_mulh_NoCarry(a, b) ==
  LET res == mulhi_mulhu(Mod(IF a < 0 THEN -a ELSE a), Mod(IF b < 0 THEN -b ELSE b))
  IN IF (a < 0) # (b < 0) THEN 2^REG - 1 - res ELSE res
mulhi_mulh(a, b) ==
  LET res == mulhi_mulhu(Mod(IF a < 0 THEN -a ELSE a), Mod(IF b < 0 THEN -b ELSE b))
  IN IF (a < 0) # (b < 0) THEN Complemented(res, a, b) ELSE res
mulhi_mulhsu(a, b) ==
  LET res == mulhi_mulhu(Mod(IF a < 0 THEN -a ELSE a), b)
  IN IF a < 0 THEN Complemented(res, a, b) ELSE res

-----------------------------------------------------------------------------
(* What executing an instruction comes to: a trap, or a write of a         *)
(* register, of memory, of the reservation or of a CSR, and the next pc.   *)

Compressed ==
  {"c_add", "c_addi", "c_addi4spn", "c_addw", "c_and", "c_andi", "c_beqz", "c_bnez",
   "c_ebreak", "c_flw", "c_flwsp", "c_fsw", "c_fswsp", "c_j", "c_jal", "c_jalr", "c_jr",
   "c_li", "c_lui", "c_lw", "c_lwsp", "c_mv", "c_or", "c_slli", "c_srai", "c_srli",
   "c_sub", "c_subw", "c_sw", "c_swsp", "c_xor"}
Npc(c, i) == sext_xlen(c, c.pc + IF i.op \in Compressed THEN 2 ELSE 4)
Ok(c, i) == [trap |-> "none", rd |-> 0, v |-> 0, npc |-> Npc(c, i), mem |-> c.mem,
             res |-> c.res, mscratch |-> c.mscratch, minstret |-> c.minstret]
WriteReg(c, i, r, v) == [Ok(c, i) EXCEPT !.rd = r, !.v = v]
Rd(c, i, v) == WriteReg(c, i, i.rd, v)
Throw(c, i, cause) == [Ok(c, i) EXCEPT !.trap = cause]
require(c, i, p, o) == IF p THEN o ELSE Throw(c, i, "illegal")
RV64Only(c, i, o) == require(c, i, c.xlen = REG, o)
M(c, i, o) == require(c, i, "M" \in c.ext, o)
A(c, i, o) == require(c, i, "A" \in c.ext, o)
C(c, i, o) == require(c, i, "C" \in c.ext, o)
set_pc(c, i, t) ==
  IF Mod(t) % 4 \in {2, 3} /\ "C" \notin c.ext THEN Throw(c, i, "fetch_misaligned")
  ELSE [Ok(c, i) EXCEPT !.npc = sext_xlen(c, t)]
\* A jump that leaves npc in r.
Link(c, i, r, t) == LET o == set_pc(c, i, t)
                    IN IF o.trap # "none" THEN o ELSE [o EXCEPT !.rd = r, !.v = Npc(c, i)]
RS1(c, i) == c.x[i.rs1]
RS2(c, i) == c.x[i.rs2]
Even(v) == v - (v % 2)

rv_add(c, i) == Rd(c, i, sext_xlen(c, RS1(c, i) + RS2(c, i)))
rv_addi(c, i) == Rd(c, i, sext_xlen(c, RS1(c, i) + i.imm))
rv_addiw(c, i) == RV64Only(c, i, Rd(c, i, Sext32(i.imm + RS1(c, i))))
rv_addw(c, i) == RV64Only(c, i, Rd(c, i, Sext32(RS1(c, i) + RS2(c, i))))
rv_sub(c, i) == Rd(c, i, sext_xlen(c, RS1(c, i) - RS2(c, i)))
rv_subw(c, i) == RV64Only(c, i, Rd(c, i, Sext32(RS1(c, i) - RS2(c, i))))
rv_and(c, i) == Rd(c, i, RS1(c, i) & RS2(c, i))
rv_andi(c, i) == Rd(c, i, RS1(c, i) & Mod(i.imm))
rv_or(c, i) == Rd(c, i, RS1(c, i) | RS2(c, i))
rv_ori(c, i) == Rd(c, i, RS1(c, i) | Mod(i.imm))
rv_xor(c, i) == Rd(c, i, RS1(c, i) ^^ RS2(c, i))
rv_xori(c, i) == Rd(c, i, RS1(c, i) ^^ Mod(i.imm))
rv_slt(c, i) == Rd(c, i, Truth(sreg(RS1(c, i)) < sreg(RS2(c, i))))
rv_slti(c, i) == Rd(c, i, Truth(sreg(RS1(c, i)) < i.imm))
rv_sltu(c, i) == Rd(c, i, Truth(RS1(c, i) < RS2(c, i)))
rv_sltiu(c, i) == Rd(c, i, Truth(RS1(c, i) < Mod(i.imm)))
rv_lui(c, i) == Rd(c, i, Mod(i.imm))
rv_auipc(c, i) == Rd(c, i, sext_xlen(c, i.imm + c.pc))

SHAMT(i) == i.imm % REG
Left(v, n) == Mod(v * 2^n)
Right(v, n) == v \div 2^n
rv_sll(c, i) == Rd(c, i, sext_xlen(c, Left(RS1(c, i), RS2(c, i) % c.xlen)))
rv_srl(c, i) == Rd(c, i, sext_xlen(c, Right(zext_xlen(c, RS1(c, i)), RS2(c, i) % c.xlen)))
rv_sra(c, i) == Rd(c, i, sext_xlen(c, Right(sreg(sext_xlen(c, RS1(c, i))), RS2(c, i) % c.xlen)))
rv_slli(c, i) == require(c, i, SHAMT(i) < c.xlen, Rd(c, i, sext_xlen(c, Left(RS1(c, i), SHAMT(i)))))
rv_srli(c, i) ==
  require(c, i, SHAMT(i) < c.xlen, Rd(c, i, sext_xlen(c, Right(zext_xlen(c, RS1(c, i)), SHAMT(i)))))
rv_srai(c, i) ==
  require(c, i, SHAMT(i) < c.xlen,
          Rd(c, i, sext_xlen(c, Right(sreg(sext_xlen(c, RS1(c, i))), SHAMT(i)))))
rv_sllw(c, i) == RV64Only(c, i, Rd(c, i, Sext32(Left(RS1(c, i), RS2(c, i) % WORD))))
rv_srlw(c, i) == RV64Only(c, i, Rd(c, i, Sext32(Right(uint32(RS1(c, i)), RS2(c, i) % WORD))))
rv_sraw(c, i) == RV64Only(c, i, Rd(c, i, Sext32(Right(int32(RS1(c, i)), RS2(c, i) % WORD))))
rv_slliw(c, i) == RV64Only(c, i, Rd(c, i, Sext32(Left(RS1(c, i), SHAMT(i)))))
rv_srliw(c, i) == RV64Only(c, i, Rd(c, i, Sext32(Right(uint32(RS1(c, i)), SHAMT(i)))))
rv_sraiw(c, i) == RV64Only(c, i, Rd(c, i, Sext32(Right(int32(RS1(c, i)), SHAMT(i)))))

rv_mul(c, i) == M(c, i, Rd(c, i, sext_xlen(c, RS1(c, i) * RS2(c, i))))
rv_mulw(c, i) == M(c, i, RV64Only(c, i, Rd(c, i, Sext32(RS1(c, i) * RS2(c, i)))))
rv_mulh(c, i) ==
  M(c, i, Rd(c, i, IF c.xlen = REG THEN mulhi_mulh(sreg(RS1(c, i)), sreg(RS2(c, i)))
                   ELSE Sext32(Right(int32(RS1(c, i)) * int32(RS2(c, i)), WORD))))
rv_mulhsu(c, i) ==
  M(c, i, Rd(c, i, IF c.xlen = REG THEN mulhi_mulhsu(sreg(RS1(c, i)), RS2(c, i))
                   ELSE Sext32(Right(Mod(int32(RS1(c, i)) * uint32(RS2(c, i))), WORD))))
rv_mulhu(c, i) ==
  M(c, i, Rd(c, i, IF c.xlen = REG THEN mulhi_mulhu(RS1(c, i), RS2(c, i))
                   ELSE Sext32(Right(uint32(RS1(c, i)) * uint32(RS2(c, i)), WORD))))
UINT64_MAX == 2^REG - 1
INT64_MIN == -(2^(REG - 1))
rv_div(c, i) ==
  LET lhs == sreg(sext_xlen(c, RS1(c, i)))
      rhs == sreg(sext_xlen(c, RS2(c, i)))
  IN M(c, i, Rd(c, i, IF rhs = 0 THEN UINT64_MAX
                      ELSE IF lhs = INT64_MIN /\ rhs = -1 THEN Mod(lhs)
                      ELSE sext_xlen(c, Quotient(lhs, rhs))))
rv_rem(c, i) ==
  LET lhs == sreg(sext_xlen(c, RS1(c, i)))
      rhs == sreg(sext_xlen(c, RS2(c, i)))
  IN M(c, i, Rd(c, i, IF rhs = 0 THEN Mod(lhs)
                      ELSE IF lhs = INT64_MIN /\ rhs = -1 THEN 0
                      ELSE sext_xlen(c, Remainder(lhs, rhs))))
rv_divu(c, i) ==
  LET rhs == zext_xlen(c, RS2(c, i))
  IN M(c, i, Rd(c, i, IF rhs = 0 THEN UINT64_MAX
                      ELSE sext_xlen(c, zext_xlen(c, RS1(c, i)) \div rhs)))
rv_remu(c, i) ==
  LET rhs == zext_xlen(c, RS2(c, i))
  IN M(c, i, Rd(c, i, IF rhs = 0 THEN sext_xlen(c, RS1(c, i))
                      ELSE sext_xlen(c, zext_xlen(c, RS1(c, i)) % rhs)))
rv_divw(c, i) ==
  LET rhs == int32(RS2(c, i))
  IN M(c, i, RV64Only(c, i, Rd(c, i, IF rhs = 0 THEN UINT64_MAX
                                     ELSE Sext32(Quotient(int32(RS1(c, i)), rhs)))))
rv_remw(c, i) ==
  LET lhs == int32(RS1(c, i))
      rhs == int32(RS2(c, i))
  IN M(c, i, RV64Only(c, i, Rd(c, i, IF rhs = 0 THEN Mod(lhs) ELSE Sext32(Remainder(lhs, rhs)))))
rv_divuw(c, i) ==
  LET rhs == uint32(RS2(c, i))
  IN M(c, i, RV64Only(c, i, Rd(c, i, IF rhs = 0 THEN UINT64_MAX
                                     ELSE Sext32(uint32(RS1(c, i)) \div rhs))))
rv_remuw(c, i) ==
  LET lhs == uint32(RS1(c, i))
      rhs == uint32(RS2(c, i))
  IN M(c, i, RV64Only(c, i, Rd(c, i, Sext32(IF rhs = 0 THEN lhs ELSE lhs % rhs))))

-----------------------------------------------------------------------------
(* Control and memory.                                                     *)

BranchIf(c, i, p) == IF p THEN set_pc(c, i, c.pc + i.imm) ELSE Ok(c, i)
rv_beq(c, i) == BranchIf(c, i, RS1(c, i) = RS2(c, i))
rv_bne(c, i) == BranchIf(c, i, RS1(c, i) # RS2(c, i))
rv_blt(c, i) == BranchIf(c, i, sreg(RS1(c, i)) < sreg(RS2(c, i)))
rv_bge(c, i) == BranchIf(c, i, sreg(RS1(c, i)) >= sreg(RS2(c, i)))
rv_bltu(c, i) == BranchIf(c, i, RS1(c, i) < RS2(c, i))
rv_bgeu(c, i) == BranchIf(c, i, RS1(c, i) >= RS2(c, i))
rv_jal(c, i) == Link(c, i, i.rd, c.pc + i.imm)
rv_jalr(c, i) == Link(c, i, i.rd, Even(Mod(RS1(c, i) + i.imm)))

BitsOf(n) == n * (REG \div 8)
Field(w, b, n) == (w \div 2^BitsOf(b)) % 2^BitsOf(n)
Filled(w, b, n, v) == w + ((v % 2^BitsOf(n)) - Field(w, b, n)) * 2^BitsOf(b)
\* In machine mode an address is zero-extended from xlen.
Paddr(c, addr) == zext_xlen(c, addr)
Access(c, i, addr, n, store, o) ==
  IF Mod(addr) % n # 0 THEN Throw(c, i, IF store THEN "store_misaligned" ELSE "load_misaligned")
  ELSE IF Paddr(c, addr) + n > BYTES THEN Throw(c, i, IF store THEN "store_fault" ELSE "load_fault")
  ELSE o
load(c, i, r, addr, n, signed) ==
  LET v == Field(c.mem, Paddr(c, addr), n)
  IN Access(c, i, addr, n, FALSE,
            WriteReg(c, i, r, IF signed THEN Mod(SignedAt(v, BitsOf(n))) ELSE v))
storeTo(c, i, addr, n, v) ==
  Access(c, i, addr, n, TRUE, [Ok(c, i) EXCEPT !.mem = Filled(@, Paddr(c, addr), n, v)])
LoadAddr(c, i) == RS1(c, i) + i.imm
rv_lb(c, i) == load(c, i, i.rd, LoadAddr(c, i), 1, TRUE)
rv_lbu(c, i) == load(c, i, i.rd, LoadAddr(c, i), 1, FALSE)
rv_lh(c, i) == load(c, i, i.rd, LoadAddr(c, i), 2, TRUE)
rv_lhu(c, i) == load(c, i, i.rd, LoadAddr(c, i), 2, FALSE)
rv_lw(c, i) == load(c, i, i.rd, LoadAddr(c, i), 4, TRUE)
rv_lwu(c, i) == RV64Only(c, i, load(c, i, i.rd, LoadAddr(c, i), 4, FALSE))
rv_ld(c, i) == RV64Only(c, i, load(c, i, i.rd, LoadAddr(c, i), 8, TRUE))
rv_sb(c, i) == storeTo(c, i, LoadAddr(c, i), 1, RS2(c, i))
rv_sh(c, i) == storeTo(c, i, LoadAddr(c, i), 2, RS2(c, i))
rv_sw(c, i) == storeTo(c, i, LoadAddr(c, i), 4, RS2(c, i))
rv_sd(c, i) == RV64Only(c, i, storeTo(c, i, LoadAddr(c, i), 8, RS2(c, i)))

\* The reservation is made before the load is tried.
Reserve(c, i, n) == [load(c, i, i.rd, RS1(c, i), n, TRUE) EXCEPT !.res = RS1(c, i)]
StoreConditional(c, i, n) ==
  LET o == storeTo(c, i, RS1(c, i), n, RS2(c, i))
  IN IF RS1(c, i) # c.res THEN Rd(c, i, 1)
     ELSE IF o.trap # "none" THEN o
     ELSE [o EXCEPT !.rd = i.rd]
rv_lr_w(c, i) == A(c, i, Reserve(c, i, 4))
rv_lr_d(c, i) == A(c, i, RV64Only(c, i, Reserve(c, i, 8)))
rv_sc_w(c, i) == A(c, i, StoreConditional(c, i, 4))
rv_sc_d(c, i) == A(c, i, RV64Only(c, i, StoreConditional(c, i, 8)))
\* What the memory holds before the operation, and the operation that leaves v.
lhs_uint(c, i, n) == Field(c.mem, Paddr(c, RS1(c, i)), n)
amo(c, i, n, v) ==
  Access(c, i, RS1(c, i), n, TRUE,
         [Rd(c, i, Mod(SignedAt(lhs_uint(c, i, n), BitsOf(n))))
           EXCEPT !.mem = Filled(@, Paddr(c, RS1(c, i)), n, v)])
lhs32(c, i) == lhs_uint(c, i, 4)
lhs64(c, i) == lhs_uint(c, i, 8)
amo_uint32(c, i, v) == A(c, i, amo(c, i, 4, v))
amo_uint64(c, i, v) == A(c, i, RV64Only(c, i, amo(c, i, 8, v)))
rv_amoadd_w(c, i) == amo_uint32(c, i, lhs32(c, i) + RS2(c, i))
rv_amoadd_d(c, i) == amo_uint64(c, i, lhs64(c, i) + RS2(c, i))
rv_amoand_w(c, i) == amo_uint32(c, i, lhs32(c, i) & RS2(c, i))
rv_amoand_d(c, i) == amo_uint64(c, i, lhs64(c, i) & RS2(c, i))
rv_amoor_w(c, i) == amo_uint32(c, i, lhs32(c, i) | RS2(c, i))
rv_amoor_d(c, i) == amo_uint64(c, i, lhs64(c, i) | RS2(c, i))
rv_amoxor_w(c, i) == amo_uint32(c, i, lhs32(c, i) ^^ RS2(c, i))
rv_amoxor_d(c, i) == amo_uint64(c, i, lhs64(c, i) ^^ RS2(c, i))
rv_amoswap_w(c, i) == amo_uint32(c, i, RS2(c, i))
rv_amoswap_d(c, i) == amo_uint64(c, i, RS2(c, i))
rv_amomax_w(c, i) == amo_uint32(c, i, Larger(int32(lhs32(c, i)), int32(RS2(c, i))))
rv_amomax_d(c, i) == amo_uint64(c, i, Larger(sreg(lhs64(c, i)), sreg(RS2(c, i))))
rv_amomaxu_w(c, i) == amo_uint32(c, i, Larger(lhs32(c, i), uint32(RS2(c, i))))
rv_amomaxu_d(c, i) == amo_uint64(c, i, Larger(lhs64(c, i), RS2(c, i)))
rv_amomin_w(c, i) == amo_uint32(c, i, Smaller(int32(lhs32(c, i)), int32(RS2(c, i))))
rv_amomin_d(c, i) == amo_uint64(c, i, Smaller(sreg(lhs64(c, i)), sreg(RS2(c, i))))
rv_amominu_w(c, i) == amo_uint32(c, i, Smaller(lhs32(c, i), uint32(RS2(c, i))))
rv_amominu_d(c, i) == amo_uint64(c, i, Smaller(lhs64(c, i), RS2(c, i)))

-----------------------------------------------------------------------------
(* CSRs.  The first execution of a CSR instruction only ends the batch, so *)
(* that minstret is up to date in the second.                              *)

get_csr(c, i) == CASE i.csr = "mscratch" -> c.mscratch
                   [] i.csr \in {"minstret", "instret"} -> c.minstret
                   [] i.csr = "minstreth" -> c.minstret \div 2^WORD
set_csr(c, i, o, v) ==
  LET val == zext_xlen(c, v)
  IN CASE i.csr = "mscratch" -> [o EXCEPT !.mscratch = val]
       [] i.csr = "minstret" ->
            [o EXCEPT !.minstret = IF c.xlen = REG THEN val
                                   ELSE @ - uint32(@) + uint32(val)]
       [] i.csr = "minstreth" -> [o EXCEPT !.minstret = Mod(val * 2^WORD) + uint32(@)]
validate_csr(c, i, write, o) ==
  IF ~c.serialized THEN Throw(c, i, "serialize")
  ELSE require(c, i, write => i.csr # "instret", o)
CsrInsn(c, i, write, new) ==
  LET old == get_csr(c, i)
      o == Rd(c, i, sext_xlen(c, old))
  IN IF c.serialized /\ i.csr = "minstreth" /\ c.xlen = REG THEN Throw(c, i, "illegal")
     ELSE validate_csr(c, i, write, IF write THEN set_csr(c, i, o, new) ELSE o)
\* The bits of a not in b.
AndNot(a, b) == a - (a & b)
rv_csrrw(c, i) == CsrInsn(c, i, TRUE, RS1(c, i))
rv_csrrs(c, i) == CsrInsn(c, i, i.rs1 # 0, get_csr(c, i) | RS1(c, i))
rv_csrrc(c, i) == CsrInsn(c, i, i.rs1 # 0, AndNot(get_csr(c, i), RS1(c, i)))
rv_csrrwi(c, i) == CsrInsn(c, i, TRUE, i.rs1)
rv_csrrsi(c, i) == CsrInsn(c, i, i.rs1 # 0, get_csr(c, i) | i.rs1)
rv_csrrci(c, i) == CsrInsn(c, i, i.rs1 # 0, AndNot(get_csr(c, i), i.rs1))

-----------------------------------------------------------------------------
(* Compressed instructions.  rd is also the first operand of the two-      *)
(* address forms; the forms on the eight popular registers write rs1.  The *)
(* harts here have no floating point, so what RV32 does with c.flw and its *)
(* like is refused.                                                        *)

RVC_RS1(c, i) == c.x[i.rd]
Rs1s(c, i, v) == WriteReg(c, i, i.rs1, v)
rv_c_add(c, i) ==
  C(c, i, require(c, i, i.rs2 # 0, Rd(c, i, sext_xlen(c, RVC_RS1(c, i) + RS2(c, i)))))
rv_c_addi(c, i) == C(c, i, Rd(c, i, sext_xlen(c, RVC_RS1(c, i) + i.imm)))
rv_c_addi4spn(c, i) ==
  C(c, i, require(c, i, i.imm # 0, WriteReg(c, i, i.rs2, sext_xlen(c, c.x[X_SP] + i.imm))))
rv_c_addw(c, i) == C(c, i, RV64Only(c, i, Rs1s(c, i, Sext32(RS1(c, i) + RS2(c, i)))))
rv_c_and(c, i) == C(c, i, Rs1s(c, i, RS1(c, i) & RS2(c, i)))
rv_c_andi(c, i) == C(c, i, Rs1s(c, i, RS1(c, i) & Mod(i.imm)))
rv_c_beqz(c, i) == C(c, i, BranchIf(c, i, RS1(c, i) = 0))
rv_c_bnez(c, i) == C(c, i, BranchIf(c, i, RS1(c, i) # 0))
rv_c_ebreak(c, i) == C(c, i, Throw(c, i, "breakpoint"))
rv_c_flw(c, i) == C(c, i, RV64Only(c, i, load(c, i, i.rs2, LoadAddr(c, i), 8, TRUE)))
rv_c_flwsp(c, i) ==
  C(c, i, RV64Only(c, i, require(c, i, i.rd # 0, load(c, i, i.rd, c.x[X_SP] + i.imm, 8, TRUE))))
rv_c_fsw(c, i) == C(c, i, RV64Only(c, i, storeTo(c, i, LoadAddr(c, i), 8, RS2(c, i))))
rv_c_fswsp(c, i) == C(c, i, RV64Only(c, i, storeTo(c, i, c.x[X_SP] + i.imm, 8, RS2(c, i))))
rv_c_j(c, i) == C(c, i, set_pc(c, i, c.pc + i.imm))
rv_c_jal(c, i) ==
  C(c, i, IF c.xlen # REG THEN Link(c, i, X_RA, c.pc + i.imm)
          ELSE require(c, i, i.rd # 0, Rd(c, i, Sext32(RVC_RS1(c, i) + i.imm))))
rv_c_jalr(c, i) == C(c, i, require(c, i, i.rd # 0, Link(c, i, X_RA, Even(RVC_RS1(c, i)))))
rv_c_jr(c, i) == C(c, i, require(c, i, i.rd # 0, set_pc(c, i, Even(RVC_RS1(c, i)))))
rv_c_li(c, i) == C(c, i, require(c, i, i.rd # 0, Rd(c, i, Mod(i.imm))))
rv_c_lui(c, i) ==
  C(c, i, IF i.rd = X_SP
          THEN require(c, i, i.imm # 0, WriteReg(c, i, X_SP, sext_xlen(c, c.x[X_SP] + i.imm)))
          ELSE require(c, i, i.rd # 0, Rd(c, i, Mod(i.imm))))
rv_c_lw(c, i) == C(c, i, load(c, i, i.rs2, LoadAddr(c, i), 4, TRUE))
rv_c_lwsp(c, i) == C(c, i, require(c, i, i.rd # 0, load(c, i, i.rd, c.x[X_SP] + i.imm, 4, TRUE)))
rv_c_mv(c, i) == C(c, i, require(c, i, i.rs2 # 0, Rd(c, i, RS2(c, i))))
rv_c_or(c, i) == C(c, i, Rs1s(c, i, RS1(c, i) | RS2(c, i)))
rv_c_slli(c, i) ==
  C(c, i, require(c, i, i.imm < c.xlen, Rd(c, i, sext_xlen(c, Left(RVC_RS1(c, i), i.imm)))))
rv_c_srai(c, i) ==
  C(c, i, require(c, i, i.imm < c.xlen,
                  Rs1s(c, i, sext_xlen(c, Right(sreg(sext_xlen(c, RS1(c, i))), i.imm)))))
rv_c_srli(c, i) ==
  C(c, i, require(c, i, i.imm < c.xlen,
                  Rs1s(c, i, sext_xlen(c, Right(zext_xlen(c, RS1(c, i)), i.imm)))))
rv_c_sub(c, i) == C(c, i, Rs1s(c, i, sext_xlen(c, RS1(c, i) - RS2(c, i))))
rv_c_subw(c, i) == C(c, i, RV64Only(c, i, Rs1s(c, i, Sext32(RS1(c, i) - RS2(c, i)))))
rv_c_sw(c, i) == C(c, i, storeTo(c, i, LoadAddr(c, i), 4, RS2(c, i)))
rv_c_swsp(c, i) == C(c, i, storeTo(c, i, c.x[X_SP] + i.imm, 4, RS2(c, i)))
rv_c_xor(c, i) == C(c, i, Rs1s(c, i, RS1(c, i) ^^ RS2(c, i)))

-----------------------------------------------------------------------------
(* The function the decoder finds.                                         *)

Atomics == {"lr_w", "lr_d", "sc_w", "sc_d", "amoadd_w", "amoadd_d", "amoand_w", "amoand_d",
            "amoor_w", "amoor_d", "amoxor_w", "amoxor_d", "amoswap_w",
            "amoswap_d", "amomax_w", "amomax_d", "amomaxu_w", "amomaxu_d",
            "amomin_w", "amomin_d", "amominu_w", "amominu_d"}
Jumps == {"beq", "bne", "blt", "bge", "bltu", "bgeu", "jal", "jalr"}
LoadStores == {"lb", "lbu", "lh", "lhu", "lw", "lwu", "ld", "sb", "sh", "sw", "sd"}
CsrInsns == {"csrrw", "csrrs", "csrrc", "csrrwi", "csrrsi", "csrrci"}
Nops == {"fence", "fence_i", "wfi"}
Integer(c, i, o) ==
  CASE o = "add" -> rv_add(c, i) [] o = "addi" -> rv_addi(c, i) [] o = "addiw" -> rv_addiw(c, i)
    [] o = "addw" -> rv_addw(c, i) [] o = "sub" -> rv_sub(c, i) [] o = "subw" -> rv_subw(c, i)
    [] o = "and" -> rv_and(c, i) [] o = "andi" -> rv_andi(c, i) [] o = "or" -> rv_or(c, i)
    [] o = "ori" -> rv_ori(c, i) [] o = "xor" -> rv_xor(c, i) [] o = "xori" -> rv_xori(c, i)
    [] o = "slt" -> rv_slt(c, i) [] o = "slti" -> rv_slti(c, i) [] o = "sltu" -> rv_sltu(c, i)
    [] o = "sltiu" -> rv_sltiu(c, i) [] o = "lui" -> rv_lui(c, i) [] o = "auipc" -> rv_auipc(c, i)
    [] o = "sll" -> rv_sll(c, i) [] o = "srl" -> rv_srl(c, i) [] o = "sra" -> rv_sra(c, i)
    [] o = "slli" -> rv_slli(c, i) [] o = "srli" -> rv_srli(c, i) [] o = "srai" -> rv_srai(c, i)
    [] o = "sllw" -> rv_sllw(c, i) [] o = "srlw" -> rv_srlw(c, i) [] o = "sraw" -> rv_sraw(c, i)
    [] o = "slliw" -> rv_slliw(c, i) [] o = "srliw" -> rv_srliw(c, i)
    [] o = "sraiw" -> rv_sraiw(c, i) [] o = "mul" -> rv_mul(c, i) [] o = "mulw" -> rv_mulw(c, i)
    [] o = "mulh" -> rv_mulh(c, i) [] o = "mulhsu" -> rv_mulhsu(c, i)
    [] o = "mulhu" -> rv_mulhu(c, i) [] o = "div" -> rv_div(c, i) [] o = "rem" -> rv_rem(c, i)
    [] o = "divu" -> rv_divu(c, i) [] o = "remu" -> rv_remu(c, i) [] o = "divw" -> rv_divw(c, i)
    [] o = "remw" -> rv_remw(c, i) [] o = "divuw" -> rv_divuw(c, i) [] o = "remuw" -> rv_remuw(c, i)
ControlInsn(c, i, o) ==
  CASE o = "beq" -> rv_beq(c, i) [] o = "bne" -> rv_bne(c, i) [] o = "blt" -> rv_blt(c, i)
    [] o = "bge" -> rv_bge(c, i) [] o = "bltu" -> rv_bltu(c, i) [] o = "bgeu" -> rv_bgeu(c, i)
    [] o = "jal" -> rv_jal(c, i) [] o = "jalr" -> rv_jalr(c, i)
LoadStore(c, i, o) ==
  CASE o = "lb" -> rv_lb(c, i) [] o = "lbu" -> rv_lbu(c, i) [] o = "lh" -> rv_lh(c, i)
    [] o = "lhu" -> rv_lhu(c, i) [] o = "lw" -> rv_lw(c, i) [] o = "lwu" -> rv_lwu(c, i)
    [] o = "ld" -> rv_ld(c, i) [] o = "sb" -> rv_sb(c, i) [] o = "sh" -> rv_sh(c, i)
    [] o = "sw" -> rv_sw(c, i) [] o = "sd" -> rv_sd(c, i)
Atomic(c, i, o) ==
  CASE o = "lr_w" -> rv_lr_w(c, i) [] o = "lr_d" -> rv_lr_d(c, i) [] o = "sc_w" -> rv_sc_w(c, i)
    [] o = "sc_d" -> rv_sc_d(c, i) [] o = "amoadd_w" -> rv_amoadd_w(c, i)
    [] o = "amoadd_d" -> rv_amoadd_d(c, i) [] o = "amoand_w" -> rv_amoand_w(c, i)
    [] o = "amoand_d" -> rv_amoand_d(c, i) [] o = "amoor_w" -> rv_amoor_w(c, i)
    [] o = "amoor_d" -> rv_amoor_d(c, i) [] o = "amoxor_w" -> rv_amoxor_w(c, i)
    [] o = "amoxor_d" -> rv_amoxor_d(c, i) [] o = "amoswap_w" -> rv_amoswap_w(c, i)
    [] o = "amoswap_d" -> rv_amoswap_d(c, i) [] o = "amomax_w" -> rv_amomax_w(c, i)
    [] o = "amomax_d" -> rv_amomax_d(c, i) [] o = "amomaxu_w" -> rv_amomaxu_w(c, i)
    [] o = "amomaxu_d" -> rv_amomaxu_d(c, i) [] o = "amomin_w" -> rv_amomin_w(c, i)
    [] o = "amomin_d" -> rv_amomin_d(c, i) [] o = "amominu_w" -> rv_amominu_w(c, i)
    [] o = "amominu_d" -> rv_amominu_d(c, i)
Csr(c, i, o) ==
  CASE o = "csrrw" -> rv_csrrw(c, i) [] o = "csrrs" -> rv_csrrs(c, i)
    [] o = "csrrc" -> rv_csrrc(c, i) [] o = "csrrwi" -> rv_csrrwi(c, i)
    [] o = "csrrsi" -> rv_csrrsi(c, i) [] o = "csrrci" -> rv_csrrci(c, i)
CompressedInsn(c, i, o) ==
  CASE o = "c_add" -> rv_c_add(c, i) [] o = "c_addi" -> rv_c_addi(c, i)
    [] o = "c_addi4spn" -> rv_c_addi4spn(c, i) [] o = "c_addw" -> rv_c_addw(c, i)
    [] o = "c_and" -> rv_c_and(c, i) [] o = "c_andi" -> rv_c_andi(c, i)
    [] o = "c_beqz" -> rv_c_beqz(c, i) [] o = "c_bnez" -> rv_c_bnez(c, i)
    [] o = "c_ebreak" -> rv_c_ebreak(c, i) [] o = "c_flw" -> rv_c_flw(c, i)
    [] o = "c_flwsp" -> rv_c_flwsp(c, i) [] o = "c_fsw" -> rv_c_fsw(c, i)
    [] o = "c_fswsp" -> rv_c_fswsp(c, i) [] o = "c_j" -> rv_c_j(c, i)
    [] o = "c_jal" -> rv_c_jal(c, i) [] o = "c_jalr" -> rv_c_jalr(c, i)
    [] o = "c_jr" -> rv_c_jr(c, i) [] o = "c_li" -> rv_c_li(c, i) [] o = "c_lui" -> rv_c_lui(c, i)
    [] o = "c_lw" -> rv_c_lw(c, i) [] o = "c_lwsp" -> rv_c_lwsp(c, i) [] o = "c_mv" -> rv_c_mv(c, i)
    [] o = "c_or" -> rv_c_or(c, i) [] o = "c_slli" -> rv_c_slli(c, i)
    [] o = "c_srai" -> rv_c_srai(c, i) [] o = "c_srli" -> rv_c_srli(c, i)
    [] o = "c_sub" -> rv_c_sub(c, i) [] o = "c_subw" -> rv_c_subw(c, i)
    [] o = "c_sw" -> rv_c_sw(c, i) [] o = "c_swsp" -> rv_c_swsp(c, i)
    [] o = "c_xor" -> rv_c_xor(c, i)
func(c, i) ==
  LET o == i.op
  IN IF o \in Compressed THEN CompressedInsn(c, i, o)
     ELSE IF o \in Atomics THEN Atomic(c, i, o)
     ELSE IF o \in LoadStores THEN LoadStore(c, i, o)
     ELSE IF o \in Jumps THEN ControlInsn(c, i, o)
     ELSE IF o \in CsrInsns THEN Csr(c, i, o)
     ELSE IF o \in Nops THEN Ok(c, i)
     ELSE Integer(c, i, o)

-----------------------------------------------------------------------------
(* The loop.  Instructions retire into a local count that is added to      *)
(* minstret when the batch ends: when it is full, at a trap, or when a CSR *)
(* instruction asks for it.                                                *)

Batch(c) == [c EXCEPT !.minstret = Mod(@ + c.instret), !.instret = 0]
Written(x, r, v) == IF r = 0 THEN x ELSE [x EXCEPT ![r] = v]
\* validate_csr clears the flag whether or not the access is then refused.
Used(c, i) == c.serialized /\ i.op \notin CsrInsns
take_trap(c, i, o) ==
  Batch([c EXCEPT !.pc = HANDLER, !.res = o.res, !.serialized = Used(c, i)])
serialize_before(c) == Batch([c EXCEPT !.serialized = TRUE])
advance_pc(c, i, o) ==
  [c EXCEPT !.x = Written(@, o.rd, o.v), !.pc = o.npc, !.mem = o.mem, !.res = o.res,
            !.mscratch = o.mscratch, !.minstret = o.minstret,
            !.instret = @ + 1, !.serialized = Used(c, i)]

InsnsInit == \E s \in DOMAIN Suites :
  /\ suite = s /\ core \in Suites[s].cores /\ pending = NoInsn
  /\ last = [insn |-> NoInsn, trap |-> "none"]
  /\ executed = 0 /\ retired = core.minstret /\ drifted = FALSE

Serialize(i, o) ==
  /\ o.trap = "serialize"
  /\ core' = serialize_before(core) /\ pending' = i
  /\ UNCHANGED <<last, executed, retired>>
Trap(i, o) ==
  /\ o.trap \notin {"none", "serialize"}
  /\ core' = take_trap(core, i, o) /\ pending' = NoInsn
  /\ last' = [insn |-> i, trap |-> o.trap] /\ executed' = executed + 1
  /\ UNCHANGED retired
Retire(i, o) ==
  /\ o.trap = "none"
  /\ core' = advance_pc(core, i, o) /\ pending' = NoInsn
  /\ last' = [insn |-> i, trap |-> "none"] /\ executed' = executed + 1
  /\ retired' = Mod(1 + IF o.minstret = core.minstret THEN retired ELSE o.minstret)
Exec == \E i \in IF pending = NoInsn THEN Menu[suite].insns ELSE {pending} :
  /\ executed < Menu[suite].max
  /\ \/ Serialize(i, func(core, i))
     \/ Trap(i, func(core, i))
     \/ Retire(i, func(core, i))
  /\ UNCHANGED <<suite, drifted>>
EndBatch ==
  /\ core.instret # 0 /\ core' = Batch(core)
  /\ UNCHANGED <<suite, pending, last, executed, retired, drifted>>
\* Interrupts are taken between batches only.
Interrupt ==
  /\ core.instret = 0 /\ core.pc # HANDLER
  /\ core' = [core EXCEPT !.pc = HANDLER] /\ pending' = NoInsn
  /\ drifted' = (drifted \/ core.serialized)
  /\ UNCHANGED <<suite, last, executed, retired>>
InsnsNext == Exec \/ EndBatch \/ Interrupt

-----------------------------------------------------------------------------
(* What the instructions mean, in numbers of xlen bits: a compressed one   *)
(* is the instruction it stands for, and RV64 says what those compute.     *)

Arch64 == INSTANCE RV64 WITH XLEN <- REG, IMM <- REG, UIMM <- REG, NREG <- 4, MEMWORDS <- 1,
                             code <- <<>>, pc <- 0, X <- <<>>, mem <- <<>>
Arch32 == INSTANCE RV64 WITH XLEN <- WORD, IMM <- WORD, UIMM <- WORD, NREG <- 4,
                             MEMWORDS <- 1, code <- <<>>, pc <- 0, X <- <<>>, mem <- <<>>
AluAt(n, op, a, b) == IF n = REG THEN Arch64!Alu(op, a, b) ELSE Arch32!Alu(op, a, b)
HoldsAt(n, op, a, b) == IF n = REG THEN Arch64!Holds(op, a, b) ELSE Arch32!Holds(op, a, b)
For(i, op, rd, rs1, rs2) == [i EXCEPT !.op = op, !.rd = rd, !.rs1 = rs1, !.rs2 = rs2]
Expand(c, i) ==
  LET o == i.op
      In(S) == o \in S
  IN CASE In({"c_add", "c_mv"}) -> For(i, "add", i.rd, IF o = "c_mv" THEN 0 ELSE i.rd, i.rs2)
       [] In({"c_addi", "c_li"}) -> For(i, "addi", i.rd, IF o = "c_li" THEN 0 ELSE i.rd, 0)
       [] o = "c_addi4spn" -> For(i, "addi", i.rs2, X_SP, 0)
       [] o = "c_addw" -> For(i, "addw", i.rs1, i.rs1, i.rs2)
       [] o = "c_subw" -> For(i, "subw", i.rs1, i.rs1, i.rs2)
       [] o = "c_sub" -> For(i, "sub", i.rs1, i.rs1, i.rs2)
       [] o = "c_and" -> For(i, "and", i.rs1, i.rs1, i.rs2)
       [] o = "c_or" -> For(i, "or", i.rs1, i.rs1, i.rs2)
       [] o = "c_xor" -> For(i, "xor", i.rs1, i.rs1, i.rs2)
       [] o = "c_andi" -> For(i, "andi", i.rs1, i.rs1, 0)
       [] o = "c_slli" -> For(i, "slli", i.rd, i.rd, 0)
       [] o = "c_srli" -> For(i, "srli", i.rs1, i.rs1, 0)
       [] o = "c_srai" -> For(i, "srai", i.rs1, i.rs1, 0)
       [] o = "c_beqz" -> For(i, "beq", 0, i.rs1, 0)
       [] o = "c_bnez" -> For(i, "bne", 0, i.rs1, 0)
       [] o = "c_j" -> For(i, "jal", 0, 0, 0)
       [] o = "c_jal" -> IF c.xlen = REG THEN For(i, "addiw", i.rd, i.rd, 0)
                         ELSE For(i, "jal", X_RA, 0, 0)
       [] In({"c_jr", "c_jalr"}) ->
            [For(i, "jalr", IF o = "c_jr" THEN 0 ELSE X_RA, i.rd, 0) EXCEPT !.imm = 0]
       [] o = "c_lui" -> IF i.rd = X_SP THEN For(i, "addi", X_SP, X_SP, 0)
                         ELSE For(i, "lui", i.rd, 0, 0)
       [] In({"c_lw", "c_flw"}) -> For(i, IF o = "c_lw" THEN "lw" ELSE "ld", i.rs2, i.rs1, 0)
       [] In({"c_lwsp", "c_flwsp"}) ->
            For(i, IF o = "c_lwsp" THEN "lw" ELSE "ld", i.rd, X_SP, 0)
       [] In({"c_sw", "c_fsw"}) -> For(i, IF o = "c_sw" THEN "sw" ELSE "sd", 0, i.rs1, i.rs2)
       [] In({"c_swsp", "c_fswsp"}) ->
            For(i, IF o = "c_swsp" THEN "sw" ELSE "sd", 0, X_SP, i.rs2)
       [] OTHER -> i

WordInsns == {"addiw", "addw", "subw", "sllw", "srlw", "sraw", "slliw", "srliw", "sraiw",
          "mulw", "divw", "remw", "divuw", "remuw"}
Multiplies == {"mul", "mulh", "mulhsu", "mulhu", "mulw", "div", "divu", "rem", "remu",
               "divw", "divuw", "remw", "remuw"}
Doublewords == {"lr_d", "sc_d", "amoadd_d", "amoand_d", "amoor_d", "amoxor_d", "amoswap_d",
           "amomax_d", "amomaxu_d", "amomin_d", "amominu_d"}
Reserved(c, i) ==
  \/ i.op \in {"c_lwsp", "c_flwsp", "c_jr", "c_jalr", "c_li", "c_lui"} /\ i.rd = 0
  \/ i.op = "c_jal" /\ c.xlen = REG /\ i.rd = 0
  \/ i.op \in {"c_add", "c_mv"} /\ i.rs2 = 0
  \/ i.op \in {"c_addi4spn", "c_lui"} /\ i.imm = 0
CsrWrites(i) == i.op \in {"csrrw", "csrrwi"} \/ i.rs1 # 0
LegalInsn(c, i) ==
  LET e == Expand(c, i)
  IN /\ i.op \in Compressed => "C" \in c.ext /\ ~Reserved(c, i)
     /\ e.op \in WordInsns \cup Doublewords \cup {"lwu", "ld", "sd"} => c.xlen = REG
     /\ e.op \in Multiplies => "M" \in c.ext
     /\ e.op \in Atomics => "A" \in c.ext
     /\ e.op \in {"slli", "srli", "srai"} => e.imm < c.xlen
     /\ e.op \in CsrInsns => /\ e.csr = "minstreth" => c.xlen # REG
                             /\ e.csr = "instret" => ~CsrWrites(e)
Low(c, v) == v % 2^c.xlen
Target(c, e) == Low(c, IF e.op = "jalr" THEN Even(Low(c, RS1(c, e) + e.imm)) ELSE c.pc + e.imm)
Taken(c, e) ==
  \/ e.op \in {"jal", "jalr"}
  \/ /\ e.op \in Jumps \ {"jal", "jalr"}
     /\ HoldsAt(c.xlen, e.op, Low(c, RS1(c, e)), Low(c, RS2(c, e)))
SizeOf(e) == IF e.op \in Doublewords THEN 8 ELSE IF e.op \in Atomics THEN 4 ELSE Arch64!Size[e.op]
Address(c, e) == Low(c, RS1(c, e) + IF e.op \in Atomics THEN 0 ELSE e.imm)
Accesses(c, e) == \/ e.op \in LoadStores
                  \/ e.op \in Atomics /\ (e.op \in {"sc_w", "sc_d"} => RS1(c, e) = c.res)
Reads(e) == e.op \in {"lr_w", "lr_d"} \cup Arch64!Loads
Cause(c, i) ==
  LET e == Expand(c, i)
  IN IF ~LegalInsn(c, i) THEN "illegal"
     ELSE IF e.op = "c_ebreak" THEN "breakpoint"
     ELSE IF Taken(c, e) /\ Target(c, e) % 4 # 0 /\ "C" \notin c.ext THEN "fetch_misaligned"
     ELSE IF Accesses(c, e) /\ Address(c, e) % SizeOf(e) # 0 
       THEN IF Reads(e) THEN "load_misaligned" ELSE "store_misaligned"
     ELSE IF Accesses(c, e) /\ Address(c, e) + SizeOf(e) > BYTES 
       THEN IF Reads(e) THEN "load_fault" ELSE "store_fault"
     ELSE "none"

Old(c, e) == Arch64!Bytes(c.mem, Address(c, e), SizeOf(e))
\* What an atomic leaves of lhs and the operand r, both of k bits.
Combined(op, k, lhs, r) ==
  LET Less(signed) == AluAt(k, IF signed THEN "slt" ELSE "sltu", lhs, r) = 1
  IN CASE op \in {"amoadd_w", "amoadd_d"} -> AluAt(k, "add", lhs, r)
       [] op \in {"amoand_w", "amoand_d"} -> AluAt(k, "and", lhs, r)
       [] op \in {"amoor_w", "amoor_d"} -> AluAt(k, "or", lhs, r)
       [] op \in {"amoxor_w", "amoxor_d"} -> AluAt(k, "xor", lhs, r)
       [] op \in {"amomax_w", "amomax_d"} -> IF Less(TRUE) THEN r ELSE lhs
       [] op \in {"amomaxu_w", "amomaxu_d"} -> IF Less(FALSE) THEN r ELSE lhs
       [] op \in {"amomin_w", "amomin_d"} -> IF Less(TRUE) THEN lhs ELSE r
       [] op \in {"amominu_w", "amominu_d"} -> IF Less(FALSE) THEN lhs ELSE r
       [] op \in {"lr_w", "lr_d"} -> lhs
       [] OTHER -> r
MemAfter(c, e) ==
  IF ~Accesses(c, e) \/ Reads(e) THEN c.mem
  ELSE LET r == RS2(c, e) % 2^BitsOf(SizeOf(e))
       IN Arch64!Patched(c.mem, Address(c, e), SizeOf(e),
            IF e.op \in LoadStores THEN r ELSE Combined(e.op, BitsOf(SizeOf(e)), Old(c, e), r))
\* The counter is the number of instructions retired, not what the register holds.
CsrOld(c, e) == CASE e.csr = "mscratch" -> c.mscratch
                  [] e.csr \in {"minstret", "instret"} -> Low(c, retired)
                  [] e.csr = "minstreth" -> retired \div 2^WORD
CsrNew(c, e) ==
  LET r == Low(c, IF e.op \in {"csrrw", "csrrs", "csrrc"} THEN RS1(c, e) ELSE e.rs1)
  IN CASE e.op \in {"csrrw", "csrrwi"} -> r
       [] e.op \in {"csrrs", "csrrsi"} -> CsrOld(c, e) | r
       [] OTHER -> AndNot(CsrOld(c, e), r)
Result(c, i, e) ==
  LET a == Low(c, RS1(c, e))
      R == Arch64!RegForm
  IN CASE e.op \in DOMAIN R -> AluAt(c.xlen, R[e.op], a, Low(c, e.imm))
       [] e.op = "lui" -> e.imm
       [] e.op = "auipc" -> c.pc + e.imm
       [] e.op \in {"jal", "jalr"} -> c.pc + IF i.op \in Compressed THEN 2 ELSE 4
       [] e.op \in Arch64!Unsigned -> Old(c, e)
       [] e.op \in {"sc_w", "sc_d"} -> Truth(~Accesses(c, e))
       [] e.op \in Atomics \cup Arch64!Loads -> SignedAt(Old(c, e), BitsOf(SizeOf(e)))
       [] e.op \in CsrInsns -> CsrOld(c, e)
       [] OTHER -> AluAt(c.xlen, e.op, a, Low(c, RS2(c, e)))
WritesRd(e) == e.op \notin Nops \cup (Jumps \ {"jal", "jalr"}) \cup Arch64!Stores
Meant(c, i) ==
  LET e == Expand(c, i)
      to == IF Taken(c, e) THEN Target(c, e) ELSE c.pc + IF i.op \in Compressed THEN 2 ELSE 4
  IN [x |-> IF WritesRd(e) /\ e.rd # 0
            THEN [c.x EXCEPT ![e.rd] = Mod(SignedAt(Result(c, i, e), c.xlen))] ELSE c.x,
      mem |-> MemAfter(c, e), pc |-> Low(c, to),
      mscratch |-> IF e.op \in CsrInsns /\ e.csr = "mscratch" /\ CsrWrites(e)
                   THEN CsrNew(c, e) ELSE c.mscratch]
\* A write of the counter is counted itself.
Counted(c, e) ==
  LET v == CsrNew(c, e)
  IN Mod(1 + IF e.op \notin CsrInsns \/ e.csr \notin {"minstret", "minstreth"} \/ ~CsrWrites(e)
             THEN retired
             ELSE IF c.xlen = REG THEN v
             ELSE IF e.csr = "minstret" THEN (retired - uint32(retired)) + v
             ELSE v * 2^WORD + uint32(retired))

(* An instruction does what the architecture says of it: in RV64 and in    *)
(* RV32, where each result must leave the wider variable sign-extended for *)
(* the next one; the compressed form like the one it stands for; a refused *)
(* or faulting one changes no register and no memory and reports the right *)
(* cause; and reading the retired-instruction counter inside a batch gives *)
(* the exact count, unless an interrupt came between the serialization of  *)
(* the access and the access.                                              *)
InsnsExact == [][
  LET i == last'.insn
      m == Meant(core, i)
  IN /\ \A r \in DOMAIN core'.x : core'.x[r] = sext_xlen(core', core'.x[r])
     /\ executed' = executed => core'.x = core.x /\ core'.mem = core.mem
     /\ executed' # executed => last'.trap = Cause(core, i)
     /\ executed' # executed /\ last'.trap # "none" =>
          core'.x = core.x /\ core'.mem = core.mem /\ core'.pc = HANDLER
     /\ executed' # executed /\ last'.trap = "none" /\ ~drifted =>
          /\ core'.x = m.x /\ core'.mem = m.mem /\ core'.mscratch = m.mscratch
          /\ Low(core, core'.pc) = m.pc /\ retired' = Counted(core, Expand(core, i))
     /\ ~drifted' => Mod(core'.minstret + core'.instret) = retired']_xvars
=============================================================================
