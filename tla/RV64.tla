--------------------------------- MODULE RV64 ---------------------------------
(***************************************************************************)
(* The user-level integer architecture a simulator of this repository is   *)
(* measured against: a program counter, the integer registers and a flat   *)
(* memory, one atomic step per instruction.  It is written from the        *)
(* meaning of the instructions, with arithmetic on whole numbers, and      *)
(* shares nothing with the bit-array code it is compared with.  All widths *)
(* are derived from XLEN (64 in the code) so that small instances keep the *)
(* proportions: a word is half a register, a byte an eighth of it.         *)
(***************************************************************************)
EXTENDS Integers, Sequences, FiniteSets, Bitwise

CONSTANTS XLEN,      \* bits of a register
          IMM,       \* bits of an I, S or B immediate (12)
          UIMM,      \* bits of a U or J immediate (20)
          NREG,      \* registers (32)
          MEMWORDS   \* doublewords of memory (1048576)

VARIABLES code, pc, X, mem

rvars == <<code, pc, X, mem>>

W == XLEN \div 2
BYTE == XLEN \div 8

\* The signed reading of the low n bits of x, and the n-bit pattern of a number.
S(x, n) == LET u == x % 2^n IN IF u >= 2^(n - 1) THEN u - 2^n ELSE u
U(x) == x % 2^XLEN

\* Division rounds towards zero; the remainder has the sign of the dividend.
Abs(n) == IF n < 0 THEN -n ELSE n
Quot(a, b) == IF (a < 0) = (b < 0) THEN Abs(a) \div Abs(b) ELSE -(Abs(a) \div Abs(b))
DivS(a, b) == IF b = 0 THEN -1 ELSE Quot(a, b)
RemS(a, b) == IF b = 0 THEN a ELSE a - b * Quot(a, b)

\* A 32-bit result is always kept sign-extended.
Word(n) == U(S(n, W))

Alu(op, a, b) ==
  LET sa == S(a, XLEN)  sb == S(b, XLEN)
      wa == S(a, W)     wb == S(b, W)
      sh == b % XLEN    shw == b % W
  IN CASE op = "add" -> U(sa + sb)
       [] op = "sub" -> U(sa - sb)
       [] op = "and" -> a & b
       [] op = "or" -> a | b
       [] op = "xor" -> a ^^ b
       [] op = "slt" -> IF sa < sb THEN 1 ELSE 0
       [] op = "sltu" -> IF a < b THEN 1 ELSE 0
       [] op = "sll" -> U(a * 2^sh)
       [] op = "srl" -> a \div 2^sh
       [] op = "sra" -> U(sa \div 2^sh)
       [] op = "addw" -> Word(wa + wb)
       [] op = "subw" -> Word(wa - wb)
       [] op = "sllw" -> Word(wa * 2^shw)
       [] op = "srlw" -> Word((a % 2^W) \div 2^shw)
       [] op = "sraw" -> Word(wa \div 2^shw)
       [] op = "mul" -> U(sa * sb)
       [] op = "mulh" -> U((sa * sb) \div 2^XLEN)
       [] op = "mulhu" -> U((a * b) \div 2^XLEN)
       [] op = "mulhsu" -> U((sa * b) \div 2^XLEN)
       [] op = "mulw" -> Word(wa * wb)
       [] op = "div" -> U(DivS(sa, sb))
       [] op = "divu" -> IF b = 0 THEN 2^XLEN - 1 ELSE a \div b
       [] op = "rem" -> U(RemS(sa, sb))
       [] op = "remu" -> IF b = 0 THEN a ELSE a % b
       [] op = "divw" -> Word(DivS(wa, wb))
       [] op = "remw" -> Word(RemS(wa, wb))
       [] op = "divuw" -> IF b % 2^W = 0 THEN 2^XLEN - 1 ELSE Word((a % 2^W) \div (b % 2^W))
       [] op = "remuw" -> Word(IF b % 2^W = 0 THEN a ELSE (a % 2^W) % (b % 2^W))

\* An immediate form computes what the register form would.
RegForm == [addi |-> "add", slti |-> "slt", sltiu |-> "sltu", xori |-> "xor",
            ori |-> "or", andi |-> "and", slli |-> "sll", srli |-> "srl",
            srai |-> "sra", addiw |-> "addw", slliw |-> "sllw",
            srliw |-> "srlw", sraiw |-> "sraw"]
ShiftImm == {"slli", "srli", "srai", "slliw", "srliw", "sraiw"}
AluOps == {"add", "sub", "and", "or", "xor", "slt", "sltu", "sll", "srl", "sra",
           "addw", "subw", "sllw", "srlw", "sraw", "mul", "mulh", "mulhu",
           "mulhsu", "mulw", "div", "divu", "rem", "remu", "divw"}

Size == [lb |-> 1, lbu |-> 1, lh |-> 2, lhu |-> 2, lw |-> 4, lwu |-> 4, ld |-> 8,
         sb |-> 1, sh |-> 2, sw |-> 4, sd |-> 8]
Loads == {"lb", "lbu", "lh", "lhu", "lw", "lwu", "ld"}
Unsigned == {"lbu", "lhu", "lwu"}
Stores == {"sb", "sh", "sw", "sd"}

Holds(op, a, b) == CASE op = "beq" -> a = b
                     [] op = "bne" -> a # b
                     [] op = "blt" -> S(a, XLEN) < S(b, XLEN)
                     [] op = "bge" -> S(a, XLEN) >= S(b, XLEN)
                     [] op = "bltu" -> a < b
                     [] op = "bgeu" -> a >= b
Branches == {"beq", "bne", "blt", "bge", "bltu", "bgeu"}

\* n bytes of doubleword w from byte b on, and w with them replaced by v.
Bytes(w, b, n) == (w \div 2^(BYTE * b)) % 2^(BYTE * n)
Patched(w, b, n, v) ==
  w + ((v % 2^(BYTE * n)) - Bytes(w, b, n)) * 2^(BYTE * b)

InCode(a) == a % 4 = 0 /\ a \div 4 \in 0..Len(code) - 1
\* The program ends when control leaves it; x0 is never written.
Goto(a) == pc' = IF InCode(a) THEN a ELSE -1
WriteX(rd, v) == X' = IF rd = 0 THEN X ELSE [X EXCEPT ![rd] = v]

Execute(i) ==
  LET a == X[i.rs1]
      b == X[i.rs2]
      addr == S(a, XLEN) + S(i.imm, IMM)
  IN \/ /\ i.op \in AluOps
        /\ WriteX(i.rd, Alu(i.op, a, b)) /\ Goto(pc + 4) /\ UNCHANGED mem
     \/ /\ i.op \in DOMAIN RegForm
        /\ WriteX(i.rd, Alu(RegForm[i.op], a,
                            IF i.op \in ShiftImm THEN i.imm ELSE U(S(i.imm, IMM))))
        /\ Goto(pc + 4) /\ UNCHANGED mem
     \/ /\ i.op \in {"lui", "auipc"}
        /\ WriteX(i.rd, U(S(i.imm, UIMM) * 2^(W - UIMM)
                            + (IF i.op = "lui" THEN 0 ELSE pc)))
        /\ Goto(pc + 4) /\ UNCHANGED mem
     \/ /\ i.op \in Loads
        /\ LET v == Bytes(mem[addr \div 8], addr % 8, Size[i.op])
           IN WriteX(i.rd, IF i.op \in Unsigned THEN v ELSE U(S(v, BYTE * Size[i.op])))
        /\ Goto(pc + 4) /\ UNCHANGED mem
     \/ /\ i.op \in Stores
        /\ mem' = [mem EXCEPT ![addr \div 8] = Patched(@, addr % 8, Size[i.op], b)]
        /\ Goto(pc + 4) /\ UNCHANGED X
     \/ /\ i.op \in Branches
        /\ Goto(pc + IF Holds(i.op, a, b) THEN 2 * S(i.imm, IMM) ELSE 4)
        /\ UNCHANGED <<X, mem>>
     \/ /\ i.op = "jal"
        /\ WriteX(i.rd, U(pc + 4)) /\ Goto(pc + 2 * S(i.imm, UIMM)) /\ UNCHANGED mem
     \/ /\ i.op = "jalr"
        /\ WriteX(i.rd, U(pc + 4)) /\ Goto(addr) /\ UNCHANGED mem

Init == pc = (IF code = <<>> THEN -1 ELSE 0) /\ X[0] = 0

Next == pc # -1 /\ Execute(code[pc \div 4 + 1]) /\ UNCHANGED code

Spec == Init /\ [][Next]_rvars

===============================================================================
