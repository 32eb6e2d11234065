------------------------------- MODULE MCInsns -------------------------------
(* Harts and instructions for SpikeInsns.  A suite whose harts start at the  *)
(* handler meets no interrupt before its first trap.                         *)
EXTENDS SpikeInsns

CoreOf(xlen, ext, x1, x2, p) ==
  [xlen |-> xlen, ext |-> ext, x |-> [r \in 0..3 |-> <<0, x1, x2, 6>>[r + 1]], pc |-> p,
   mem |-> 165, res |-> 2^REG - 1, mscratch |-> 9, minstret |-> 14,
   serialized |-> FALSE, instret |-> 0]
All == {"M", "A", "C"}
Insn(op, rd, rs1, rs2, imm) ==
  [op |-> op, rd |-> rd, rs1 |-> rs1, rs2 |-> rs2, imm |-> imm, csr |-> ""]

Values(xlen) == IF xlen = WORD THEN {Mod(v) : v \in -8..7}
                ELSE {0, 1, 3, 7, 8, 15, 16, 100, 127, 128, 129, 240, 255}
Few(xlen) == IF xlen = WORD THEN {0, 1, 7, 248, 255} ELSE {0, 7, 128, 248, 255}
Shifts == {"slli", "srli", "srai", "slliw", "srliw", "sraiw"}
Immediates == {"addi", "addiw", "andi", "ori", "xori", "slti", "sltiu"}
Computing ==
  {Insn(o, d, 1, 2, 0) : o \in Arch64!AluOps \cup {"remw", "divuw", "remuw"}, d \in {0, 3}}
  \cup {Insn(o, 3, 1, 0, k) : o \in Immediates, k \in {-8, -1, 0, 3, 7}}
  \cup {Insn(o, 3, 1, 0, k) : o \in Shifts, k \in {0, 1, 3}}
  \cup {Insn(o, 3, 1, 0, k) : o \in Shifts \ {"slliw", "srliw", "sraiw"}, k \in {4, 7}}
  \cup {Insn(o, 3, 0, 0, k) : o \in {"lui", "auipc"}, k \in {-8, 4}}
Memory1 == {Insn(o, 3, 1, 2, k) : o \in LoadStores, k \in {0, 1, 4}}
           \cup {Insn(o, 3, 1, 2, 0) : o \in Atomics}
Jumping == {Insn(o, d, 1, 2, k) : o \in Jumps, d \in {0, 1}, k \in {-4, 2, 4, 6}}
           \cup {Insn(o, 0, 0, 0, 0) : o \in Nops}
TwoRegs == {"c_add", "c_mv", "c_sub", "c_xor", "c_or", "c_and", "c_subw", "c_addw"}
Positive == {"c_slli", "c_srli", "c_srai"}
Offsets == {"c_addi4spn", "c_lw", "c_sw", "c_lwsp", "c_swsp",
            "c_flw", "c_fsw", "c_flwsp", "c_fswsp"}
Signed1 == {"c_addi", "c_li", "c_jal", "c_andi"}
Short == {Insn(o, d, 1, s, 0) : o \in TwoRegs, d \in {0, 3}, s \in {0, 2}}
         \cup {Insn(o, d, 1, 3, k) : o \in Positive, d \in {0, 3}, k \in {0, 1, 3, 5}}
         \cup {Insn(o, d, 1, 3, k) : o \in Offsets, d \in {0, 3}, k \in {0, 4}}
         \cup {Insn(o, d, 1, 0, k) : o \in Signed1, d \in {0, 3}, k \in {-2, 0, 2}}
         \cup {Insn("c_lui", d, 0, 0, k) : d \in {0, 2, 3}, k \in {-4, 4}}
         \cup {Insn("c_lui", 2, 0, 0, 0), Insn("c_ebreak", 0, 0, 0, 0)}
         \cup {Insn(o, d, 1, 0, k) : o \in {"c_beqz", "c_bnez", "c_j", "c_jr", "c_jalr"},
                                    d \in {0, 1}, k \in {-4, 2}}
CsrInsnsOn(ops, csrs) ==
  {[Insn(o, 3, s, 0, 0) EXCEPT !.csr = k] : o \in ops, k \in csrs, s \in {0, 1}}
Counters ==
  CsrInsnsOn(CsrInsns, {"mscratch", "minstret", "instret", "minstreth"})
  \cup {Insn("addi", 2, 2, 0, 1), Insn("c_ebreak", 0, 0, 0, 0)}
Timing == CsrInsnsOn({"csrrs"}, {"instret"}) \cup CsrInsnsOn({"csrrw"}, {"minstret"})
          \cup {Insn("addi", 2, 2, 0, 1), Insn("c_ebreak", 0, 0, 0, 0)}

Widths == {WORD, REG}
Suite(cores, insns, max) == [cores |-> cores, insns |-> insns, max |-> max]
Tests ==
  [arithmetic |->
     Suite(UNION {{CoreOf(n, All, a, b, HANDLER) : a, b \in Values(n)} : n \in Widths},
           Computing, 1),
   refused |->
     Suite({CoreOf(n, {}, 1, 4, 0) : n \in Widths},
           Computing \cup Memory1 \cup Jumping \cup Short \cup Counters, 1),
   memory |->
     Suite({CoreOf(n, All, a, b, HANDLER)
              : n \in Widths, a \in {0, 2, 4, 7, 248}, b \in {3, 249}}, Memory1, 2),
   jumps |->
     Suite(UNION {{CoreOf(n, e, a, b, p) : a, b \in Few(n), p \in {0, 4, 252}}
                  : n \in Widths, e \in {{}, All}}, Jumping, 1),
   short |->
     Suite(UNION {{CoreOf(n, All, a, b, HANDLER) : a, b \in Few(n)} : n \in Widths}, Short, 1),
   counters |->
     Suite({[CoreOf(n, All, 3, 0, 0) EXCEPT !.minstret = k] : n \in Widths, k \in {0, 15, 255}},
           Counters, 2),
   timing |->
     Suite({CoreOf(n, All, 3, 0, 0) : n \in Widths}, Timing, 4)]
===============================================================================
