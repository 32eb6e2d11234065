-------------------------------- MODULE MCIss --------------------------------
(* Programs for the simulator of ISS.tla on 16-bit registers: a byte has two *)
(* bits, a word eight, immediates four.                                      *)
EXTENDS ISS, TLC

I(op, rd, rs1, rs2, imm) == [op |-> op, rd |-> rd, rs1 |-> rs1, rs2 |-> rs2, imm |-> imm]
P(code, a, b, w0, w1) ==
  [code |-> code, regs |-> (0 :> 0 @@ 1 :> 0 @@ 2 :> a @@ 3 :> b),
   mem |-> (0 :> w0 @@ 1 :> w1)]

\* The edges of the signed and unsigned words and doublewords.
Edges == {0, 1, 7, 127, 128, 255, 256, 32767, 32768, 65281, 65535}
Small == {0, 1, 7, 100, 181}
Aliases == {1, 2}
Wide == {"mulh", "mulhu", "mulhsu"}

IntegerOps ==
  {P(<<I(op, rd, 2, 3, 0)>>, a, b, 0, 0) :
     op \in RType \ Wide, rd \in Aliases, a \in Edges, b \in Edges}
  \cup {P(<<I(op, 1, 2, 3, 0)>>, a, b, 0, 0) : op \in Wide, a \in Small, b \in Small}
  \cup {P(<<I(op, rd, 2, 3, imm)>>, a, 0, 0, 0) :
     op \in {"addi", "slti", "sltiu", "xori", "ori", "andi", "addiw", "lui"},
     rd \in {2}, imm \in 0..15, a \in Edges}
  \cup {P(<<I(op, 2, 2, 3, imm)>>, a, 0, 0, 0) :
     op \in {"slli", "srli", "srai"}, imm \in 0..15, a \in Edges}
  \cup {P(<<I(op, 2, 2, 3, imm)>>, a, 0, 0, 0) :
     op \in {"slliw", "srliw", "sraiw"}, imm \in 0..7, a \in Edges}
\* The division that faults, and the one whose result the build decides.
Faulting(p) == LET i == p.code[1]
               IN i.op = "divw" /\ bin2dec32(p.regs[2]) = -128 /\ bin2dec32(p.regs[3]) = -1

\* A store, then a load of the same doubleword or of its neighbour.
Memory ==
  {p \in {P(<<I(st, 0, 2, 3, imm), I(ldr, 1, 2, 0, imm2)>>, a, v, 13261, 54321) :
            st \in SType, ldr \in {"lb", "lh", "lw", "ld", "lbu", "lhu", "lwu"},
            a \in {0, 4, 8, 15}, imm \in {0, 3, 8, 14}, imm2 \in {0, 8, 13},
            v \in {65, 65535, 33153}} :
     LET At(k) == RV!S(p.code[k].imm, IMM) + p.regs[2]
     IN \A k \in 1..2 : At(k) \in 0..15 /\ At(k) % RV!Size[p.code[k].op] = 0}

\* Control: a jump or branch among additions, every target in and around the
\* program.  Offsets are multiples of four, and no branch targets itself.
Count == I("addi", 1, 1, 0, 1)
At(n, k, i) == [j \in 1..n |-> IF j = k THEN i ELSE Count]
Control ==
  {P(At(4, k, I(op, 0, 2, 3, imm)), ab[1], ab[2], 0, 0) :
     op \in SBType, k \in 1..4, imm \in {2, 4, 6, 8, 10, 12, 14},
     ab \in {<<0, 0>>, <<1, 2>>, <<2, 1>>, <<65535, 1>>, <<1, 65535>>}}
  \cup {P(At(4, k, I("jal", rd, 0, 0, imm)), 0, 0, 0, 0) :
     k \in 1..4, rd \in 0..2, imm \in {0, 2, 4, 6, 8, 10, 12, 14}}
  \cup {P(At(4, k, I("jalr", rd, 2, 0, imm)), a, 0, 0, 0) :
     k \in 1..4, rd \in 0..2, imm \in {0, 4, 12}, a \in {0, 4, 8, 12, 16, 24}}
  \cup {P(At(4, k, I("auipc", 1, 0, 0, imm)), 0, 0, 0, 0) : k \in 1..4, imm \in 0..15}

Exercises == {p \in IntegerOps : ~Faulting(p)} \cup Memory \cup Control
===============================================================================
