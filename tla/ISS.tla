---------------------------------- MODULE ISS ---------------------------------
(***************************************************************************)
(* The instruction-set simulator of tools/verification/ISS, whose register *)
(* dump is the reference the I-class core is compared with.  Registers are *)
(* arrays of bits in the code and numbers below 2^XLEN here; every handler *)
(* is one operator from machine to machine, and one step of the            *)
(* specification is one turn of the loop of main().  The program is a file *)
(* of lines: PC counts instructions, pos counts the lines fgets has        *)
(* consumed, and the two are kept in step by each branch handler by hand.  *)
(***************************************************************************)
EXTENDS Integers, Sequences, FiniteSets, FiniteSetsExt

CONSTANTS XLEN, IMM, UIMM, NREG, MEMWORDS,
          QMAX,       \* lines kept in the trace queue (1024)
          MaxSteps,   \* bound on the turns of main's loop
          DIVU0,      \* what the build makes of (uint64_t)(pow(2,64)-1)
          Programs    \* the runs to examine: [code, regs, mem]

ASSUME IssConstants == /\ XLEN \in Nat /\ XLEN % 8 = 0 /\ XLEN > 0
                       /\ IMM \in 2..XLEN \div 2 /\ UIMM \in 2..XLEN \div 2
                       /\ NREG \in Nat \ {0} /\ MEMWORDS \in Nat \ {0}
                       /\ QMAX \in Nat /\ MaxSteps \in Nat
                       /\ DIVU0 \in {0, 2^XLEN - 1}

VARIABLES prog,   \* ISS/input.hex
          m,      \* Rreg, Memo, PC, the file position, the queue, the last dump
          steps   \* turns taken, for the bound and for the dump's property

ivars == <<prog, m, steps>>

-------------------------------------------------------------------------------
(* Bit arrays as numbers *)

HALF == XLEN \div 2
Regs == 0..2^XLEN - 1
LowS(x, n) == LET u == x % 2^n IN IF u < 2^(n - 1) THEN u ELSE u - 2^n
Magnitude(n) == IF n < 0 THEN -n ELSE n
\* C's / on signed operands.
CDiv(a, b) == LET q == Magnitude(a) \div Magnitude(b)
              IN IF (a < 0) = (b < 0) THEN q ELSE -q
\* A number in a 64-bit or a 32-bit C variable.
Int64(n) == LowS(n, XLEN)
Uint64(n) == n % 2^XLEN
Int32(n) == LowS(n, HALF)

bin2dec(r) == IF r < 2^(XLEN - 1) THEN r ELSE -1 * ((2^XLEN - 1 - r) + 1)
dec2bin(n) == IF n >= 0 THEN n % 2^(XLEN - 1)
              ELSE 2^XLEN - 1 - (-(n + 1) % 2^(XLEN - 1))
dec2binsg32(n) == Uint64(Int32(n))
bin2dec32(r) == Int32(r)
dec2bin128(opt, n) ==
  IF opt = "L" THEN Uint64(n)
  ELSE IF n >= 0 THEN (n \div 2^XLEN) % 2^(XLEN - 1)
  ELSE 2^XLEN - 1 - ((-(n + 1) \div 2^XLEN) % 2^(XLEN - 1))
\* Writes the bits of the magnitude: num % 2 and num / 2 of a negative number.
udec2binwr(n) == Magnitude(n) % 2^XLEN
ubin2dec(r) == r
udec2bin(n) == n % 2^XLEN
udec2bin128(opt, n) == IF opt = "H" THEN (n \div 2^XLEN) % 2^XLEN ELSE n % 2^XLEN

Bit(x, k) == (x \div 2^k) % 2
bit_xor(x, y) == IF x = y THEN 0 ELSE 1
bit_and(x, y) == IF x = 1 /\ y = 1 THEN 1 ELSE 0
bit_or(x, y) == IF x = 1 \/ y = 1 THEN 1 ELSE 0
BitByBit(f(_, _), x, y) ==
  MapThenSumSet(LAMBDA k : f(Bit(x, k), Bit(y, k)) * 2^k, 0..XLEN - 1)

\* imm64: an n-bit immediate copied down with its first bit repeated above it.
imm64(imm, n) == Uint64(LowS(imm, n))

-------------------------------------------------------------------------------
(* Registers and arithmetic *)

R1(s, i) == s.Rreg[i.rs1]
R2(s, i) == s.Rreg[i.rs2]
Set(s, rd, v) == [s EXCEPT !.Rreg[rd] = v]
SetX(s, rd, v) == IF rd # 0 THEN Set(s, rd, v) ELSE s     \* if(rd!=0)

Add(s, i) == SetX(s, i.rd, dec2bin(Int64(bin2dec(R2(s, i)) + bin2dec(R1(s, i)))))
sub(s, i) == SetX(s, i.rd, dec2bin(Int64(bin2dec(R1(s, i)) - bin2dec(R2(s, i)))))
addi(s, i) ==
  Set(s, i.rd, dec2bin(Int64(bin2dec(imm64(i.imm, IMM)) + bin2dec(R1(s, i)))))
addw(s, i) ==
  SetX(s, i.rd, dec2binsg32(bin2dec32(R2(s, i)) + bin2dec32(R1(s, i))))
subw(s, i) ==
  SetX(s, i.rd, dec2binsg32(bin2dec32(R1(s, i)) - bin2dec32(R2(s, i))))
addiw(s, i) ==
  SetX(s, i.rd, dec2binsg32(bin2dec32(imm64(i.imm, IMM)) + bin2dec32(R1(s, i))))

And(s, i) == SetX(s, i.rd, BitByBit(bit_and, R2(s, i), R1(s, i)))
Or(s, i) == SetX(s, i.rd, BitByBit(bit_or, R2(s, i), R1(s, i)))
Xor(s, i) == SetX(s, i.rd, BitByBit(bit_xor, R2(s, i), R1(s, i)))
andi(s, i) == SetX(s, i.rd, BitByBit(bit_and, R1(s, i), imm64(i.imm, IMM)))
ori(s, i) == SetX(s, i.rd, BitByBit(bit_or, R1(s, i), imm64(i.imm, IMM)))
xori(s, i) == SetX(s, i.rd, BitByBit(bit_xor, R1(s, i), imm64(i.imm, IMM)))

Less(a, b) == IF a < b THEN 1 ELSE 0
slt(s, i) == SetX(s, i.rd, Less(bin2dec(R1(s, i)), bin2dec(R2(s, i))))
sltu(s, i) == SetX(s, i.rd, Less(ubin2dec(R1(s, i)), ubin2dec(R2(s, i))))
slti(s, i) == SetX(s, i.rd, Less(bin2dec(R1(s, i)), bin2dec(imm64(i.imm, IMM))))
sltiu(s, i) == SetX(s, i.rd, Less(ubin2dec(R1(s, i)), ubin2dec(imm64(i.imm, IMM))))

\* temp[]: the bits of r moved up, or down with copies of a bit above them,
\* in an array of n bits.
MovedUp(r, shift, n) == (r * 2^shift) % 2^n
MovedDown(r, shift, n, fill) ==
  LET u == r % 2^n
  IN (u \div 2^shift) + (IF fill = 1 THEN 2^n - 2^(n - shift) ELSE 0)
Sign(r, n) == Bit(r, n - 1)
Shift6(r) == r % XLEN
Shift5(r) == r % HALF
Word32(r) == Uint64(LowS(r, HALF))     \* temp[0..31] = temp[32]

sll(s, i) == SetX(s, i.rd, MovedUp(R1(s, i), Shift6(R2(s, i)), XLEN))
srl(s, i) == SetX(s, i.rd, MovedDown(R1(s, i), Shift6(R2(s, i)), XLEN, 0))
sra(s, i) ==
  SetX(s, i.rd, MovedDown(R1(s, i), Shift6(R2(s, i)), XLEN, Sign(R1(s, i), XLEN)))
slli(s, i) == SetX(s, i.rd, MovedUp(R1(s, i), i.imm, XLEN))
srli(s, i) == SetX(s, i.rd, MovedDown(R1(s, i), i.imm, XLEN, 0))
srai(s, i) == SetX(s, i.rd, MovedDown(R1(s, i), i.imm, XLEN, Sign(R1(s, i), XLEN)))
sllw(s, i) == SetX(s, i.rd, Word32(MovedUp(R1(s, i), Shift5(R2(s, i)), HALF)))
srlw(s, i) == SetX(s, i.rd, Word32(MovedDown(R1(s, i), Shift5(R2(s, i)), HALF, 0)))
sraw(s, i) == SetX(s, i.rd, Word32(MovedDown(R1(s, i), Shift5(R2(s, i)), HALF,
                                             Sign(R1(s, i), HALF))))
slliw(s, i) == SetX(s, i.rd, Word32(MovedUp(R1(s, i), i.imm, HALF)))
srliw(s, i) == SetX(s, i.rd, Word32(MovedDown(R1(s, i), i.imm, HALF, 0)))
sraiw(s, i) ==
  SetX(s, i.rd, Word32(MovedDown(R1(s, i), i.imm, HALF, Sign(R1(s, i), HALF))))

\* The product is formed in 64 bits before it is widened to 128.
mul(s, i) == Set(s, i.rd, dec2bin128("L", Int64(bin2dec(R2(s, i)) * bin2dec(R1(s, i)))))
mulh(s, i) == Set(s, i.rd, dec2bin128("H", Int64(bin2dec(R2(s, i)) * bin2dec(R1(s, i)))))
mulhsu(s, i) ==
  Set(s, i.rd, dec2bin128("H", Uint64(Int64(R2(s, i)) * bin2dec(R1(s, i)))))
mulhu(s, i) ==
  Set(s, i.rd, udec2bin128("H", Uint64(Int64(R2(s, i)) * Int64(R1(s, i)))))
mulw(s, i) ==
  Set(s, i.rd, dec2binsg32(bin2dec32(R2(s, i)) * bin2dec32(R1(s, i))))

\* min / -1 is tested for; the 32-bit test compares with the 64-bit minimum.
divs(s, i) ==
  LET a == bin2dec(R1(s, i))  b == bin2dec(R2(s, i))
  IN Set(s, i.rd, dec2bin(IF b = 0 THEN -1
                          ELSE IF b = -1 /\ a = -(2^(XLEN - 1)) THEN a
                          ELSE CDiv(a, b)))
rem(s, i) ==
  LET a == bin2dec(R1(s, i))  b == bin2dec(R2(s, i))
  IN Set(s, i.rd, dec2bin(IF b = 0 THEN a
                          ELSE IF b = -1 /\ a = -(2^(XLEN - 1)) THEN 0
                          ELSE a - b * CDiv(a, b)))
\* The machine's division faults on the 32-bit minimum.
divw(s, i) ==
  LET a == bin2dec32(R1(s, i))  b == bin2dec32(R2(s, i))
  IN IF b = -1 /\ a = -(2^(HALF - 1)) THEN [s EXCEPT !.status = "exit"]
     ELSE Set(s, i.rd, dec2binsg32(IF b = 0 THEN -1 ELSE CDiv(a, b)))
divu(s, i) ==
  LET a == Uint64(bin2dec(R1(s, i)))  b == Uint64(bin2dec(R2(s, i)))
  IN Set(s, i.rd, dec2bin(Int64(IF b = 0 THEN DIVU0 ELSE a \div b)))
remu(s, i) ==
  LET a == Uint64(bin2dec(R1(s, i)))  b == Uint64(bin2dec(R2(s, i)))
  IN Set(s, i.rd, dec2bin(Int64(IF b = 0 THEN a ELSE a % b)))

\* The queue of the lines read, and the register dump.
addq(s) == [s EXCEPT !.queue = @ + 1]
delq(s) == [s EXCEPT !.queue = IF @ > 0 THEN @ - 1 ELSE 0]
fileprintreg(s) ==
  [s EXCEPT !.dump = [pc |-> (s.PC - 1) * 4, regs |-> s.Rreg, n |-> @.n + 1]]

lui(s, i) == fileprintreg(SetX(s, i.rd, Word32(i.imm * 2^(HALF - UIMM))))
auipc(s, i) ==
  LET numimm == imm64(i.imm, UIMM) * 2^(HALF - UIMM)
  IN fileprintreg(SetX(s, i.rd, udec2bin((s.PC - 1) * 4 + numimm)))

-------------------------------------------------------------------------------
(* Memory: doublewords, and a zeroed scratch one outside their range *)

BYTE == XLEN \div 8
Mem(s, memloc) == IF memloc \in 0..MEMWORDS - 1 THEN s.Memo[memloc] ELSE 0
Part(w, j, n) == (w \div 2^j) % 2^n

memlocation(s, i) == Int64(bin2dec(imm64(i.imm, IMM)) + Int64(ubin2dec(R1(s, i))))
\* memlocation / 8, and the byte offset taken from its written-out bits.
LoadWord(s, i) == Mem(s, CDiv(memlocation(s, i), 8))
ByteAddr(a) == udec2binwr(a) % 8

lb(s, i) == LET j == ByteAddr(memlocation(s, i)) * BYTE
            IN Set(s, i.rd, Uint64(LowS(Part(LoadWord(s, i), j, BYTE), BYTE)))
lbu(s, i) == LET j == ByteAddr(memlocation(s, i)) * BYTE
             IN Set(s, i.rd, Part(LoadWord(s, i), j, BYTE))
Halves(a) == (ByteAddr(a) \div 2) * 2
lh(s, i) == LET j == Halves(memlocation(s, i)) * BYTE
            IN Set(s, i.rd, Uint64(LowS(Part(LoadWord(s, i), j, 2 * BYTE), 2 * BYTE)))
lhu(s, i) == LET j == Halves(memlocation(s, i)) * BYTE
             IN Set(s, i.rd, Part(LoadWord(s, i), j, 2 * BYTE))
Words(a) == (ByteAddr(a) \div 4) * 4
lw(s, i) == LET j == Words(memlocation(s, i)) * BYTE
            IN Set(s, i.rd, Uint64(LowS(Part(LoadWord(s, i), j, HALF), HALF)))
lwu(s, i) == LET j == Words(memlocation(s, i)) * BYTE
             IN Set(s, i.rd, Part(LoadWord(s, i), j, HALF))
ld(s, i) == Set(s, i.rd, LoadWord(s, i))

\* A store computes its address in int, and shifts the bits of its magnitude.
StoreLocation(s, i) ==
  udec2binwr(Int32(bin2dec(imm64(i.imm, IMM)) + Int32(ubin2dec(R1(s, i)))))
StoreAt(s, i, j, n) ==
  LET w == StoreLocation(s, i) \div 8
      old == Mem(s, w)
      new == old + (Part(R2(s, i), 0, n) - Part(old, j, n)) * 2^j
  IN IF w \in 0..MEMWORDS - 1 THEN [s EXCEPT !.Memo[w] = new] ELSE s
sb(s, i) == StoreAt(s, i, ByteAddr(StoreLocation(s, i)) * BYTE, BYTE)
sh(s, i) == StoreAt(s, i, Halves(StoreLocation(s, i)) * BYTE, 2 * BYTE)
sw(s, i) == StoreAt(s, i, Words(StoreLocation(s, i)) * BYTE, HALF)
sd(s, i) == StoreAt(s, i, 0, XLEN)

-------------------------------------------------------------------------------
(* Branches move PC and the file position together *)

Lines == Len(prog.code)
Exit(s) == [s EXCEPT !.status = "exit"]
\* fclose, fopen and fgets of the first n lines.
Reread(s, n) == [s EXCEPT !.PC = n, !.pos = Min({n, Lines})]
\* Mutant: the lines skipped are not queued.
Skip_Unqueued(s, n) == [s EXCEPT !.PC = @ + n, !.pos = Min({@ + n, Lines})]
\* n more lines are read into the queue.
Skip(s, n) ==
  [s EXCEPT !.PC = @ + n,
            !.pos = Min({@ + n, Lines}),
            !.queue = @ + Cardinality({k \in 1..n : s.PC + k <= QMAX})]

Branch(s, i, taken) ==
  LET decre == CDiv(bin2dec(imm64(2 * i.imm, IMM + 1)), 4)
      p == fileprintreg(s)
  IN CASE ~taken \/ decre = 0 -> p
       [] taken /\ decre < 0 -> IF -decre < s.PC THEN Reread(p, s.PC + decre - 1)
                                ELSE Exit(p)
       [] taken /\ decre > 0 -> Skip(p, decre - 1)
beq(s, i) == Branch(s, i, bin2dec(R1(s, i)) = bin2dec(R2(s, i)))
bne(s, i) == Branch(s, i, bin2dec(R1(s, i)) # bin2dec(R2(s, i)))
blt(s, i) == Branch(s, i, bin2dec(R1(s, i)) < bin2dec(R2(s, i)))
bge(s, i) == Branch(s, i, bin2dec(R1(s, i)) >= bin2dec(R2(s, i)))
bltu(s, i) == Branch(s, i, ubin2dec(R1(s, i)) < ubin2dec(R2(s, i)))
bgeu(s, i) == Branch(s, i, ubin2dec(R1(s, i)) >= ubin2dec(R2(s, i)))

jal(s, i) ==
  LET decre == CDiv(bin2dec(imm64(2 * i.imm, UIMM + 1)), 4)
      p == fileprintreg(SetX(s, i.rd, dec2bin(s.PC * 4)))
  IN IF decre > 0 THEN Skip(p, decre - 1)
     ELSE IF -decre < s.PC THEN Reread(p, s.PC + decre - 1)
     ELSE Exit(p)

\* Mutant: the target is computed after the link is written.
jalr_LinkLate(s, i) ==
  LET p == fileprintreg(SetX(s, i.rd, dec2bin(s.PC * 4)))
      decre == CDiv(bin2dec(imm64(i.imm, IMM)) + Int64(ubin2dec(R1(p, i))), 4)
  IN CASE s.PC < decre -> IF decre > Lines THEN Exit(p) ELSE Skip(p, decre - s.PC)
       [] s.PC = decre -> p
       [] s.PC > decre -> IF decre < 0 THEN Exit(p) ELSE Reread(p, decre)
jalr(s, i) ==
  LET decre == CDiv(Int64(bin2dec(imm64(i.imm, IMM)) + Int64(ubin2dec(R1(s, i)))), 4)
      p == fileprintreg(SetX(s, i.rd, dec2bin(s.PC * 4)))
  IN CASE s.PC < decre -> IF decre > Lines THEN Exit(p) ELSE Skip(p, decre - s.PC)
       [] s.PC = decre -> p
       [] s.PC > decre -> IF decre < 0 THEN Exit(p) ELSE Reread(p, decre)

-------------------------------------------------------------------------------
(* main and opcodemapper *)

itype(s, i) == CASE i.op = "addi" -> addi(s, i)   [] i.op = "slti" -> slti(s, i)
                 [] i.op = "sltiu" -> sltiu(s, i) [] i.op = "xori" -> xori(s, i)
                 [] i.op = "ori" -> ori(s, i)     [] i.op = "andi" -> andi(s, i)
                 [] i.op = "addiw" -> addiw(s, i) [] i.op = "lb" -> lb(s, i)
                 [] i.op = "lh" -> lh(s, i)       [] i.op = "lw" -> lw(s, i)
                 [] i.op = "ld" -> ld(s, i)       [] i.op = "lbu" -> lbu(s, i)
                 [] i.op = "lhu" -> lhu(s, i)     [] i.op = "lwu" -> lwu(s, i)
rtype_rs2(s, i) == CASE i.op = "add" -> Add(s, i)  [] i.op = "sub" -> sub(s, i)
                     [] i.op = "sll" -> sll(s, i)  [] i.op = "slt" -> slt(s, i)
                     [] i.op = "sltu" -> sltu(s, i) [] i.op = "xor" -> Xor(s, i)
                     [] i.op = "srl" -> srl(s, i)  [] i.op = "sra" -> sra(s, i)
                     [] i.op = "or" -> Or(s, i)    [] i.op = "and" -> And(s, i)
                     [] i.op = "addw" -> addw(s, i) [] i.op = "subw" -> subw(s, i)
                     [] i.op = "sllw" -> sllw(s, i) [] i.op = "srlw" -> srlw(s, i)
                     [] i.op = "sraw" -> sraw(s, i) [] i.op = "mul" -> mul(s, i)
                     [] i.op = "mulh" -> mulh(s, i) [] i.op = "mulhsu" -> mulhsu(s, i)
                     [] i.op = "mulhu" -> mulhu(s, i) [] i.op = "mulw" -> mulw(s, i)
                     [] i.op = "div" -> divs(s, i) [] i.op = "divu" -> divu(s, i)
                     [] i.op = "rem" -> rem(s, i)  [] i.op = "remu" -> remu(s, i)
                     [] i.op = "divw" -> divw(s, i)
shamt(s, i) == CASE i.op = "slli" -> slli(s, i)   [] i.op = "srli" -> srli(s, i)
                 [] i.op = "srai" -> srai(s, i)   [] i.op = "slliw" -> slliw(s, i)
                 [] i.op = "srliw" -> srliw(s, i) [] i.op = "sraiw" -> sraiw(s, i)
stype(s, i) == CASE i.op = "sb" -> sb(s, i) [] i.op = "sh" -> sh(s, i)
                 [] i.op = "sw" -> sw(s, i) [] i.op = "sd" -> sd(s, i)
sbtype(s, i) == CASE i.op = "beq" -> beq(s, i)   [] i.op = "bne" -> bne(s, i)
                  [] i.op = "blt" -> blt(s, i)   [] i.op = "bge" -> bge(s, i)
                  [] i.op = "bltu" -> bltu(s, i) [] i.op = "bgeu" -> bgeu(s, i)
uujtype(s, i) == CASE i.op = "lui" -> lui(s, i) [] i.op = "auipc" -> auipc(s, i)
                   [] i.op = "jal" -> jal(s, i)

IType == {"addi", "slti", "sltiu", "xori", "ori", "andi", "addiw",
          "lb", "lh", "lw", "ld", "lbu", "lhu", "lwu"}
RType == {"add", "sub", "sll", "slt", "sltu", "xor", "srl", "sra", "or", "and",
          "addw", "subw", "sllw", "srlw", "sraw", "mul", "mulh", "mulhsu",
          "mulhu", "mulw", "div", "divu", "rem", "remu", "divw"}
Shamt == {"slli", "srli", "srai", "slliw", "srliw", "sraiw"}
SType == {"sb", "sh", "sw", "sd"}
SBType == {"beq", "bne", "blt", "bge", "bltu", "bgeu"}
UUJType == {"lui", "auipc", "jal"}

\* Mutant: the registers are dumped once more after a jalr.
opcodemapper_Twice(s, i) ==
  CASE i.op = "jalr" -> fileprintreg(jalr(s, i))
    [] i.op \in IType -> fileprintreg(itype(s, i))
    [] i.op \in RType -> fileprintreg(rtype_rs2(s, i))
    [] i.op \in Shamt -> fileprintreg(shamt(s, i))
    [] i.op \in SType -> fileprintreg(stype(s, i))
    [] i.op \in SBType -> sbtype(s, i)
    [] i.op \in UUJType -> uujtype(s, i)
\* Only the handlers of jumps, branches, lui and auipc dump the registers
\* themselves.
opcodemapper(s, i) ==
  CASE i.op = "jalr" -> jalr(s, i)
    [] i.op \in IType -> fileprintreg(itype(s, i))
    [] i.op \in RType -> fileprintreg(rtype_rs2(s, i))
    [] i.op \in Shamt -> fileprintreg(shamt(s, i))
    [] i.op \in SType -> fileprintreg(stype(s, i))
    [] i.op \in SBType -> sbtype(s, i)
    [] i.op \in UUJType -> uujtype(s, i)

\* fgets, PC++, addq and, beyond QMAX, delq.
ReadLine(s) ==
  LET r == addq([s EXCEPT !.PC = @ + 1, !.pos = @ + 1])
  IN IF r.PC > QMAX THEN delq(r) ELSE r

Turn == /\ m.status = "running" /\ m.pos < Lines /\ steps < MaxSteps
        /\ LET r == ReadLine(m) IN m' = opcodemapper(r, prog.code[m.pos + 1])
        /\ steps' = steps + 1
        /\ UNCHANGED prog

\* destroyqueue, and the return of main.
EndOfFile == /\ m.status = "running" /\ m.pos = Lines
             /\ m' = [m EXCEPT !.status = "done", !.queue = 0]
             /\ UNCHANGED <<prog, steps>>

IssInit == /\ prog \in Programs
           /\ m = [Rreg |-> prog.regs, Memo |-> prog.mem, PC |-> 0, pos |-> 0,
                   queue |-> 0, status |-> "running",
                   dump |-> [pc |-> 0, regs |-> prog.regs, n |-> 0]]
           /\ steps = 0

IssNext == Turn \/ EndOfFile

IssSpec == IssInit /\ [][IssNext]_ivars

-------------------------------------------------------------------------------
(* Properties *)

\* The simulator implements the architecture: through every program examined
\* its registers, memory and control flow are those of RV64, step by step.  The
\* program counter of the architecture is the line main will read next.
Pc == IF m.status = "running" /\ m.PC < Lines THEN m.PC * 4 ELSE -1
RV == INSTANCE RV64 WITH code <- prog.code, pc <- Pc, X <- m.Rreg, mem <- m.Memo
IssImplementsRV == RV!Spec

\* Every instruction leaves exactly one record in the register dump, with its
\* own address and the registers as it leaves them (the dump is compared record
\* by record with the core's).
DumpExact ==
  [][Turn => /\ m'.dump.n = steps' /\ m'.dump.regs = m'.Rreg
             /\ m'.dump.pc = m.PC * 4]_ivars

\* The queue of lines always holds as many lines as PC has passed, up to QMAX:
\* dropping a line never meets an empty queue, whatever the branches did.
HistoryKept == m.status = "running" => m.queue >= Min({m.PC, QMAX, Lines})

===============================================================================
