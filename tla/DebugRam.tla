------------------------------ MODULE DebugRam ------------------------------
(***************************************************************************)
(* The Debug RAM as the gdb server and the hart share it: the server       *)
(* assembles a program into its words and values into the slots behind it, *)
(* the hart fetches, decodes and executes what it finds there, and what it *)
(* leaves in the slots is the answer.  GdbServer says which programs are   *)
(* posted and DebugHart what they should do; this module is about the      *)
(* words in between.                                                       *)
(*                                                                         *)
(* A machine word is the set of the positions of its ones.                 *)
(***************************************************************************)
EXTENDS Integers, Sequences, FiniteSetsExt, SequencesExt

CONSTANTS Tasks(_),   \* what the server may want done, for a width
          MaxTasks,   \* how many it does one after the other
          DRAM        \* the address of the eight bytes of memory

VARIABLES dm,         \* the debug module: its RAM and pending interrupts
          cpu,        \* the hart
          xlen,       \* the server's idea of the register width, 0 at first
          task,       \* what the server is doing, and what it has read so far
          before,     \* the hart's state when it began
          stage,      \* who moves next
          count

bvars == <<dm, cpu, xlen, task, before, stage, count>>

DEBUG_RAM_START == \h400
DEBUG_RAM_SIZE == 64
DEBUG_ROM_RESUME == \h804
DEBUG_ROM_EXCEPTION == \h808
DEBUG_CLEARDEBINT == \h100
ZERO == 0
S0 == 8
S1 == 9
DCSR == \h7b0
DPC == \h7b1
DSCRATCH == \h7b2
MSTATUS == \h300
SPTBR == \h180
TSELECT == \h7a0
TDATA1 == \h7a1
TDATA2 == \h7a2
CSRs == {DCSR, DPC, DSCRATCH, MSTATUS, SPTBR, TSELECT, TDATA1, TDATA2}
DCSR_HALT == 8
FS == {13, 14}

-----------------------------------------------------------------------------
(* Sets of bits.                                                           *)

Ones(v) == {k \in 0..19 : (v \div 2^k) % 2 = 1}
Shl(v, at) == {at + k : k \in Ones(v)}
Number(w) == MapThenSumSet(LAMBDA k : 2^k, w)
\* n bits of w from position lo on, and w with them replaced by v.
Slice(w, lo, n) == {k - lo : k \in {j \in w : lo <= j /\ j < lo + n}}
Splice(w, lo, n, v) ==
  {k \in w : k < lo \/ k >= lo + n} \cup {lo + k : k \in {j \in v : j < n}}
\* The low n bits sign-extended to m.
SignExtend(w, n, m) == {k \in w : k < n} \cup IF n - 1 \in w THEN n..m - 1 ELSE {}

bits(value, hi, lo) == (value \div 2^lo) % 2^(hi + 1 - lo)
bit(value, b) == bits(value, b, b)

-----------------------------------------------------------------------------
(* The assembler.                                                          *)

\* Mutant: the middle bits of the offset as if they followed one another.
jal_Straight(rd, imm) ==
  Shl(bit(imm, 20), 31) \cup Shl(bits(imm, 11, 2), 21) \cup Shl(bit(imm, 11), 20)
    \cup Shl(bits(imm, 19, 12), 12) \cup Shl(rd, 7) \cup Ones(\h6f)
jal(rd, imm) ==
  Shl(bit(imm, 20), 31) \cup Shl(bits(imm, 10, 1), 21) \cup Shl(bit(imm, 11), 20)
    \cup Shl(bits(imm, 19, 12), 12) \cup Shl(rd, 7) \cup Ones(\h6f)
csrsi(csr, imm) == Shl(csr, 20) \cup Shl(bits(imm, 4, 0), 15) \cup Ones(\h6073)
csrr(rd, csr) == Shl(csr, 20) \cup Shl(rd, 7) \cup Ones(\h2073)
csrw(source, csr) == Shl(csr, 20) \cup Shl(source, 15) \cup Ones(\h1073)
fence_i == Ones(\h100f)
StoreWord(src, base, offset, match) ==
  Shl(bits(offset, 11, 5), 25) \cup Shl(src, 20) \cup Shl(base, 15)
    \cup Shl(bits(offset, 4, 0), 7) \cup Ones(match)
sb(src, base, offset) == StoreWord(src, base, offset, \h23)
sw(src, base, offset) == StoreWord(src, base, offset, \h2023)
sd(src, base, offset) == StoreWord(src, base, offset, \h3023)
fsw(src, base, offset) == StoreWord(src, base, offset, \h2027)
fsd(src, base, offset) == StoreWord(src, base, offset, \h3027)
ImmediateWord(dest, src, imm, match) ==
  Shl(bits(imm, 11, 0), 20) \cup Shl(src, 15) \cup Shl(dest, 7) \cup Ones(match)
lb(rd, base, offset) == ImmediateWord(rd, base, offset, \h3)
lw(rd, base, offset) == ImmediateWord(rd, base, offset, \h2003)
ld(rd, base, offset) == ImmediateWord(rd, base, offset, \h3003)
flw(dest, base, offset) == ImmediateWord(dest, base, offset, \h2007)
fld(dest, base, offset) == ImmediateWord(dest, base, offset, \h3007)
addi(dest, src, imm) == ImmediateWord(dest, src, imm, \h13)
xori(dest, src, imm) == ImmediateWord(dest, src, imm, \h4013)
srli(dest, src, shamt) ==
  Shl(bits(shamt, 4, 0), 20) \cup Shl(src, 15) \cup Shl(dest, 7) \cup Ones(\h5013)

-----------------------------------------------------------------------------
(* The server's writes: an index, a word and whether the assertions held.  *)

slot_offset(xl) == IF xl = 32
  THEN [INST0 |-> 0, DATA0 |-> 4, DATA1 |-> 5, DATA_LAST |-> DEBUG_RAM_SIZE \div 4 - 1]
  ELSE [INST0 |-> 0, DATA0 |-> 4, DATA1 |-> 6, DATA_LAST |-> DEBUG_RAM_SIZE \div 4 - 2]
SlotAddress(xl, slot) == DEBUG_RAM_START + 4 * slot_offset(xl)[slot]

dr_write32(index, w) == <<[at |-> index, w |-> w, ok |-> TRUE]>>
dr_write64(index, w) == dr_write32(index, Slice(w, 0, 32)) \o dr_write32(index + 1, Slice(w, 32, 32))
dr_write(xl, slot, w) == IF xl = 32 THEN dr_write32(slot_offset(xl)[slot], Slice(w, 0, 32))
                         ELSE dr_write64(slot_offset(xl)[slot], w)
dr_write_jump(index) ==
  dr_write32(index, jal(0, DEBUG_ROM_RESUME - (DEBUG_RAM_START + 4 * index)))
dr_write_store(xl, index, reg, slot) ==
  <<[at |-> index,
     w |-> IF xl = 32 THEN sw(reg, 0, SlotAddress(xl, slot)) ELSE sd(reg, 0, SlotAddress(xl, slot)),
     ok |-> /\ slot # "INST0" \/ index > 2
            /\ slot # "DATA0" \/ index < 4 \/ index > 6
            /\ slot # "DATA1" \/ index < 5 \/ index > 10
            /\ slot # "DATA_LAST" \/ index < 6 \/ index > 14]>>
dr_write_load(xl, index, reg, slot) ==
  dr_write32(index, IF xl = 32 THEN lw(reg, 0, SlotAddress(xl, slot))
                               ELSE ld(reg, 0, SlotAddress(xl, slot)))

find_access_size(xl, address, length) ==
  IF address % 8 = 0 /\ length % 8 = 0 /\ xl >= 64 THEN 8
  ELSE IF address % 4 = 0 /\ length % 4 = 0 THEN 4
  ELSE 1

-----------------------------------------------------------------------------
(* The programs.  t is the task: t.reg a register or CSR, t.val the value   *)
(* to write, t.addr and t.len an address and a length in bytes.            *)

Word4 == DEBUG_RAM_START + 16
xlen_program ==
  dr_write32(0, xori(S1, ZERO, \hffff)) \o dr_write32(1, srli(S1, S1, 31))
    \o dr_write32(2, sw(S1, ZERO, DEBUG_RAM_START)) \o dr_write32(3, srli(S1, S1, 31))
    \o dr_write32(4, sw(S1, ZERO, DEBUG_RAM_START + 4)) \o dr_write_jump(5)
write_dpc_program(xl) ==
  dr_write32(0, csrsi(DCSR, DCSR_HALT)) \o dr_write32(1, csrr(S0, DPC))
    \o dr_write_store(xl, 2, S0, "DATA0") \o dr_write_jump(3)
\* mstatus when halting, sptbr, tdata1
read_csr_program(xl, csr) ==
  dr_write32(0, csrr(S0, csr)) \o dr_write_store(xl, 1, S0, "DATA0") \o dr_write_jump(2)
read_dcsr_program ==
  dr_write32(0, csrr(S0, DCSR)) \o dr_write32(1, sw(S0, 0, Word4)) \o dr_write_jump(2)
continue_dpc_program(xl, fence_i_required, dpc) ==
  dr_write_load(xl, 0, S0, "DATA0") \o dr_write32(1, csrw(S0, DPC))
    \o (IF fence_i_required THEN dr_write32(2, fence_i) \o dr_write_jump(3)
                             ELSE dr_write_jump(2))
    \o dr_write(xl, "DATA0", dpc)
continue_mstatus_program(xl, mstatus) ==
  dr_write_load(xl, 0, S0, "DATA0") \o dr_write32(1, csrw(S0, MSTATUS))
    \o dr_write_jump(2) \o dr_write(xl, "DATA0", mstatus)
continue_dcsr_program(dcsr) ==
  dr_write32(0, lw(S0, 0, Word4)) \o dr_write32(1, csrw(S0, DCSR)) \o dr_write_jump(2)
    \o dr_write32(4, Slice(dcsr, 0, 32))
general_registers_program(xl, step) ==
  LET r == 2 * step + 1
      i1 == IF r = S1 THEN 1 ELSE 0
      i2 == i1 + 1
      i3 == IF r + 1 = S0 THEN i2 + 1 ELSE i2
  IN (IF r = S1 THEN dr_write_load(xl, 0, S1, "DATA_LAST") ELSE <<>>)
       \o dr_write_store(xl, i1, r, "DATA0")
       \o (IF r + 1 = S0 THEN dr_write32(i2, csrr(S0, DSCRATCH)) ELSE <<>>)
       \o (IF step < 15 THEN dr_write_store(xl, i3, r + 1, "DATA1") \o dr_write_jump(i3 + 1)
                        ELSE dr_write_jump(i3))
FsOn(mstatus) == (mstatus \ FS) \cup {13}
register_read_x_program(xl, reg) ==
  dr_write32(0, IF xl = 32 THEN sw(reg, 0, Word4) ELSE sd(reg, 0, Word4)) \o dr_write_jump(1)
register_read_f_program(xl, reg, mstatus) ==
  dr_write_load(xl, 0, S0, "DATA1") \o dr_write(xl, "DATA1", FsOn(mstatus))
    \o dr_write32(1, csrw(S0, MSTATUS))
    \o dr_write32(2, IF xl = 32 THEN fsw(reg, 0, Word4) ELSE fsd(reg, 0, Word4))
    \o dr_write_jump(3)
register_read_csr_program(xl, csr) ==
  read_csr_program(xl, csr) \o dr_write(xl, "DATA0", 0..63)
register_write_x_program(xl, reg, value) ==
  dr_write_load(xl, 0, S0, "DATA0") \o dr_write(xl, "DATA0", value)
    \o (CASE reg = S0 -> dr_write32(1, csrw(S0, DSCRATCH))
           [] reg = S1 -> dr_write_store(xl, 1, S0, "DATA_LAST")
           [] OTHER -> dr_write32(1, addi(reg, S0, 0)))
    \o dr_write_jump(2)
register_write_f_program(xl, reg, value, mstatus) ==
  dr_write_load(xl, 0, S0, "DATA0") \o dr_write(xl, "DATA0", value)
    \o dr_write_load(xl, 0, S0, "DATA1") \o dr_write(xl, "DATA1", FsOn(mstatus))
    \o dr_write32(1, csrw(S0, MSTATUS))
    \o dr_write32(2, IF xl = 32 THEN flw(reg, 0, Word4) ELSE fld(reg, 0, Word4))
    \o dr_write_jump(3)
register_write_csr_program(xl, csr, value) ==
  dr_write_load(xl, 0, S0, "DATA0") \o dr_write(xl, "DATA0", value)
    \o dr_write32(1, csrw(S0, csr)) \o dr_write_jump(2)
memory_read_program(xl, size, paddr) ==
  dr_write_load(xl, 0, S0, "DATA0")
    \o dr_write32(1, CASE size = 1 -> lb(S1, S0, 0) [] size = 4 -> lw(S1, S0, 0)
                       [] size = 8 -> ld(S1, S0, 0))
    \o dr_write_store(xl, 2, S1, "DATA1") \o dr_write_jump(3) \o dr_write(xl, "DATA0", Ones(paddr))
\* The bytes of the first or of a later chunk, and its address.
memory_write_data(xl, size, paddr, data) ==
  LET data_offset == slot_offset(xl).DATA1
  IN (IF size = 8 THEN dr_write64(data_offset, data) ELSE dr_write32(data_offset, Slice(data, 0, 8 * size)))
       \o dr_write(xl, "DATA0", Ones(paddr))
memory_write_program(xl, size) ==
  LET from == SlotAddress(xl, "DATA1")
  IN dr_write_load(xl, 0, S0, "DATA0")
       \o dr_write32(1, CASE size = 1 -> lb(S1, 0, from) [] size = 4 -> lw(S1, 0, from)
                          [] size = 8 -> ld(S1, 0, from))
       \o dr_write32(2, CASE size = 1 -> sb(S1, S0, 0) [] size = 4 -> sw(S1, S0, 0)
                          [] size = 8 -> sd(S1, S0, 0))
       \o dr_write_jump(3)
read_pte_program(xl, pte_addr) ==
  (IF xl = 32 THEN dr_write32(0, lw(S0, 0, Word4)) \o dr_write32(1, lw(S1, S0, 0))
                     \o dr_write32(2, sw(S1, 0, Word4))
              ELSE dr_write32(0, ld(S0, 0, Word4)) \o dr_write32(1, ld(S1, S0, 0))
                     \o dr_write32(2, sd(S1, 0, Word4)))
    \o dr_write_jump(3) \o dr_write32(4, Ones(pte_addr)) \o dr_write32(5, {})
write_new_index_program(xl, index) ==
  dr_write_load(xl, 0, S0, "DATA1") \o dr_write32(1, csrw(S0, TSELECT))
    \o dr_write32(2, csrr(S0, TSELECT)) \o dr_write_store(xl, 3, S0, "DATA1")
    \o dr_write_jump(4) \o dr_write(xl, "DATA1", Ones(index))
write_trigger_program(xl, csr, value) ==
  dr_write_load(xl, 0, S0, "DATA1") \o dr_write32(1, csrw(S0, csr)) \o dr_write_jump(2)
    \o dr_write(xl, "DATA1", value)
hardware_breakpoint_remove_program(index) ==
  dr_write32(0, addi(S0, ZERO, index)) \o dr_write32(1, csrw(S0, TSELECT))
    \o dr_write32(2, csrw(ZERO, TDATA1)) \o dr_write_jump(3)

\* The server's copy of mstatus is the one the hart has.
Program(xl, t) ==
  CASE t.op = "xlen" -> xlen_program
    [] t.op = "dpc" -> write_dpc_program(xl)
    [] t.op = "csr" -> read_csr_program(xl, t.reg)
    [] t.op = "dcsr" -> read_dcsr_program
    [] t.op = "continue_dpc" -> continue_dpc_program(xl, t.len = 1, t.val)
    [] t.op = "continue_mstatus" -> continue_mstatus_program(xl, t.val)
    [] t.op = "continue_dcsr" -> continue_dcsr_program(t.val)
    [] t.op = "g" -> general_registers_program(xl, t.reg)
    [] t.op = "read_x" -> register_read_x_program(xl, t.reg)
    [] t.op = "read_f" -> register_read_f_program(xl, t.reg, cpu.csr[MSTATUS])
    [] t.op = "read_csr" -> register_read_csr_program(xl, t.reg)
    [] t.op = "write_x" -> register_write_x_program(xl, t.reg, t.val)
    [] t.op = "write_f" -> register_write_f_program(xl, t.reg, t.val, cpu.csr[MSTATUS])
    [] t.op = "write_csr" -> register_write_csr_program(xl, t.reg, t.val)
    [] t.op = "m" -> memory_read_program(xl, find_access_size(xl, t.addr, t.len), t.addr)
    [] t.op = "M" ->
         LET size == find_access_size(xl, t.addr, t.len)
         IN memory_write_program(xl, size) \o memory_write_data(xl, size, t.addr, t.val)
    [] t.op = "pte" -> read_pte_program(xl, t.addr)
    [] t.op = "index" -> write_new_index_program(xl, t.reg)
    [] t.op = "trigger" -> write_trigger_program(xl, t.reg, t.val)
    [] t.op = "remove" -> hardware_breakpoint_remove_program(t.reg)

-----------------------------------------------------------------------------
(* The debug module and the hart.                                          *)

ram_write32(ram, index, w) == Splice(ram, 32 * index, 32, w)
ram_read32(ram, index) == Slice(ram, 32 * index, 32)
Written(ram, writes) == FoldLeft(LAMBDA r, x : ram_write32(r, x.at, x.w), ram, writes)
dr_read(xl, ram, slot) ==
  IF xl = 32 THEN ram_read32(ram, slot_offset(xl)[slot])
  ELSE ram_read32(ram, slot_offset(xl)[slot])
         \cup {32 + k : k \in ram_read32(ram, slot_offset(xl)[slot] + 1)}

InRam(addr, len) == addr >= DEBUG_RAM_START /\ addr + len <= DEBUG_RAM_START + DEBUG_RAM_SIZE
InDram(addr, len) == addr >= DRAM /\ addr + len <= DRAM + 8
Accessible(addr, len) == addr % len = 0 /\ (InRam(addr, len) \/ InDram(addr, len))
load(ram, mem, addr, len) ==
  IF InRam(addr, len) THEN Slice(ram, 8 * (addr - DEBUG_RAM_START), 8 * len)
  ELSE Slice(mem, 8 * (addr - DRAM), 8 * len)
store(d, addr, len, w) ==
  IF InRam(addr, len) THEN [d EXCEPT !.ram = Splice(@, 8 * (addr - DEBUG_RAM_START), 8 * len, w)]
  ELSE IF len = 4 /\ addr = DEBUG_CLEARDEBINT THEN [d EXCEPT !.interrupt = @ \ {Number(w)}]
  ELSE d

\* The halves are fetched one by one; the upper one is sign-extended.
Fetched == LET low == load(dm.ram, {}, cpu.pc, 2)
               high == load(dm.ram, {}, cpu.pc + 2, 2)
           IN low \cup {16 + k : k \in SignExtend(high, 16, 48)}
insn_length(w) == IF {0, 1} \subseteq w /\ ~({2, 3, 4} \subseteq w) THEN 4 ELSE 2
rd(w) == Number(Slice(w, 7, 5))
rs1(w) == Number(Slice(w, 15, 5))
rs2(w) == Number(Slice(w, 20, 5))
csr(w) == Number(Slice(w, 20, 12))
i_imm(w) == Slice(w, 20, 44) \cup (IF 63 \in w THEN 44..63 ELSE {})
s_imm(w) == Slice(w, 7, 5) \cup {5 + k : k \in SignExtend(Slice(w, 25, 7), 7, 59)}
uj_imm(w) == {1 + k : k \in Slice(w, 21, 10)} \cup {11 + k : k \in Slice(w, 20, 1)}
               \cup {12 + k : k \in Slice(w, 12, 8)} \cup (IF 63 \in w THEN 20..63 ELSE {})
\* The value of a signed set of 64 bits that is small.
Signed(w) == IF 63 \in w THEN -1 - Number(0..63 \ w) ELSE Number(w)

Opcode(w) == Number(Slice(w, 0, 15) \ (7..11))
Opcodes == {\h13, \h4013, \h5013, \h3, \h2003, \h3003, \h23, \h2023, \h3023, \h2007,
            \h3007, \h2027, \h3027, \h100f, \h1073, \h2073, \h6073}
IsJal(w) == Slice(w, 0, 7) = Ones(\h6f)
LoadBytes(op) == CASE op = \h3 -> 1 [] op \in {\h2003, \h2007} -> 4 [] op \in {\h3003, \h3007} -> 8
StoreBytes(op) == CASE op = \h23 -> 1 [] op \in {\h2023, \h2027} -> 4 [] op \in {\h3023, \h3027} -> 8

Low(w) == {k \in w : k < cpu.xlen}
WriteX(r, w) == IF r = 0 THEN cpu.x ELSE [cpu.x EXCEPT ![r] = Low(w)]
Trap == cpu' = [cpu EXCEPT !.pc = DEBUG_ROM_EXCEPTION] /\ UNCHANGED dm
Retire(c) == cpu' = [c EXCEPT !.pc = @ + 4]

ExecuteLoad(w, op) ==
  LET n == LoadBytes(op)
      addr == Signed(i_imm(w)) + Number(cpu.x[rs1(w)])
      v == load(dm.ram, cpu.mem, addr, n)
      fp == op \in {\h2007, \h3007}
  IN IF ~Accessible(addr, n) \/ (fp /\ cpu.csr[MSTATUS] \cap FS = {}) THEN Trap
     ELSE /\ Retire(IF fp THEN [cpu EXCEPT !.f[rd(w)] = v]
                    ELSE [cpu EXCEPT !.x = WriteX(rd(w), SignExtend(v, 8 * n, 64))])
          /\ UNCHANGED dm
ExecuteStore(w, op) ==
  LET n == StoreBytes(op)
      addr == Signed(s_imm(w)) + Number(cpu.x[rs1(w)])
      fp == op \in {\h2027, \h3027}
      v == IF fp THEN cpu.f[rs2(w)] ELSE cpu.x[rs2(w)]
  IN IF ~Accessible(addr, n) \/ (fp /\ cpu.csr[MSTATUS] \cap FS = {}) THEN Trap
     ELSE IF InRam(addr, n) THEN Retire(cpu) /\ dm' = store(dm, addr, n, v)
     ELSE /\ Retire([cpu EXCEPT !.mem = Splice(@, 8 * (addr - DRAM), 8 * n, v)])
          /\ UNCHANGED dm
ExecuteCsr(w, op) ==
  LET old == cpu.csr[csr(w)]
      new == CASE op = \h1073 -> cpu.x[rs1(w)]
               [] op = \h2073 -> old \cup cpu.x[rs1(w)]
               [] op = \h6073 -> old \cup Ones(rs1(w))
  IN IF csr(w) \notin CSRs THEN Trap
     ELSE /\ Retire([cpu EXCEPT !.x = WriteX(rd(w), old), !.csr[csr(w)] = new])
          /\ UNCHANGED dm
ExecuteOp(w, op) ==
  LET a == cpu.x[rs1(w)]
      b == Low(i_imm(w))
  IN /\ Retire([cpu EXCEPT !.x = WriteX(rd(w),
            CASE op = \h13 -> a \cup b        \* one of the two is zero
              [] op = \h4013 -> (a \ b) \cup (b \ a)
              [] op = \h5013 -> Slice(a, Number(Slice(w, 20, 6)), 64))])
     /\ UNCHANGED dm

-----------------------------------------------------------------------------
\* The hart's registers as its program will see them: s0 is in dscratch.
Seen == [x |-> [cpu.x EXCEPT ![S0] = cpu.csr[DSCRATCH]], f |-> cpu.f, mem |-> cpu.mem,
         csr |-> [cpu.csr EXCEPT ![DSCRATCH] = {}]]
NoTask == [op |-> "none", reg |-> 0, val |-> {}, addr |-> 0, len |-> 0, off |-> 0,
         got |-> {}, err |-> FALSE]

\* A register holds its number and a pattern that needs the whole width.
Pattern(xl, r) == Ones(r) \cup {xl - 1, xl - 7}
RamInit ==
  /\ \E xl \in {32, 64} :
       cpu = [xlen |-> xl, pc |-> 0, x |-> [r \in 0..31 |-> IF r = 0 THEN {} ELSE Pattern(xl, r)],
              f |-> [r \in 0..31 |-> {r, xl - 2}],
              csr |-> [c \in CSRs |-> IF c = DCSR THEN {} ELSE {c % 13, xl - 3}],
              mem |-> {0, 7, 9, 31, 37, 63}]
  /\ dm = [ram |-> {}, interrupt |-> {}]
  /\ xlen = 0 /\ task = NoTask /\ before = Seen /\ stage = "server" /\ count = 0

\* The server writes the program of its next task and raises the debug
\* interrupt; the width comes first.
Begin ==
  /\ stage = "server" /\ count < MaxTasks
  /\ \E t \in Tasks(cpu.xlen) :
       LET p == Program(xlen, t)
       IN /\ (t.op = "xlen") <=> (xlen = 0)
          /\ task' = t
          /\ stage' = IF \A i \in DOMAIN p : p[i].ok THEN "entry" ELSE "abort"
          /\ dm' = [dm EXCEPT !.ram = Written(@, p), !.interrupt = @ \cup {0}]
  /\ before' = Seen
  /\ count' = count + 1
  /\ UNCHANGED <<cpu, xlen>>

\* The Debug ROM up to the jump to the RAM: s1 is saved, s0 overwritten.
EnterRam ==
  /\ stage = "entry" /\ 0 \in dm.interrupt
  /\ dm' = IF cpu.xlen = 32 THEN store(dm, DEBUG_RAM_START + 60, 4, cpu.x[S1])
                            ELSE store(dm, DEBUG_RAM_START + 56, 8, cpu.x[S1])
  /\ cpu' = [cpu EXCEPT !.x[S0] = {cpu.xlen - 1}, !.pc = DEBUG_RAM_START]
  /\ stage' = "run"
  /\ UNCHANGED <<xlen, task, before, count>>

Execute ==
  /\ stage = "run" /\ InRam(cpu.pc, 4)
  /\ LET w == Fetched
         op == Opcode(w)
     IN IF insn_length(w) # 4 THEN Trap
        ELSE IF IsJal(w) THEN cpu' = [cpu EXCEPT !.pc = @ + Signed(uj_imm(w))] /\ UNCHANGED dm
        ELSE IF op \notin Opcodes THEN Trap
        ELSE CASE op \in {\h3, \h2003, \h3003, \h2007, \h3007} -> ExecuteLoad(w, op)
               [] op \in {\h23, \h2023, \h3023, \h2027, \h3027} -> ExecuteStore(w, op)
               [] op \in {\h1073, \h2073, \h6073} -> ExecuteCsr(w, op)
               [] op = \h100f -> Retire(cpu) /\ UNCHANGED dm
               [] OTHER -> ExecuteOp(w, op)
  /\ UNCHANGED <<xlen, task, before, stage, count>>

\* The Debug ROM after it: s1 is restored, the status word written, the
\* interrupt cleared.
Resume ==
  /\ stage = "run" /\ cpu.pc \in {DEBUG_ROM_RESUME, DEBUG_ROM_EXCEPTION}
  /\ LET status == IF cpu.pc = DEBUG_ROM_RESUME THEN {} ELSE 0..31
         s1 == IF cpu.xlen = 32 THEN load(dm.ram, {}, DEBUG_RAM_START + 60, 4)
                                ELSE load(dm.ram, {}, DEBUG_RAM_START + 56, 8)
     IN /\ cpu' = [cpu EXCEPT !.x[S1] = s1, !.x[S0] = {}]
        /\ dm' = store(store(dm, DEBUG_RAM_START + 60, 4, status), DEBUG_CLEARDEBINT, 4, {})
  /\ stage' = "answer"
  /\ UNCHANGED <<xlen, task, before, count>>

\* The server's next step: it reads the slots, and goes on with the next
\* chunk of memory, for which it only rewrites the slots.
Failed == ram_read32(dm.ram, DEBUG_RAM_SIZE \div 4 - 1) # {}
Answer ==
  LET size == find_access_size(xlen, task.addr, task.len)
      off == task.off + size
      chunk == {8 * task.off + k : k \in {j \in dr_read(xlen, dm.ram, "DATA1") : j < 8 * size}}
      Done(t) == task' = t /\ stage' = "done" /\ UNCHANGED dm
      More(t, writes) == /\ task' = t /\ stage' = "entry"
                         /\ dm' = [dm EXCEPT !.ram = Written(@, writes), !.interrupt = @ \cup {0}]
  IN /\ stage = "answer"
     /\ CASE task.op = "xlen" -> Done(task)
          [] task.op = "dcsr" -> Done([task EXCEPT !.got = ram_read32(dm.ram, 4)])
          [] task.op \in {"m", "M"} /\ Failed -> Done([task EXCEPT !.err = TRUE])
          [] task.op = "m" /\ ~Failed ->
               LET t == [task EXCEPT !.got = @ \cup chunk, !.off = off]
               IN IF off = task.len THEN Done(t)
                  ELSE More(t, dr_write(xlen, "DATA0", Ones(task.addr + off)))
          [] task.op = "M" /\ ~Failed ->
               IF off >= task.len THEN Done([task EXCEPT !.off = off])
               ELSE More([task EXCEPT !.off = off],
                         memory_write_data(xlen, size, task.addr + off, Slice(task.val, 8 * off, 64)))
          [] task.op \in {"g", "index"} ->
               Done([task EXCEPT !.got = <<dr_read(xlen, dm.ram, "DATA0"), dr_read(xlen, dm.ram, "DATA1")>>])
          [] OTHER -> Done([task EXCEPT !.got = dr_read(xlen, dm.ram, "DATA0")])
     /\ xlen' = LET w0 == ram_read32(dm.ram, 0)
                    w1 == ram_read32(dm.ram, 1)
                IN IF task.op # "xlen" THEN xlen
                   ELSE IF w0 = {0} /\ w1 = {} THEN 32
                   ELSE IF w0 = 0..31 /\ w1 = {0, 1} THEN 64 ELSE 0
     /\ UNCHANGED <<cpu, before, count>>
Finish == stage = "done" /\ stage' = "server" /\ UNCHANGED <<dm, cpu, xlen, task, before, count>>

RamNext == Begin \/ EnterRam \/ Execute \/ Resume \/ Answer \/ Finish
RamSpec == RamInit /\ [][RamNext]_bvars

-----------------------------------------------------------------------------
\* What a task should have done to the hart, and what it should have read.
Wanted ==
  LET b == before
      t == task
      r == t.reg
      xl == cpu.xlen
      Width(w) == {k \in w : k < xl}
      Bytes(addr, n) == Slice(b.mem, 8 * (addr - DRAM), 8 * n)
      Set(c, v) == [b EXCEPT !.csr[c] = Width(v)]
      fs == [b EXCEPT !.csr[MSTATUS] = FsOn(@)]
      reads(v) == [hart |-> b, got |-> v]
      does(h) == [hart |-> h, got |-> t.got]
  IN CASE t.op \in {"dpc"} -> [hart |-> [b EXCEPT !.csr[DCSR] = @ \cup {3}], got |-> b.csr[DPC]]
       [] t.op = "csr" -> reads(b.csr[r])
       [] t.op = "dcsr" -> reads(Slice(b.csr[DCSR], 0, 32))
       [] t.op = "continue_dpc" -> does(Set(DPC, t.val))
       [] t.op = "continue_mstatus" -> does(Set(MSTATUS, t.val))
       [] t.op = "continue_dcsr" -> does(Set(DCSR, SignExtend(t.val, 32, 64)))
       [] t.op = "g" -> reads(<<b.x[2 * r + 1], IF r < 15 THEN b.x[2 * r + 2] ELSE t.got[2]>>)
       [] t.op = "read_x" -> reads(b.x[r])
       [] t.op = "read_f" -> [hart |-> fs, got |-> b.f[r]]
       [] t.op = "read_csr" -> reads(IF r \in CSRs THEN b.csr[r] ELSE 0..xl - 1)
       [] t.op = "write_x" -> does([b EXCEPT !.x[r] = Width(t.val)])
       [] t.op = "write_f" -> does([fs EXCEPT !.f[r] = Width(t.val)])
       [] t.op \in {"write_csr", "trigger"} -> does(Set(r, t.val))
       [] t.op = "m" -> reads(IF InDram(t.addr, t.len) THEN Bytes(t.addr, t.len) ELSE {})
       [] t.op = "M" -> does(IF InDram(t.addr, t.len)
                             THEN [b EXCEPT !.mem = Splice(@, 8 * (t.addr - DRAM), 8 * t.len, t.val)]
                             ELSE b)
       [] t.op = "pte" -> reads(Bytes(t.addr, xl \div 8))
       [] t.op = "index" -> does(Set(TSELECT, Ones(r)))
       [] t.op = "remove" -> does([Set(TSELECT, Ones(r)) EXCEPT !.csr[TDATA1] = {}])
       [] OTHER -> does(b)

(* Every program the server assembles into the Debug RAM fits beside its      *)
(* slots (no assertion of dr_write_store fails), decodes to what was meant,   *)
(* reaches the ROM again and has exactly the effect asked for on the hart:    *)
(* the slots carry whole values in both widths, s0 and s1 come back, a later  *)
(* chunk of a memory access finds the program still there, and only a memory  *)
(* access outside memory is reported as an error.                             *)
ProgramsExecute ==
  /\ stage # "abort"
  /\ stage = "run" => InRam(cpu.pc, 4) \/ cpu.pc \in {DEBUG_ROM_RESUME, DEBUG_ROM_EXCEPTION}
  /\ stage = "done" =>
       /\ xlen = cpu.xlen /\ dm.interrupt = {}
       /\ Seen = Wanted.hart
       /\ task.got = Wanted.got
       /\ task.op = "index" => task.got[2] = Ones(task.reg)
       /\ task.err <=> (task.op \in {"m", "M"} /\ ~InDram(task.addr, task.len))
=============================================================================
