------------------------------ MODULE DebugHart ------------------------------
(***************************************************************************)
(* The hart in Debug Mode, as far as the programs the gdb server posts can *)
(* tell: its debug CSRs and triggers (processor.cc), and the execution of  *)
(* a Debug RAM program.                                                    *)
(***************************************************************************)
EXTENDS GdbServer

get_csr(h, csr) ==
    CASE csr = "dpc" -> h.dpc
      [] csr = "mstatus" -> h.mstatus
      [] csr = "dcsr" -> [prv |-> h.dprv, step |-> h.step, ebreak |-> h.ebreak,
                          halt |-> h.halt, cause |-> h.cause]
      [] csr = "dscratch" -> h.dscratch
      [] csr = "sptbr" -> h.sptbr
      [] csr = "tselect" -> h.tselect
      [] csr = "tdata1" -> IF h.trigger[h.tselect].on THEN 1 ELSE 0

set_csr(h, csr, v) ==
    CASE csr = "dpc" -> [h EXCEPT !.dpc = v]
      [] csr = "mstatus" -> [h EXCEPT !.mstatus = v]
      [] csr = "dcsr" -> [h EXCEPT !.dprv = v.prv, !.step = v.step,
                                   !.ebreak = v.ebreak, !.halt = v.halt]
      [] csr = "dscratch" -> [h EXCEPT !.dscratch = v]
      [] csr = "sptbr" -> [h EXCEPT !.sptbr = v]
      [] csr = "tselect" -> IF v < NTRIG THEN [h EXCEPT !.tselect = v] ELSE h
      [] csr = "tdata1" -> [h EXCEPT !.trigger[h.tselect].on = (v # 0)]
      [] csr = "tdata2" -> [h EXCEPT !.trigger[h.tselect].addr = v]

\* An instruction of a Debug RAM program: its name and its operands
Name(i) == i[1]
A(i) == i[2]
B(i) == i[3]
Imm(i) == i[4]

\* The state of its execution: hart, Debug RAM, memory, and whether the
\* program still runs (an exception ends it)
RegValue(m, r) == IF r = "zero" THEN 0 ELSE m.h[r]
SlotValue(m, slot) == m.ram[slot]
MemValue(m) == m.mem[m.h.s0]
SetReg(m, r, v) == [m EXCEPT !.h[r] = v]
SetSlot(m, slot, v) == [m EXCEPT !.ram[slot] = v]
SetCsr(m, csr, v) == [m EXCEPT !.h = set_csr(m.h, csr, v)]
SetMem(m, v) == [m EXCEPT !.mem[m.h.s0] = v]
SetFault(m) == [m EXCEPT !.ok = FALSE]

Faults(m, i) == \/ Name(i) \in {"csrr", "csrw"} /\ B(i) = "bad"
                \/ Name(i) \in {"ld", "sd"} /\ m.h.s0 \notin Cell
                \/ Name(i) \in {"fsd", "fld"} /\ ~m.h.mstatus.fs

Effect(m, i) ==
    CASE Name(i) = "csrsi" -> SetReg(m, "halt", TRUE)
      [] Name(i) = "csrr" -> SetReg(m, A(i), get_csr(m.h, B(i)))
      [] Name(i) = "csrw" -> SetCsr(m, B(i), RegValue(m, A(i)))
      [] Name(i) = "load" -> SetReg(m, A(i), SlotValue(m, B(i)))
      [] Name(i) = "store" -> SetSlot(m, B(i), RegValue(m, A(i)))
      [] Name(i) = "ld" -> SetReg(m, "s1", MemValue(m))
      [] Name(i) = "sd" -> SetMem(m, RegValue(m, "s1"))
      [] Name(i) = "fsd" -> SetSlot(m, B(i), RegValue(m, "f"))
      [] Name(i) = "fld" -> SetReg(m, "f", SlotValue(m, B(i)))
      [] Name(i) = "addi" -> SetReg(m, A(i), RegValue(m, B(i)) + Imm(i))
      [] Name(i) = "xlen_probe" -> SetSlot(m, "w0", XLEN)
      [] OTHER -> m

Execute(m, i) ==
    IF ~m.ok THEN m ELSE IF Faults(m, i) THEN SetFault(m) ELSE Effect(m, i)

\* No program has more than four instructions before its jump.
RunProgram(m, prog) ==
    LET at(n, i) == IF i <= Len(prog) THEN Execute(n, prog[i]) ELSE n
    IN  at(at(at(at(m, 1), 2), 3), 4)

ROM == -5            \* a program counter in the Debug ROM

enter_debug_mode(h, cause) ==
    [h EXCEPT !.cause = cause, !.dprv = h.prv, !.prv = "M",
              !.itlb = FALSE, !.icache = {},
              !.dpc = h.pc, !.pc = ROM, !.mode = "entry"]
=============================================================================
