------------------------------ MODULE GdbServer ------------------------------
(***************************************************************************)
(* The gdb server of the instruction set simulator, the debug module it    *)
(* drives, and the hart behind it (riscv/gdbserver.cc, debug_module.cc,    *)
(* debug_rom/debug_rom.S, the debug parts of processor.cc and execute.cc). *)
(*                                                                         *)
(* The server cannot touch the hart.  It writes a short program to the     *)
(* Debug RAM, raises the debug interrupt, and on a later call of handle()  *)
(* that finds the interrupt cleared it reads the Debug RAM back.  The hart *)
(* runs the program from its Debug ROM with s0 and s1 borrowed from the    *)
(* program under debug.  Handle() and the hart's steps interleave.         *)
(*                                                                         *)
(* Memory is a set of cells of one access each; a page has PGSIZE cells; a *)
(* page table entry is the number 2 * ppn + (1 if it points to a table).   *)
(***************************************************************************)
EXTENDS Integers, Sequences, FiniteSets, SequencesExt

CONSTANTS
    XLEN,          \* 32 or 64
    Code,          \* virtual addresses the program under debug executes
    PGSIZE,        \* cells in a page
    LEVELS,        \* levels of the page table
    Roots,         \* values of sptbr the program under debug uses
    MemInit,       \* the physical memory at reset: a function from 0 .. n
    MStatusInit,   \* mstatus at reset: fs, vm
    NTRIG,         \* triggers of the hart (num_triggers)
    RECV_CAP,      \* packets recv_buf has room for, plus one
    Packets,       \* requests the debugger may make
    BUDGET,        \* bound: requests and connections of a behaviour
    Duplicates     \* may the debugger send a Z or z packet a second time?

ASSUME GdbConstants ==
    /\ XLEN \in {32, 64}
    /\ PGSIZE \in Nat \ {0} /\ LEVELS \in Nat \ {0} /\ NTRIG \in Nat \ {0}
    /\ RECV_CAP \in Nat /\ RECV_CAP > 2 /\ BUDGET \in Nat
    /\ Duplicates \in BOOLEAN
    /\ MStatusInit \in [fs : BOOLEAN, vm : BOOLEAN]
    /\ \A p \in Packets : p.k \notin {"ctrl_c", "none"} /\ (p.k = "P" => p.val \in Nat)

Cell == DOMAIN MemInit
EBREAK == 9          \* the software breakpoint instruction
Junk == 7            \* what Debug ROM leaves in s0
NoTrigger == -1
NoCause == "none"

-----------------------------------------------------------------------------
(* The instructions of a Debug RAM program.                                *)

csrsi(csr) == <<"csrsi", csr>>
csrr(rd, csr) == <<"csrr", rd, csr>>
csrw(rs, csr) == <<"csrw", rs, csr>>
fence_i == <<"fence_i">>
sd(rs, base) == <<"sd", rs, base>>
ld(rd, base) == <<"ld", rd, base>>
fsd(rs, slot) == <<"fsd", rs, slot>>
fld(rd, slot) == <<"fld", rd, slot>>
addi(rd, rs, imm) == <<"addi", rd, rs, imm>>
xlen_probe == <<"xlen_probe">>
dr_store(rs, slot) == <<"store", rs, slot>>
dr_load(rd, slot) == <<"load", rd, slot>>

-----------------------------------------------------------------------------
(* The server: operations on the record srv.                               *)

\* set_interrupt(0) after a program was written; dr_write_jump ends it.
Post(s, prog) == [s EXCEPT !.ram.prog = prog, !.intr = TRUE]
Slot(s, slot, v) == [s EXCEPT !.ram[slot] = v]

send_packet(s, r) == [s EXCEPT !.send = Append(@, <<r>>)]
send_registers(s, x, s0, s1) ==
    [s EXCEPT !.send = Append(@, <<"regs", x, s0, s1>>)]

die(s) == [s EXCEPT !.dead = TRUE]

add_operation(s, o) == [s EXCEPT !.queue = Append(@, o)]

Op(name) == [op |-> name, step |-> 0]

\* operation_t::step returned false, with the operation as it now is
Again(s, o) == [s EXCEPT !.queue = <<[o EXCEPT !.step = @ + 1]>> \o Tail(@)]
\* operation_t::step returned true
Done(s) == [s EXCEPT !.queue = Tail(@)]

\* On RV64 the word read is the low half of the saved s1, not the status.
LastWord(s) == IF XLEN = 64 THEN s.ram.last ELSE s.ram.status

dpc_program == <<csrsi("dcsr"), csrr("s0", "dpc"), dr_store("s0", "d0")>>

StopReply(cause) ==
    CASE cause = "debugint" -> "S02"
      [] cause \in {"hwbp", "step", "halt"} -> "T05"
      [] cause = "swbp" -> "T05swbreak"

\* The states ST_ENTER, ST_XLEN, ST_DPC, ST_MSTATUS and ST_DCSR are the
\* steps 0 to 4; with xlen known, ST_ENTER goes to ST_DPC.
halt_op(s, o) ==
    CASE o.step = 0 ->
           IF s.gs.xlen = 0
           THEN Again(Post(s, <<xlen_probe>>), o)
           ELSE Again(Post(s, dpc_program), [o EXCEPT !.step = 1])
      [] o.step = 1 ->
           Again(Post([s EXCEPT !.gs.xlen = s.ram.w0], dpc_program), o)
      [] o.step = 2 ->
           Again(Post([s EXCEPT !.gs.dpc = s.ram.d0],
                      <<csrr("s0", "mstatus"), dr_store("s0", "d0")>>), o)
      [] o.step = 3 ->
           Again(Post([s EXCEPT !.gs.mstatus = s.ram.d0,
                                !.gs.mstatus_dirty = FALSE],
                      <<csrr("s0", "dcsr"), dr_store("s0", "d0")>>), o)
      [] OTHER ->
           LET t == [s EXCEPT !.gs.dcsr = s.ram.d0,
                              !.gs.sptbr_valid = FALSE,
                              !.gs.pte_cache = <<>>]
           IN  IF ~o.status THEN Done(t)
               ELSE IF s.ram.d0.cause = NoCause THEN die(t)
               ELSE Done(send_packet(t, StopReply(s.ram.d0.cause)))

\* Mutant: the halt request stays in dcsr.
continue_op_KeepsHalt(s, o) ==
    CASE o.step = 0 ->
           Again(Slot(Post(s, <<dr_load("s0", "d0"), csrw("s0", "dpc")>>),
                      "d0", s.gs.dpc), o)
      [] o.step = 1 ->
           Again(Slot(Post(s, <<dr_load("s0", "d0"), csrw("s0", "mstatus")>>),
                      "d0", s.gs.mstatus), o)
      [] OTHER ->
           Done(Slot(Post(s, <<dr_load("s0", "d0"), csrw("s0", "dcsr")>>),
                     "d0", [s.gs.dcsr EXCEPT !.step = o.single_step,
                                             !.ebreak = TRUE]))

continue_op(s, o) ==
    CASE o.step = 0 ->
           Again(Slot(Post([s EXCEPT !.gs.fence_i_required = FALSE],
                           <<dr_load("s0", "d0"), csrw("s0", "dpc")>>
                             \o (IF s.gs.fence_i_required
                                 THEN <<fence_i>> ELSE <<>>)),
                      "d0", s.gs.dpc), o)
      [] o.step = 1 ->
           Again(Slot(Post(s, <<dr_load("s0", "d0"), csrw("s0", "mstatus")>>),
                      "d0", s.gs.mstatus), o)
      [] OTHER ->
           Done(Slot(Post(s, <<dr_load("s0", "d0"), csrw("s0", "dcsr")>>),
                     "d0", [s.gs.dcsr EXCEPT !.halt = FALSE,
                                             !.step = o.single_step,
                                             !.ebreak = TRUE]))

\* The registers go out two at a time; the pairs that hold s0 and s1 fetch
\* them from where Debug ROM saved them.
RegPairs == <<<<"x", "x">>, <<"x", "s0">>, <<"s1", "x">>>>

\* Mutant: s0 is sent as Debug ROM left it.
general_registers_read_op_Borrowed(s, o) ==
    LET got == IF o.step = 0 THEN <<>>
               ELSE o.got \o <<s.ram.d0, s.ram.d1>>
        pair == RegPairs[o.step + 1]
    IN  IF o.step = Len(RegPairs)
        THEN Done(send_registers(s, got[1], got[4], got[5]))
        ELSE Again(Post(s, <<dr_store(pair[1], "d0"), dr_store(pair[2], "d1")>>),
                   [o EXCEPT !.got = got])

general_registers_read_op(s, o) ==
    LET got == IF o.step = 0 THEN <<>>
               ELSE o.got \o <<s.ram.d0, s.ram.d1>>
        pair == RegPairs[o.step + 1]
    IN  IF o.step = Len(RegPairs)
        THEN Done(send_registers(s, got[1], got[4], got[5]))
        ELSE Again(Post(s, (IF pair[1] = "s1"
                            THEN <<dr_load("s1", "last")>> ELSE <<>>)
                           \o <<dr_store(pair[1], "d0")>>
                           \o (IF pair[2] = "s0"
                               THEN <<csrr("s0", "dscratch")>> ELSE <<>>)
                           \o <<dr_store(pair[2], "d1")>>),
                   [o EXCEPT !.got = got])

\* Debug RAM program that makes the FPU usable before an FPR access
FsProgram(s) == <<dr_load("s0", "d1"), csrw("s0", "mstatus")>>
\* Mutant: the server's own copy of mstatus is changed too.
FsOn_Saved(s) ==
    [Slot(s, "d1", [s.gs.mstatus EXCEPT !.fs = TRUE])
       EXCEPT !.gs.mstatus_dirty = TRUE, !.gs.mstatus.fs = TRUE]

FsOn(s) == [Slot(s, "d1", [s.gs.mstatus EXCEPT !.fs = TRUE])
              EXCEPT !.gs.mstatus_dirty = TRUE]

register_read_op(s, o) ==
    IF o.step = 1
    THEN IF LastWord(s) # 0 THEN Done(send_packet(s, "E03"))
         ELSE Done(send_packet(s, "value"))
    ELSE CASE o.reg \in {"x", "s0", "s1"} ->
                Again(Post(s, <<dr_store(o.reg, "d0")>>), o)
           [] o.reg \in {"pc", "mstatus", "priv"} ->
                Done(send_packet(s, "value"))
           [] o.reg = "f" ->
                Again(Post(FsOn(s), FsProgram(s) \o <<fsd("f", "d0")>>), o)
           [] o.reg \in {"sptbr", "bad"} ->
                Again(Post(s, <<csrr("s0", o.reg), dr_store("s0", "d0")>>), o)
           [] OTHER -> Done(send_packet(s, "E02"))

register_write_op(s, o) ==
    LET t == Slot(s, "d0", o.val)
        p(prog) == Again(Post(t, <<dr_load("s0", "d0")>> \o prog), o)
    IN  IF o.step = 1
        THEN Done(send_packet(s, IF LastWord(s) # 0 THEN "E03" ELSE "OK"))
        ELSE CASE o.reg = "s0" -> p(<<csrw("s0", "dscratch")>>)
               [] o.reg = "s1" -> p(<<dr_store("s0", "last")>>)
               [] o.reg = "x" -> p(<<addi("x", "s0", 0)>>)
               [] o.reg = "pc" -> Done([t EXCEPT !.gs.dpc = o.val])
               [] o.reg = "f" ->
                    Again(Post(FsOn(t), FsProgram(t) \o <<fld("f", "d0")>>), o)
               [] o.reg = "mstatus" ->
                    Done([t EXCEPT !.gs.mstatus.fs = (o.val # 0),
                                   !.gs.mstatus_dirty = TRUE])
               [] o.reg = "sptbr" ->
                    [p(<<csrw("s0", "sptbr")>>)
                       EXCEPT !.gs.sptbr = o.val, !.gs.sptbr_valid = TRUE]
               [] o.reg = "bad" -> p(<<csrw("s0", "bad")>>)
               [] o.reg = "priv" ->
                    Done([t EXCEPT !.gs.dcsr.prv = IF o.val = 0 THEN "U" ELSE "M"])
               [] OTHER -> Done(send_packet(t, "E02"))

-----------------------------------------------------------------------------
(* Memory through the page tables the server has collected.                *)

virtual_memory(s) == s.gs.dcsr.prv # "M" /\ s.gs.mstatus.vm

PteAddr(base, i, va) ==
    base * PGSIZE + (((va \div PGSIZE) \div (2 ^ (LEVELS - 1 - i))) % 2)
PTE_TABLE(pte) == pte % 2 = 1
ppn(pte) == pte \div 2

\* What the loop over the levels finds: a missing entry, a leaf, or nothing.
\* tab is the part of memory that is known.
Walk(tab, root, va) ==
    LET w[i \in 0 .. LEVELS, base \in Nat] ==
          IF i = LEVELS THEN <<"invalid">>
          ELSE LET a == PteAddr(base, i, va)
               IN  IF a \notin DOMAIN tab THEN <<"missing", a>>
                   ELSE IF PTE_TABLE(tab[a]) THEN w[i + 1, ppn(tab[a])]
                   ELSE <<"leaf", (ppn(tab[a])
                                   + ((va \div PGSIZE) % (2 ^ (LEVELS - 1 - i))))
                                  * PGSIZE + (va % PGSIZE)>>
    IN  w[0, root]

\* gdbserver_t::translate calls die() for an entry it has not collected ...
Uncollected(s, va) ==
    virtual_memory(s) /\ Walk(s.gs.pte_cache, s.gs.sptbr, va)[1] = "missing"

\* ... and returns -1 if the tables are invalid.
translate(s, va) ==
    IF ~virtual_memory(s) THEN va
    ELSE LET r == Walk(s.gs.pte_cache, s.gs.sptbr, va)
         IN  IF r[1] = "leaf" THEN r[2] ELSE -1

\* Mutant: the tables of the last halt are trusted to be complete.
collect_translation_info_op_Once(s, o) ==
    IF o.step = 0 /\ virtual_memory(s) /\ ~s.gs.sptbr_valid
    THEN Again(Post(s, <<csrr("s0", "sptbr"), dr_store("s0", "d0")>>), o)
    ELSE Done([s EXCEPT !.gs.sptbr = IF o.step = 0 THEN @ ELSE s.ram.d0,
                        !.gs.sptbr_valid = TRUE])

collect_translation_info_op(s, o) ==
    LET t == CASE o.state = "START" -> s
               [] o.state = "READ_SPTBR" ->
                    [s EXCEPT !.gs.sptbr = s.ram.d0, !.gs.sptbr_valid = TRUE]
               [] OTHER ->
                    [s EXCEPT !.gs.pte_cache =
                       [a \in DOMAIN @ \cup {o.pte_addr} |->
                          IF a = o.pte_addr THEN s.ram.d0 ELSE @[a]]]
        r == Walk(t.gs.pte_cache, t.gs.sptbr, o.addr)
    IN  IF o.step = 0 /\ ~virtual_memory(s) THEN Done(s)
        ELSE IF ~t.gs.sptbr_valid
        THEN Again(Post(t, <<csrr("s0", "sptbr"), dr_store("s0", "d0")>>),
                   [o EXCEPT !.state = "READ_SPTBR"])
        ELSE IF r[1] = "missing"
        THEN Again(Slot(Post(t, <<dr_load("s0", "d0"), ld("s1", "s0"),
                                  dr_store("s1", "d0")>>), "d0", r[2]),
                   [o EXCEPT !.state = "READ_PTE", !.pte_addr = r[2]])
        ELSE Done(t)

\* o.bp is the software breakpoint whose instruction is read, or NoBp.
NoBp == -1

memory_read_op(s, o) ==
    LET pa == translate(s, o.addr)
    IN  IF o.step = 0
        THEN IF Uncollected(s, o.addr) THEN die(s)
             ELSE Again(Slot(Post(s, <<dr_load("s0", "d0"), ld("s1", "s0"),
                                       dr_store("s1", "d1")>>), "d0", pa),
                        [o EXCEPT !.paddr = pa])
        ELSE IF s.ram.status # 0 THEN Done(send_packet(s, "E99"))
        ELSE LET t == IF o.bp = NoBp THEN s
                      ELSE [s EXCEPT !.software_breakpoints[o.bp] = s.ram.d1]
             IN  IF o.len = 1
                 THEN Done(IF o.bp = NoBp THEN send_packet(t, "data") ELSE t)
                 ELSE Again(Slot([t EXCEPT !.intr = TRUE], "d0", o.paddr + 1),
                            [o EXCEPT !.paddr = @ + 1, !.len = @ - 1])

memory_write_op(s, o) ==
    LET pa == translate(s, o.addr)
    IN  IF Uncollected(s, o.addr) THEN die(s)
        ELSE IF o.step = 0
        THEN Again(Slot(Slot(Post(s, <<dr_load("s0", "d0"), dr_load("s1", "d1"),
                                       sd("s1", "s0")>>), "d1", o.data[1]),
                        "d0", pa), o)
        ELSE IF s.ram.status # 0 THEN Done(send_packet(s, "E98"))
        ELSE IF o.step >= Len(o.data) THEN Done(send_packet(s, "OK"))
        ELSE Again(Slot(Slot([s EXCEPT !.intr = TRUE], "d1", o.data[o.step + 1]),
                        "d0", pa + o.step), o)

-----------------------------------------------------------------------------
(* Breakpoints.                                                            *)

index_program ==
    <<dr_load("s0", "d1"), csrw("s0", "tselect"), csrr("s0", "tselect"),
      dr_store("s0", "d1")>>

hardware_breakpoint_insert_op(s, o) ==
    CASE o.state = "START" ->
           Again(Slot(Post(s, index_program), "d1", 0),
                 [o EXCEPT !.state = "CHECK_INDEX", !.index = 0])
      [] o.state = "CHECK_INDEX" ->
           IF s.ram.d1 # o.index THEN Done(send_packet(s, "E58"))
           ELSE Again(Post(s, <<csrr("s0", "tdata1"), dr_store("s0", "d0")>>),
                      [o EXCEPT !.state = "CHECK_MCONTROL"])
      [] o.state = "CHECK_MCONTROL" ->
           IF s.ram.d0 = 0
           THEN Again(Slot(Post(s, <<dr_load("s0", "d1"), csrw("s0", "tdata1")>>),
                           "d1", 1), [o EXCEPT !.state = "WRITE_ADDRESS"])
           ELSE Again(Slot(Post(s, index_program), "d1", o.index + 1),
                      [o EXCEPT !.state = "CHECK_INDEX", !.index = @ + 1])
      [] OTHER ->
           \* std::set::insert keeps the entry it has
           LET t == IF o.addr \in DOMAIN s.hardware_breakpoints THEN s
                    ELSE [s EXCEPT !.hardware_breakpoints =
                            [a \in DOMAIN @ \cup {o.addr} |->
                               IF a = o.addr THEN o.index ELSE @[a]]]
           IN  Done(send_packet(Slot(Post(t, <<dr_load("s0", "d1"),
                                               csrw("s0", "tdata2")>>),
                                     "d1", o.addr), "OK"))

maybe_save_tselect_op(s, o) ==
    IF s.gs.tselect_valid THEN Done(s)
    ELSE IF o.step = 0
    THEN Again(Post(s, <<csrr("s0", "tdata1"), dr_store("s0", "d0")>>), o)
    ELSE Done([s EXCEPT !.gs.tselect = s.ram.d0, !.gs.tselect_valid = TRUE])

\* Both write a program and return; neither raises the debug interrupt.
maybe_restore_tselect_op(s, o) ==
    Done(IF s.gs.tselect_valid
         THEN [Slot(s, "d1", s.gs.tselect)
                 EXCEPT !.ram.prog = <<dr_load("s0", "d1"), csrw("s0", "tselect")>>]
         ELSE s)
maybe_restore_mstatus_op(s, o) ==
    Done(IF s.gs.mstatus_dirty
         THEN [Slot(s, "d1", s.gs.mstatus)
                 EXCEPT !.ram.prog = <<dr_load("s0", "d1"), csrw("s0", "mstatus")>>]
         ELSE s)

hardware_breakpoint_remove_op(s, o) ==
    Done(Post(s, <<addi("s0", "zero", o.index), csrw("s0", "tselect"),
                   csrw("zero", "tdata1")>>))

-----------------------------------------------------------------------------
(* Requests.                                                               *)

HaltOp(status) == [op |-> "halt", step |-> 0, status |-> status]
ContinueOp(single) == [op |-> "continue", step |-> 0, single_step |-> single]
CollectOp(a) == [op |-> "collect", step |-> 0, addr |-> a, state |-> "START",
                 pte_addr |-> 0]
ReadOp(a, n, bp) == [op |-> "mread", step |-> 0, addr |-> a, len |-> n,
                     bp |-> bp, paddr |-> 0]
WriteOp(a, data, user) == [op |-> "mwrite", step |-> 0, addr |-> a,
                           data |-> data, user |-> user]

handle_halt_reason(s) == send_packet(s, "S00")
handle_general_registers_read(s) ==
    add_operation(s, [op |-> "gread", step |-> 0, got |-> <<>>])
handle_register_read(s, p) ==
    add_operation(s, [op |-> "rread", step |-> 0, reg |-> p.reg])
handle_register_write(s, p) ==
    send_packet(add_operation(s, [op |-> "rwrite", step |-> 0,
                                  reg |-> p.reg, val |-> p.val]), "OK")
handle_memory_read(s, p) ==
    add_operation(add_operation(s, CollectOp(p.addr)),
                  ReadOp(p.addr, p.len, NoBp))
handle_memory_binary_write(s, p) ==
    IF p.data = <<>> THEN send_packet(s, "OK")
    ELSE add_operation(add_operation(s, CollectOp(p.addr)),
                       WriteOp(p.addr, p.data, TRUE))
handle_continue(s, p) ==
    LET t == IF p.addr = NoBp THEN s ELSE [s EXCEPT !.gs.dpc = p.addr]
    IN  add_operation(add_operation(add_operation(t, Op("rtselect")),
                                    Op("rmstatus")), ContinueOp(FALSE))
handle_step(s) ==
    add_operation(add_operation(s, Op("rtselect")), ContinueOp(TRUE))
handle_extended(s) == send_packet(s, "OK")

software_breakpoint_insert(s, a) ==
    LET t == [s EXCEPT !.gs.fence_i_required = TRUE,
                       !.software_breakpoints =
                          [b \in DOMAIN @ \cup {a} |-> IF b = a THEN 0 ELSE @[b]]]
    IN  add_operation(add_operation(add_operation(t, CollectOp(a)),
                                    ReadOp(a, 1, a)), WriteOp(a, <<EBREAK>>, FALSE))
\* Mutant: the breakpoint is forgotten and its instruction not put back.
software_breakpoint_remove_Forgotten(s, a) ==
    LET t == [s EXCEPT !.software_breakpoints = [b \in DOMAIN @ \ {a} |-> @[b]]]
    IN  add_operation(t, CollectOp(a))

\* An unknown breakpoint is a fresh map entry: address 0, size 0.
software_breakpoint_remove(s, a) ==
    LET known == a \in DOMAIN s.software_breakpoints
        t == [s EXCEPT !.gs.fence_i_required = TRUE,
                       !.software_breakpoints = [b \in DOMAIN @ \ {a} |-> @[b]]]
    IN  add_operation(add_operation(t, CollectOp(a)),
                      IF known THEN WriteOp(a, <<s.software_breakpoints[a]>>, FALSE)
                               ELSE WriteOp(0, <<0>>, FALSE))

hardware_breakpoint_insert(s, a) ==
    add_operation(add_operation(s, Op("stselect")),
                  [op |-> "hwinsert", step |-> 0, state |-> "START",
                   addr |-> a, index |-> 0])
hardware_breakpoint_remove(s, a) ==
    add_operation(add_operation(s, Op("stselect")),
                  [op |-> "hwremove", step |-> 0,
                   index |-> s.hardware_breakpoints[a]])

handle_breakpoint(s, p) ==
    CASE p.k = "Z" /\ p.type = "sw" ->
           send_packet(software_breakpoint_insert(s, p.addr), "OK")
      [] p.k = "z" /\ p.type = "sw" ->
           send_packet(software_breakpoint_remove(s, p.addr), "OK")
      [] p.k = "Z" /\ p.type # "sw" -> hardware_breakpoint_insert(s, p.addr)
      [] OTHER -> send_packet(hardware_breakpoint_remove(s, p.addr), "OK")

handle_query(s) == send_packet(s, "features")
\* The operation an interrupt adds
handle_interrupt == HaltOp(TRUE)

\* A packet is acknowledged before it is looked at.
handle_packet(s0, p) ==
    LET s == send_packet(s0, "+")
    IN  CASE p.k = "badsum" -> send_packet(s0, "-")
          [] p.k = "!" -> handle_extended(s)
          [] p.k = "?" -> handle_halt_reason(s)
          [] p.k = "g" -> handle_general_registers_read(s)
          [] p.k = "m" -> handle_memory_read(s, p)
          [] p.k = "X" -> handle_memory_binary_write(s, p)
          [] p.k = "p" -> handle_register_read(s, p)
          [] p.k = "P" -> handle_register_write(s, p)
          [] p.k = "c" -> handle_continue(s, p)
          [] p.k = "s" -> handle_step(s)
          [] p.k \in {"Z", "z"} -> handle_breakpoint(s, p)
          [] p.k = "q" -> handle_query(s)
          [] OTHER -> send_packet(s, "")

\* The interrupts at the front of recv_buf and the packet after them: the
\* loop ends with the first packet it has looked at.
Interrupts(s) ==
    CHOOSE n \in 0 .. Len(s.recv) :
        /\ \A j \in 1 .. n : s.recv[j].k = "ctrl_c"
        /\ n < Len(s.recv) => s.recv[n + 1].k # "ctrl_c"
process_requests(s) ==
    LET n == Interrupts(s)
        t == [s EXCEPT !.queue = @ \o [i \in 1 .. n |-> handle_interrupt]]
    IN  IF n = Len(s.recv) THEN [t EXCEPT !.recv = <<>>]
        ELSE handle_packet([t EXCEPT !.recv = SubSeq(@, n + 2, Len(@))], s.recv[n + 1])

-----------------------------------------------------------------------------
(* One call of handle(), which the main loop makes after every sim step.   *)

perform_step(s) ==
    LET o == Head(s.queue)
    IN  CASE o.op = "halt" -> halt_op(s, o)
          [] o.op = "continue" -> continue_op(s, o)
          [] o.op = "gread" -> general_registers_read_op(s, o)
          [] o.op = "rread" -> register_read_op(s, o)
          [] o.op = "rwrite" -> register_write_op(s, o)
          [] o.op = "collect" -> collect_translation_info_op(s, o)
          [] o.op = "mread" -> memory_read_op(s, o)
          [] o.op = "mwrite" -> memory_write_op(s, o)
          [] o.op = "hwinsert" -> hardware_breakpoint_insert_op(s, o)
          [] o.op = "hwremove" -> hardware_breakpoint_remove_op(s, o)
          [] o.op = "stselect" -> maybe_save_tselect_op(s, o)
          [] o.op = "rtselect" -> maybe_restore_tselect_op(s, o)
          [] OTHER -> maybe_restore_mstatus_op(s, o)

\* Mutant: the next step does not wait for the hart.
OpStep_Eager(s) == IF s.queue = <<>> THEN s ELSE perform_step(s)

OpStep(s) == IF s.intr \/ s.queue = <<>> THEN s ELSE perform_step(s)

Notify(s) ==
    IF s.haltnot THEN add_operation([s EXCEPT !.haltnot = FALSE], HaltOp(TRUE))
                 ELSE s
=============================================================================
