------------------------------ MODULE GdbSession -----------------------------
(***************************************************************************)
(* A debugging session: the main loop's calls of handle() (sim.cc,         *)
(* gdbserver.cc), the steps of the hart in and out of Debug Mode           *)
(* (execute.cc, debug_rom/debug_rom.S) and the debugger at the other end   *)
(* of the socket, in any order.                                            *)
(***************************************************************************)
EXTENDS DebugHart

VARIABLES
    srv,    \* the server and the debug module
    hart,   \* the hart, in and out of Debug Mode
    mem,    \* physical memory
    gdb,    \* the debugger at the other end of the socket (external)
    want    \* what the debugger was promised: history, no code reads it

vars == <<srv, hart, mem, gdb, want>>

\* A read that finds the socket closed, or that asks for no bytes because the
\* buffer is full, returns 0: the client is dropped, the queue is kept.
ReadSocket(s) ==
    IF ~gdb.link \/ Len(s.recv) >= RECV_CAP - 1
    THEN [s EXCEPT !.client = FALSE, !.recv = <<>>, !.send = <<>>]
    ELSE s

accept(s) == IF gdb.link THEN add_operation([s EXCEPT !.client = TRUE], HaltOp(FALSE))
                         ELSE s

\* What a write to pc, mstatus or prv, or "c addr", promises: the server keeps
\* these itself and gives them to the hart when it resumes.  A client that
\* connects to a halted hart is promised the pc, mstatus and prv its halt finds.
PromiseServer(s) ==
    IF ~s.client \/ s.intr \/ s.queue = <<>> THEN want
    ELSE LET o == Head(s.queue)
         IN  CASE o.op = "halt" /\ o.step = 2 /\ ~o.status ->
                    [want EXCEPT !.pc = s.ram.d0]
               [] o.op = "halt" /\ o.step = 3 /\ ~o.status ->
                    [want EXCEPT !.mstatus = s.ram.d0]
               [] o.op = "halt" /\ o.step = 4 /\ ~o.status ->
                    [want EXCEPT !.prv = s.ram.d0.prv]
               [] o.op = "rwrite" /\ o.step = 0 /\ o.reg = "pc" ->
                    [want EXCEPT !.pc = o.val]
               [] o.op = "rwrite" /\ o.step = 0 /\ o.reg = "mstatus" ->
                    [want EXCEPT !.mstatus.fs = (o.val # 0)]
               [] o.op = "rwrite" /\ o.step = 0 /\ o.reg = "priv" ->
                    [want EXCEPT !.prv = IF o.val = 0 THEN "U" ELSE "M"]
               [] OTHER -> want

Handle ==
    /\ ~srv.dead
    /\ LET read == ReadSocket(Notify(OpStep(srv)))
           s == IF srv.client THEN [read EXCEPT !.send = <<>>] ELSE accept(srv)
           t == IF s.queue = <<>> THEN process_requests(s) ELSE s
       IN  /\ srv' = t
           /\ gdb' = IF srv.client /\ read.client
                     THEN [gdb EXCEPT !.replies = @ \o read.send] ELSE gdb
           /\ want' = LET w == PromiseServer(srv)
                          n == Interrupts(s) + 1
                      IN  IF s.queue = <<>> /\ n <= Len(s.recv) /\ s.recv[n].k = "c"
                             /\ s.recv[n].addr # NoBp
                          THEN [w EXCEPT !.pc = s.recv[n].addr] ELSE w
    /\ UNCHANGED <<hart, mem>>

-----------------------------------------------------------------------------
(* The hart enters Debug Mode, executes Debug ROM and Debug RAM, leaves.    *)

\* The program's view of itself, recorded when it is stopped
Promise(h) == [want EXCEPT !.s0 = h.s0, !.s1 = h.s1, !.x = h.x, !.f = h.f,
                           !.pc = h.pc, !.mstatus = h.mstatus, !.prv = h.prv]

\* processor_t::step finds the debug interrupt, or dcsr.halt, set.
EnterDebug ==
    /\ ~srv.dead
    /\ hart.mode = "run"
    /\ \/ srv.intr /\ hart' = enter_debug_mode(hart, "debugint")
       \/ ~srv.intr /\ hart.halt /\ hart' = enter_debug_mode(hart, "halt")
    /\ want' = Promise(hart)
    /\ UNCHANGED <<srv, mem, gdb>>

\* _entry.  A hart that was single stepping when the trap was taken has
\* executed one instruction of the Debug ROM and enters Debug Mode again.
Entry ==
    /\ ~srv.dead
    /\ hart.mode = "entry"
    /\ IF hart.single_step = "stepped"
       THEN /\ hart' = [enter_debug_mode(hart, "step")
                          EXCEPT !.single_step = "none"]
            /\ UNCHANGED srv
       ELSE IF hart.cause = "debugint"
       THEN /\ hart' = [hart EXCEPT !.dscratch = hart.s0, !.s0 = Junk,
                                    !.mode = "ram"]
            /\ srv' = [srv EXCEPT !.ram.last = hart.s1]
       ELSE /\ hart' = [hart EXCEPT !.dscratch = hart.s0, !.s0 = Junk,
                                    !.halt = TRUE, !.mode = "wait"]
            /\ srv' = [srv EXCEPT !.haltnot = TRUE]
    /\ UNCHANGED <<mem, gdb, want>>

\* Mutant: Debug RAM is entered without a request.
WaitForInterrupt_NoWait ==
    /\ ~srv.dead
    /\ hart.mode = "wait"
    /\ hart' = [hart EXCEPT !.s0 = Junk, !.mode = "ram"]
    /\ srv' = [srv EXCEPT !.ram.last = hart.s1]
    /\ UNCHANGED <<mem, gdb, want>>

\* wait_for_interrupt, jdebugram: s1 is saved, s0 is lost.
WaitForInterrupt ==
    /\ ~srv.dead
    /\ hart.mode = "wait" /\ srv.intr
    /\ hart' = [hart EXCEPT !.s0 = Junk, !.mode = "ram"]
    /\ srv' = [srv EXCEPT !.ram.last = hart.s1]
    /\ UNCHANGED <<mem, gdb, want>>

\* Where the program under debug would access virtual address va
TrueCell(va) ==
    IF want.prv = "M" \/ ~want.mstatus.vm THEN va
    ELSE LET r == Walk(want.mem, hart.sptbr, va)
         IN  IF r[1] = "leaf" THEN r[2] ELSE -1

\* What the program just run promises: the register or memory writes of the
\* operation that posted it.
PromiseHart ==
    IF srv.queue = <<>> THEN want
    ELSE LET o == Head(srv.queue)
         IN  CASE o.op = "rwrite" /\ o.step = 1 /\ o.reg \in {"s0", "s1", "x", "f"} ->
                    [want EXCEPT ![o.reg] = o.val]
               [] o.op = "mwrite" /\ o.step > 0 /\ o.user ->
                    LET c == TrueCell(o.addr + o.step - 1)
                    IN  IF c \in Cell
                        THEN [want EXCEPT !.mem[c] = o.data[o.step]] ELSE want
               [] OTHER -> want

\* The Debug RAM program, then resume or exception, up to CLEARDEBINT
DebugRam ==
    /\ ~srv.dead
    /\ hart.mode = "ram"
    /\ LET m == RunProgram([h |-> hart, ram |-> srv.ram, mem |-> mem, ok |-> TRUE],
                           srv.ram.prog)
       IN  /\ hart' = [m.h EXCEPT !.s1 = m.ram.last, !.s0 = Junk, !.mode = "check"]
           /\ srv' = [srv EXCEPT !.ram = [m.ram EXCEPT !.status =
                                            IF m.ok THEN 0 ELSE 1],
                                 !.intr = FALSE]
           /\ mem' = m.mem
    /\ want' = PromiseHart
    /\ UNCHANGED gdb

\* check_halt: wait for the next program, or restore s0 and dret.
CheckHalt ==
    /\ ~srv.dead
    /\ hart.mode = "check"
    /\ hart' = IF hart.halt THEN [hart EXCEPT !.mode = "wait"]
               ELSE [hart EXCEPT !.s0 = hart.dscratch, !.pc = hart.dpc,
                                 !.prv = hart.dprv, !.cause = NoCause,
                                 !.mode = "run", !.itlb = FALSE, !.icache = {},
                                 !.single_step = IF hart.step THEN "stepping"
                                                 ELSE @]
    /\ UNCHANGED <<srv, mem, gdb, want>>

-----------------------------------------------------------------------------
(* The program under debug (external): a loop over Code in which s1 follows *)
(* s0 and s0 alternates between 0 and 1.                                   *)

Successor(pc) == IF pc + 1 \in Code THEN pc + 1 ELSE 0

FetchCell ==
    IF hart.prv = "M" \/ ~hart.mstatus.vm THEN hart.pc
    ELSE LET r == Walk(mem, hart.sptbr, hart.pc)
         IN  IF r[1] = "leaf" THEN r[2] ELSE -1

\* An execute trigger is compared only when the page is in the fetch TLB and
\* the instruction is not in the simulator's instruction cache.
Triggered == hart.itlb /\ hart.pc \notin hart.icache /\ \E i \in 0 .. NTRIG - 1 :
                hart.trigger[i].on /\ hart.trigger[i].addr = hart.pc

\* One instruction: a trigger fires, an ebreak stops or traps, or it executes.
RunInsn ==
    /\ ~srv.dead
    /\ hart.mode = "run" /\ FetchCell \in Cell
    /\ LET h == [hart EXCEPT !.itlb = TRUE,
                             !.icache = IF hart.single_step = "none"
                                        THEN @ \cup {hart.pc} ELSE @,
                             !.single_step = IF @ = "stepping" THEN "stepped" ELSE @]
       IN  IF Triggered
           THEN hart' = enter_debug_mode(h, "hwbp")
           ELSE IF mem[FetchCell] = EBREAK /\ hart.ebreak
           THEN hart' = enter_debug_mode(h, "swbp")
           ELSE LET n == [h EXCEPT !.s0 = 1 - h.s0, !.s1 = h.s0,
                                   !.pc = Successor(hart.pc)]
                IN  hart' = IF n.single_step = "stepped"
                            THEN enter_debug_mode([n EXCEPT !.single_step = "none"],
                                                  "step")
                            ELSE n
    /\ want' = IF hart'.mode = "run" THEN want
               ELSE Promise([hart' EXCEPT !.pc = hart'.dpc, !.prv = hart'.dprv])
    /\ UNCHANGED <<srv, mem, gdb>>

\* The program moves to another address space (csrw sptbr, sfence.vm); not
\* while breakpoints are inserted, which belong to one address space.
SwitchSpace ==
    /\ ~srv.dead /\ hart.mode = "run" /\ gdb.bps = {}
    /\ \E root \in Roots : hart' = [hart EXCEPT !.sptbr = root, !.itlb = FALSE, !.icache = {}]
    /\ UNCHANGED <<srv, mem, gdb, want>>

-----------------------------------------------------------------------------
(* The debugger (external): a request at a time, control-C while the       *)
(* program runs.  It throws away what arrives before its request is        *)
(* acknowledged, so a second answer to the request before is lost on it.   *)

Connect ==
    /\ ~gdb.link /\ ~srv.client /\ gdb.left > 0
    /\ gdb' = [gdb EXCEPT !.link = TRUE, !.left = @ - 1, !.replies = <<>>]
    /\ UNCHANGED <<srv, hart, mem, want>>

Resumed == gdb.pending \in {"c", "s"} /\ gdb.acked

\* The debugger goes away, even while the program runs.
Disconnect ==
    /\ gdb.link /\ srv.client /\ (gdb.pending = "none" \/ Resumed)
    /\ gdb' = [gdb EXCEPT !.link = FALSE, !.pending = "none", !.stop = FALSE]
    /\ UNCHANGED <<srv, hart, mem, want>>

Allowed(p) ==
    CASE p.k = "Z" -> /\ Duplicates \/ <<p.type, p.addr>> \notin gdb.bps
                      /\ p.type = "hw" => Cardinality({b \in gdb.bps : b[1] = "hw"}) < NTRIG
      [] p.k = "z" -> <<p.type, p.addr>> \in gdb.bps
      [] p.k = "X" -> \A i \in 1 .. Len(p.data) : <<"sw", p.addr + i - 1>> \notin gdb.bps
      [] p.k = "s" -> <<"sw", want.pc>> \notin gdb.bps
      [] p.k = "P" -> p.reg \in {"priv", "mstatus", "sptbr"} => gdb.bps = {}
      [] OTHER -> TRUE

\* A control-C that a stop has overtaken is read by the server before the
\* debugger gets to its next request.
SendRequest ==
    /\ gdb.link /\ srv.client /\ gdb.left > 0 /\ gdb.pending = "none"
    /\ \A i \in 1 .. Len(srv.recv) : srv.recv[i].k # "ctrl_c"
    /\ \E p \in Packets :
         /\ Allowed(p)
         /\ srv' = [srv EXCEPT !.recv = Append(@, p)]
         /\ gdb' = [gdb EXCEPT
              !.left = @ - 1, !.pending = p.k, !.acked = FALSE,
              !.bps = CASE p.k = "Z" -> @ \cup {<<p.type, p.addr>>}
                        [] p.k = "z" -> @ \ {<<p.type, p.addr>>}
                        [] OTHER -> @]
    /\ UNCHANGED <<hart, mem, want>>

\* A program with no step to finish is interrupted, perhaps as it stops.
Interrupt ==
    /\ gdb.link /\ srv.client /\ Resumed /\ ~gdb.stop
    /\ gdb.pending = "c"
    /\ srv' = [srv EXCEPT !.recv = Append(@, [k |-> "ctrl_c"])]
    /\ gdb' = [gdb EXCEPT !.stop = TRUE]
    /\ UNCHANGED <<hart, mem, want>>

StopReplies == {"S02", "T05", "T05swbreak"}

\* What one reply tells the debugger
Hear(g, reply) ==
    LET r == reply[1]
        resumed == g.pending \in {"c", "s"} /\ g.acked
        answer == IF resumed THEN r \in StopReplies ELSE g.acked \/ r = "-"
    IN  [g EXCEPT !.acked = @ \/ r = "+",
                  !.pending = IF answer THEN "none" ELSE @,
                  !.stop = @ /\ ~answer]

\* The next reply is read; with no request open it is ignored.
ReceiveReply ==
    /\ gdb.link /\ gdb.replies # <<>>
    /\ gdb' = [Hear(gdb, Head(gdb.replies)) EXCEPT !.replies = Tail(@)]
    /\ UNCHANGED <<srv, hart, mem, want>>

-----------------------------------------------------------------------------
InitGs == [xlen : {0}, dpc : {0}, mstatus : {MStatusInit}, sptbr : {0},
           dcsr : {[prv |-> "M", step |-> FALSE, ebreak |-> FALSE,
                    halt |-> FALSE, cause |-> NoCause]},
           pte_cache : {<<>>}, tselect : {0},
           \* The constructor leaves these four uninitialised.  The halt that
           \* follows a connection sets the first two before they are read;
           \* the third decides on a fence.i, which dret makes superfluous.
           mstatus_dirty : {FALSE}, sptbr_valid : {FALSE},
           fence_i_required : {FALSE}, tselect_valid : BOOLEAN]

Init ==
    /\ \E g \in InitGs :
         srv = [client |-> FALSE, recv |-> <<>>, send |-> <<>>, queue |-> <<>>,
                gs |-> g, software_breakpoints |-> <<>>,
                hardware_breakpoints |-> <<>>, intr |-> FALSE, haltnot |-> FALSE,
                ram |-> [prog |-> <<>>, d0 |-> 0, d1 |-> 0, last |-> 0,
                         status |-> 0, w0 |-> 0], dead |-> FALSE]
    /\ \E stopped \in BOOLEAN :
         hart = [mode |-> "run", s0 |-> 0, s1 |-> 0, x |-> 0, f |-> 0,
                 dscratch |-> 0, pc |-> 0, dpc |-> 0, mstatus |-> MStatusInit,
                 prv |-> "U", sptbr |-> Min(Roots), cause |-> NoCause,
                 halt |-> stopped, step |-> FALSE, ebreak |-> FALSE,
                 dprv |-> "U", single_step |-> "none", itlb |-> FALSE, icache |-> {},
                 trigger |-> [i \in 0 .. NTRIG - 1 |-> [on |-> FALSE, addr |-> 0]], tselect |-> 0]
    /\ mem = MemInit
    /\ gdb = [link |-> FALSE, pending |-> "none", acked |-> FALSE,
              stop |-> FALSE, bps |-> {}, replies |-> <<>>, left |-> BUDGET]
    /\ want = [s0 |-> 0, s1 |-> 0, x |-> 0, f |-> 0, pc |-> 0,
               mstatus |-> MStatusInit, prv |-> "U", mem |-> MemInit]

HartDebug == EnterDebug \/ Entry \/ WaitForInterrupt \/ DebugRam \/ CheckHalt
HartRun == RunInsn \/ SwitchSpace
Debugger == Connect \/ Disconnect \/ SendRequest \/ Interrupt \/ ReceiveReply

Next == Handle \/ HartDebug \/ HartRun \/ Debugger

\* The main loop calls step() and handle() in turn for ever; the socket
\* delivers what was written.
Fairness == /\ WF_vars(Handle) /\ WF_vars(HartDebug) /\ WF_vars(RunInsn)
            /\ WF_vars(ReceiveReply)

Spec == Init /\ [][Next]_vars /\ Fairness

-----------------------------------------------------------------------------
Idle == srv.queue = <<>> /\ ~srv.intr /\ srv.recv = <<>> /\ ~srv.haltnot

\* The debug module, the hart and the server agree on what state they are in:
\* the hart is in Debug Mode exactly when dcsr.cause says so, and Debug RAM is
\* being executed only on request.
TypeOK ==
    /\ hart.mode \in {"run", "entry", "wait", "ram", "check"}
    /\ (hart.mode = "run") <=> (hart.cause = NoCause)
    /\ hart.mode = "ram" => srv.intr
    /\ hart.mode = "wait" => hart.halt
    /\ srv.gs.xlen \in {0, XLEN}

\* No sequence of requests makes the server give up: a halt without a cause,
\* a translation whose page table entries were not collected (gdbserver.cc).
NoAbort == ~srv.dead

\* While the debug interrupt is pending the Debug RAM program and its operands
\* do not change: the hart never executes half a program.
ProgramStable ==
    [][srv.intr /\ srv'.intr =>
         /\ srv'.ram.prog = srv.ram.prog
         /\ srv'.ram.d0 = srv.ram.d0 /\ srv'.ram.d1 = srv.ram.d1]_vars

\* When the hart leaves Debug Mode the program under debug finds its registers,
\* its pc, its mstatus and its privilege as it left them, apart from what the
\* debugger wrote: borrowed s0 and s1, and mstatus changed to reach the FPU,
\* are given back.
ResumeFaithful ==
    [][hart.mode # "run" /\ hart'.mode = "run" =>
         /\ \A r \in {"s0", "s1", "x", "f"} : hart'[r] = want[r]
         /\ hart'.pc = want.pc /\ hart'.prv = want.prv
         /\ hart'.mstatus = want.mstatus]_vars

\* With no request under way, memory holds what the program and the debugger
\* wrote, at the cells the virtual addresses mean, and an ebreak at each
\* software breakpoint; the triggers are armed at the hardware breakpoints.
BreakpointsMatch ==
    Idle => /\ \A c \in Cell :
                 mem[c] = IF \E a \in Code : <<"sw", a>> \in gdb.bps /\ TrueCell(a) = c
                          THEN EBREAK ELSE want.mem[c]
            /\ {hart.trigger[i].addr : i \in {j \in 0 .. NTRIG - 1 : hart.trigger[j].on}}
                 = {b[2] : b \in {c \in gdb.bps : c[1] = "hw"}}

\* What the server tells the debugger is so: at a stop reply the hart is
\* halted, and a register dump holds the program's registers, s0 and s1 too.
RepliesTrue ==
    [][\A i \in (Len(gdb.replies) + 1) .. Len(gdb'.replies) :
         LET r == gdb'.replies[i]
         IN  /\ r[1] \in StopReplies => hart.halt /\ hart.mode \in {"check", "wait"}
             /\ r[1] = "regs" => r = <<"regs", want.x, want.s0, want.s1>>]_vars

\* Every request is answered; a step comes to its stop reply, and so does a
\* program that runs until it is interrupted.
Answered == (gdb.pending \notin {"none", "c"} \/ gdb.stop) ~> (gdb.pending = "none")
=============================================================================
