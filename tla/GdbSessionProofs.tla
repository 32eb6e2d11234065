-------------------------- MODULE GdbSessionProofs --------------------------
(***************************************************************************)
(* Theorems about GdbSession, for every size of memory, page tables and    *)
(* buffers, every set of requests and every program under debug.           *)
(*                                                                         *)
(* The parts of the invariant are about a server s, a hart h, a debugger g *)
(* and a promise w rather than about the variables: Handle is several      *)
(* calls one after the other, and the invariant holds after each of them.  *)
(***************************************************************************)
EXTENDS GdbSession, SequenceTheorems, TLAPS

(* The fields of the records.                                              *)
SrvFields == {"client", "recv", "send", "queue", "gs", "software_breakpoints",
              "hardware_breakpoints", "intr", "haltnot", "ram", "dead"}
GsFields == {"xlen", "dpc", "mstatus", "sptbr", "dcsr", "pte_cache", "tselect",
             "mstatus_dirty", "sptbr_valid", "fence_i_required", "tselect_valid"}
RamFields == {"prog", "d0", "d1", "last", "status", "w0"}
HartFields == {"mode", "s0", "s1", "x", "f", "dscratch", "pc", "dpc", "mstatus",
               "prv", "sptbr", "cause", "halt", "step", "ebreak", "dprv",
               "single_step", "itlb", "icache", "trigger", "tselect"}
GdbFields == {"link", "pending", "acked", "stop", "bps", "replies", "left"}
WantFields == {"s0", "s1", "x", "f", "pc", "mstatus", "prv", "mem"}
MStatusFields == {"fs", "vm"}
DcsrFields == {"prv", "step", "ebreak", "halt", "cause"}

SrvShape(s) == /\ DOMAIN s = SrvFields
               /\ DOMAIN s.gs = GsFields
               /\ DOMAIN s.ram = RamFields
HartShape(h) == DOMAIN h = HartFields
GdbShape(g) == DOMAIN g = GdbFields
WantShape(w) == DOMAIN w = WantFields

-----------------------------------------------------------------------------
(* The queue: the rest of one request, then halts.                         *)

ResumeOps == {"rtselect", "rmstatus", "continue"}
OpNames == ResumeOps \cup {"halt", "gread", "rread", "rwrite", "collect", "mread",
                           "mwrite", "hwinsert", "hwremove", "stselect"}
OpFields(o) == {"op", "step"} \cup
    CASE o.op = "halt" -> {"status"}
      [] o.op = "continue" -> {"single_step"}
      [] o.op = "gread" -> {"got"}
      [] o.op = "rread" -> {"reg"}
      [] o.op = "rwrite" -> {"reg", "val"}
      [] o.op = "collect" -> {"addr", "state", "pte_addr"}
      [] o.op = "mread" -> {"addr", "len", "bp", "paddr"}
      [] o.op = "mwrite" -> {"addr", "data", "user"}
      [] o.op = "hwinsert" -> {"state", "addr", "index"}
      [] o.op = "hwremove" -> {"index"}
      [] OTHER -> {}
IsOp(o) == /\ o.op \in OpNames
           /\ DOMAIN o = OpFields(o)
           /\ o.step \in Nat
           /\ o.op = "rwrite" => o.val \in Nat

(* What may be queued behind what.                                         *)
Follow(a, b) ==
    /\ b.step = 0
    /\ CASE a.op = "rtselect" -> b.op \in {"rmstatus", "continue"}
         [] a.op = "rmstatus" -> b.op = "continue"
         [] a.op = "collect" -> b.op \in {"mread", "mwrite"} /\ b.addr = a.addr
         [] a.op = "mread" -> b.op = "halt" \/ (b.op = "mwrite" /\ b.addr = a.addr)
         [] a.op = "stselect" -> b.op \in {"hwinsert", "hwremove"}
         [] OTHER -> b.op = "halt"

IsSeq(q) == q \in Seq({q[i] : i \in 1 .. Len(q)})
Chain(q) == /\ IsSeq(q)
            /\ \A i \in 1 .. Len(q) : IsOp(q[i])
            /\ \A i \in 1 .. Len(q) - 1 : Follow(q[i], q[i + 1])
            /\ q # <<>> => q[Len(q)].op \notin {"rtselect", "rmstatus", "collect", "stselect"}

HaltComing(q) == q # <<>> /\ q[Len(q)].op = "halt"
Requested(q) == q # <<>> /\ q[1].op # "halt"
Resuming(q) == q # <<>> /\ q[1].op \in ResumeOps
HaltTold(q) == \E i \in 1 .. Len(q) : q[i].op = "halt" /\ q[i].status

-----------------------------------------------------------------------------
(* The program in Debug RAM.                                               *)

(* An instruction that leaves the state of the program under debug as it   *)
(* is, in the hart and in the saved s1; it may set dcsr.halt.              *)
Calm(i) ==
    \/ Name(i) \in {"csrsi", "fence_i", "xlen_probe", "ld", "sd"}
    \/ Name(i) = "csrr" /\ A(i) = "s0"
    \/ Name(i) = "csrw" /\ B(i) \in {"sptbr", "tselect", "tdata1", "tdata2", "bad"}
    \/ Name(i) = "load" /\ A(i) \in {"s0", "s1"}
    \/ Name(i) \in {"store", "fsd"} /\ B(i) \in {"d0", "d1"}
    \/ Name(i) = "addi" /\ A(i) = "s0"
AllCalm(p) == Len(p) \in Nat /\ \A i \in 1 .. Len(p) : Calm(p[i])

DpcPrograms == {<<dr_load("s0", "d0"), csrw("s0", "dpc")>>,
                <<dr_load("s0", "d0"), csrw("s0", "dpc"), fence_i>>}
FReadProgram == <<dr_load("s0", "d1"), csrw("s0", "mstatus"), fsd("f", "d0")>>
FsValue(v) == DOMAIN v = MStatusFields /\ v.fs
dcsr_program == <<dr_load("s0", "d0"), csrw("s0", "dcsr")>>
mstatus_program == <<dr_load("s0", "d0"), csrw("s0", "mstatus")>>
release(s) == s.intr /\ s.ram.prog = dcsr_program

HaltProgram(k) ==
    CASE k = 1 -> <<xlen_probe>>
      [] k = 2 -> dpc_program
      [] k = 3 -> <<csrr("s0", "mstatus"), dr_store("s0", "d0")>>
      [] OTHER -> <<csrr("s0", "dcsr"), dr_store("s0", "d0")>>
ReadProgram(k) ==
    CASE k = 1 -> <<dr_store("x", "d0"), dr_store("x", "d1")>>
      [] k = 2 -> <<dr_store("x", "d0"), csrr("s0", "dscratch"), dr_store("s0", "d1")>>
      [] OTHER -> <<dr_load("s1", "last"), dr_store("s1", "d0"), dr_store("x", "d1")>>
WriteProgram(r) ==
    CASE r = "s0" -> <<dr_load("s0", "d0"), csrw("s0", "dscratch")>>
      [] r = "s1" -> <<dr_load("s0", "d0"), dr_store("s0", "last")>>
      [] r = "x" -> <<dr_load("s0", "d0"), addi("x", "s0", 0)>>
      [] OTHER -> <<dr_load("s0", "d1"), csrw("s0", "mstatus"), fld("f", "d0")>>

Halted(h) == h.halt /\ h.mode \in {"wait", "check", "ram"}

(* The program is the one the operation at the head has posted, or the     *)
(* last one of an operation that is done.                                  *)
PostedBy(s, o) ==
    CASE o.op = "halt" -> o.step \in 1 .. 4 /\ s.ram.prog = HaltProgram(o.step)
      [] o.op = "gread" -> o.step \in 1 .. 3 /\ s.ram.prog = ReadProgram(o.step)
      [] o.op = "rwrite" /\ o.reg \in {"s0", "s1", "x", "f"} ->
           /\ o.step = 1 /\ s.ram.prog = WriteProgram(o.reg)
           /\ s.intr => s.ram.d0 = o.val
           /\ o.reg = "f" /\ s.intr => FsValue(s.ram.d1)
      [] o.op = "rread" /\ o.reg = "f" ->
           /\ s.ram.prog = FReadProgram
           /\ s.intr => FsValue(s.ram.d1)
      [] o.op = "continue" ->
           /\ o.step \in 1 .. 2
           /\ o.step = 1 => s.ram.prog \in DpcPrograms
           /\ o.step = 2 => /\ s.ram.prog = mstatus_program
                            /\ s.intr => DOMAIN s.ram.d0 = MStatusFields
      [] OTHER -> AllCalm(s.ram.prog)

Posted(s, h) ==
    IF s.queue # <<>> /\ s.queue[1].step > 0 THEN PostedBy(s, s.queue[1])
    ELSE s.intr => Halted(h) /\ (release(s) \/ AllCalm(s.ram.prog))

(* What the operations read back.                                          *)
FetchedBy(s, h, w, o) ==
    /\ o.op = "halt" /\ (o.step > 2 \/ (o.step = 2 /\ ~s.intr)) => Halted(h)
    /\ o.op = "halt" /\ ~s.intr =>
         /\ o.step = 2 => s.ram.d0 = h.dpc
         /\ o.step = 3 => s.ram.d0 = h.mstatus
         /\ o.step = 4 => s.ram.d0 = get_csr(h, "dcsr")
    /\ o.op = "gread" =>
         /\ o.step \in 1 .. 3 => IsSeq(o.got) /\ Len(o.got) = 2 * (o.step - 1)
         /\ o.step = 1 /\ ~s.intr => s.ram.d0 = w.x
         /\ o.step = 2 => o.got[1] = w.x
         /\ o.step = 2 /\ ~s.intr => s.ram.d1 = w.s0
         /\ o.step = 3 => o.got[1] = w.x /\ o.got[4] = w.s0
         /\ o.step = 3 /\ ~s.intr => s.ram.d0 = w.s1

Fetched(s, h, w) == s.queue # <<>> => FetchedBy(s, h, w, s.queue[1])

(* An address is translated only after its page tables were collected.     *)
Known(s) == s.queue # <<>> /\ s.queue[1].op \in {"mread", "mwrite"}
              => ~Uncollected(s, s.queue[1].addr)

(* Requests are carried out while the hart waits in Debug Mode.            *)
Held(s, h) == Requested(s.queue) => Halted(h) /\ ~s.haltnot /\ ~release(s)

(* The registers of the program under debug, wherever they are kept.       *)
Kept(s, h, w) ==
    /\ h.mode # "run" => h.x = w.x /\ h.f = w.f
    /\ h.mode = "entry" => h.s0 = w.s0 /\ h.s1 = w.s1
    /\ h.mode \in {"wait", "check", "ram"} => h.dscratch = w.s0
    /\ h.mode \in {"wait", "check"} => h.s1 = w.s1
    /\ h.mode = "ram" => s.ram.last = w.s1

-----------------------------------------------------------------------------
(* The connection.                                                         *)

Flight(s, g) == g.replies \o s.send
IsAck(r) == r[1] \in {"+", "-"}

(* A packet is on its way to the server.                                   *)
Packet(s) == s.recv # <<>> /\ s.recv[1].k # "ctrl_c"

(* The server has seen the request to resume ...                           *)
Consumed(s, g) == g.pending \in {"c", "s"} /\ ~Packet(s)
(* ... and has answered it with a stop reply.                              *)
Stopped(s, g) ==
    \E i \in 1 .. Len(Flight(s, g)) :
        /\ Flight(s, g)[i][1] \in StopReplies
        /\ g.acked \/ \E j \in 1 .. i - 1 : Flight(s, g)[j][1] = "+"

(* The hart is halted, or will be before the next request is looked at.    *)
Settled(s, h) ==
    \/ HaltComing(s.queue)
    \/ /\ ~release(s)
       /\ ~Resuming(s.queue)
       /\ s.queue = <<>> => Halted(h)

Wire(s, g) ==
    /\ IsSeq(s.recv) /\ Len(s.recv) <= 1
    /\ IsSeq(s.send) /\ IsSeq(g.replies)
    /\ ~s.client => s.recv = <<>> /\ s.send = <<>>
    /\ ~g.link => g.pending = "none"
    /\ s.recv # <<>> /\ ~Packet(s) => g.pending = "none" \/ g.stop
    /\ Packet(s) => /\ s.recv[1] \in Packets
                    /\ g.link /\ g.pending = s.recv[1].k /\ g.pending # "none" /\ ~g.acked

(* Between two calls of handle() what waits to be sent are short answers.  *)
Quiet(s) == \A i \in 1 .. Len(s.send) : s.send[i][1] \notin StopReplies \cup {"regs"}

Acks(s, g) ==
    g.link =>
      \A i \in 1 .. Len(Flight(s, g)) : IsAck(Flight(s, g)[i]) =>
         /\ ~g.acked /\ g.pending # "none" /\ ~Packet(s)
         /\ Flight(s, g)[i][1] = "-" => g.pending = "badsum"
         /\ \A j \in 1 .. Len(Flight(s, g)) : IsAck(Flight(s, g)[j]) => i = j

Attended(s, h, g) ==
    s.client /\ g.link /\ (Consumed(s, g) => Stopped(s, g)) => Settled(s, h)

(* The server knows the software breakpoints gdb believes to be inserted.  *)
Inserted(s, g) ==
    /\ \A a : <<"sw", a>> \in g.bps =>
         \/ a \in DOMAIN s.software_breakpoints
         \/ Packet(s) /\ s.recv[1].k = "Z" /\ s.recv[1].type = "sw" /\ s.recv[1].addr = a
    /\ Packet(s) /\ s.recv[1].k = "z" /\ s.recv[1].type = "sw" =>
         /\ s.recv[1].addr \in DOMAIN s.software_breakpoints
         /\ <<"sw", s.recv[1].addr>> \notin g.bps

Causes == {NoCause, "debugint", "hwbp", "step", "halt", "swbp"}

Modes(s, h) ==
    /\ h.mode \in {"run", "entry", "wait", "ram", "check"}
    /\ (h.mode = "run") <=> (h.cause = NoCause)
    /\ h.cause \in Causes
    /\ h.mode = "ram" => s.intr
    /\ h.mode = "wait" => h.halt
    /\ h.mode = "entry" /\ h.cause = "debugint" => s.intr
    /\ s.gs.xlen \in {0, XLEN} /\ s.ram.w0 \in {0, XLEN}
    /\ DOMAIN s.gs.mstatus = MStatusFields /\ DOMAIN h.mstatus = MStatusFields
    /\ ~s.dead

Core(s, h, g, w) ==
    /\ SrvShape(s) /\ HartShape(h) /\ GdbShape(g) /\ WantShape(w)
    /\ Modes(s, h)
    /\ Chain(s.queue)
    /\ Posted(s, h) /\ Fetched(s, h, w)
    /\ Known(s)
    /\ Held(s, h)
    /\ Kept(s, h, w)
    /\ Wire(s, g) /\ Acks(s, g)
    /\ Attended(s, h, g)
    /\ Inserted(s, g)

Inv(s, h, g, w) == Core(s, h, g, w) /\ Quiet(s)

Invariant == Inv(srv, hart, gdb, want)

-----------------------------------------------------------------------------
(* Where the pc, mstatus and prv of the program under debug are: in the     *)
(* hart's CSRs, or in the server, which gives them back before it resumes.  *)
HartHas(h, w) == h.dpc = w.pc /\ h.mstatus = w.mstatus /\ h.dprv = w.prv
SrvHas(s, w) == s.gs.dpc = w.pc /\ s.gs.mstatus = w.mstatus /\ s.gs.dcsr.prv = w.prv

(* A program is in Debug RAM whose operation is done.                       *)
Left(s) == s.intr /\ (s.queue = <<>> \/ s.queue[1].step = 0)

ServerTrue(s, g, w) ==
    /\ Requested(s.queue) \/ Left(s) => SrvHas(s, w)
    /\ s.client /\ g.link /\ (Consumed(s, g) => Stopped(s, g)) /\ s.queue = <<>>
         => SrvHas(s, w)

Somewhere(s, h, w) ==
    h.mode # "run" => HartHas(h, w) \/ (Halted(h) /\ SrvHas(s, w))

Releasing(s, h, w) ==
    release(s) => /\ h.dpc = w.pc /\ h.mstatus = w.mstatus
                  /\ DOMAIN s.ram.d0 = DcsrFields /\ s.ram.d0.prv = w.prv /\ ~s.ram.d0.halt

(* From the request to resume on, and whenever a stop is to be reported,    *)
(* nothing is queued but halts and the rest of the request; what the hart   *)
(* has is then true unless the server is about to write it.                 *)
Running(s, h, g) ==
    \/ s.client /\ g.link /\ Consumed(s, g)
    \/ s.recv # <<>> /\ ~Packet(s)
    \/ HaltTold(s.queue) \/ s.haltnot \/ h.mode \in {"run", "entry"}
RunPhase(s, h, w) ==
    /\ s.queue # <<>> => s.queue[1].op \in ResumeOps \cup {"halt"}
    /\ \/ h.mode # "run" => HartHas(h, w)
       \/ release(s)
       \/ Resuming(s.queue)

(* What the steps of a halt have read and those of a resume have written    *)
HeadControl(s, h, w, o) ==
    /\ o.op = "halt" /\ o.step > 2 => s.gs.dpc = w.pc
    /\ o.op = "halt" /\ o.step > 3 => s.gs.mstatus = w.mstatus
    /\ o.op = "continue" /\ o.step = 1 => IF s.intr THEN s.ram.d0 = w.pc
                                          ELSE h.dpc = w.pc
    /\ o.op = "continue" /\ o.step = 2 =>
         /\ h.dpc = w.pc
         /\ IF s.intr THEN s.ram.d0 = w.mstatus ELSE h.mstatus = w.mstatus
    /\ o.op = "rwrite" => o.step \in {0, 1}

Stepping(h) ==
    /\ h.single_step \in {"none", "stepping"}
    /\ h.mode = "run" /\ h.single_step = "stepping" => ~h.itlb

Control(s, h, g, w) ==
    /\ DOMAIN s.gs.dcsr = DcsrFields
    /\ ~s.client => g.pending = "none"
    /\ Stepping(h)
    /\ ServerTrue(s, g, w)
    /\ Somewhere(s, h, w)
    /\ Releasing(s, h, w)
    /\ Running(s, h, g) => RunPhase(s, h, w)
    /\ s.queue # <<>> => HeadControl(s, h, w, s.queue[1])
Control0 == Control(srv, hart, gdb, want)

-----------------------------------------------------------------------------
(* The execution of a program.                                             *)

MShape(m) == /\ DOMAIN m = {"h", "ram", "mem", "ok"}
             /\ HartShape(m.h) /\ DOMAIN m.ram = RamFields

(* The part of the hart no program for reading touches.                    *)
SameHart(h, k) ==
    /\ k.mode = h.mode /\ k.cause = h.cause /\ k.x = h.x /\ k.f = h.f
    /\ k.dscratch = h.dscratch /\ k.dpc = h.dpc /\ k.mstatus = h.mstatus
    /\ k.dprv = h.dprv /\ k.single_step = h.single_step

Undisturbed(m, n) ==
    /\ MShape(n) /\ SameHart(m.h, n.h)
    /\ m.h.halt => n.h.halt
    /\ n.ram.prog = m.ram.prog /\ n.ram.last = m.ram.last
    /\ n.ram.w0 \in {m.ram.w0, XLEN}

(* n is m with one register, one slot of Debug RAM or the hart replaced.    *)
RegSet(m, r, v, n) ==
    /\ MShape(n) /\ n.ram = m.ram /\ (m.ok => n.ok)
    /\ n.h[r] = v /\ \A f \in HartFields \ {r} : n.h[f] = m.h[f]
SlotSet(m, r, v, n) ==
    /\ MShape(n) /\ n.h = m.h /\ (m.ok => n.ok)
    /\ n.ram[r] = v /\ \A f \in RamFields \ {r} : n.ram[f] = m.ram[f]
CsrSet(m, k, n) ==
    MShape(n) /\ n.h = k /\ n.ram = m.ram /\ (m.ok => n.ok)

LEMMA SetRegFields ==
  ASSUME NEW m, MShape(m), NEW r \in {"s0", "s1", "x", "f", "halt"}, NEW v
  PROVE  RegSet(m, r, v, SetReg(m, r, v))
  BY DEF RegSet, SetReg, MShape, HartShape, HartFields

LEMMA SetSlotFields ==
  ASSUME NEW m, MShape(m), NEW r \in {"d0", "d1", "last", "w0"}, NEW v
  PROVE  SlotSet(m, r, v, SetSlot(m, r, v))
  BY DEF SlotSet, SetSlot, MShape, HartShape, RamFields

LEMMA SetCsrFields ==
  ASSUME NEW m, MShape(m), NEW c, NEW v, HartShape(set_csr(m.h, c, v))
  PROVE  CsrSet(m, set_csr(m.h, c, v), SetCsr(m, c, v))
  BY DEF CsrSet, SetCsr, MShape

LEMMA CalmStep ==
  ASSUME NEW m, MShape(m), NEW i, Calm(i)
  PROVE  Undisturbed(m, Execute(m, i))
<1>0. Undisturbed(m, m) /\ Undisturbed(m, SetFault(m))
  BY DEF Undisturbed, SameHart, SetFault, MShape
<1>1. ASSUME NEW r \in {"s0", "s1", "halt"}, NEW v, r = "halt" => v = TRUE
      PROVE  Undisturbed(m, SetReg(m, r, v))
  <2> DEFINE k == SetReg(m, r, v)
  <2>0. RegSet(m, r, v, k)
    BY <1>1, SetRegFields
  <2> HIDE DEF k
  <2>1. /\ MShape(k) /\ k.ram = m.ram /\ k.h[r] = v
        /\ \A f \in HartFields \ {r} : k.h[f] = m.h[f]
    BY <2>0 DEF RegSet
  <2>2. SameHart(m.h, k.h)
    BY <1>1, <2>1 DEF HartFields, SameHart
  <2>3. m.h.halt => k.h.halt
    BY <1>1, <2>1 DEF HartFields
  <2> QED BY <2>1, <2>2, <2>3 DEF Undisturbed, k
<1>2. ASSUME NEW r \in {"d0", "d1", "w0"}, NEW v, r = "w0" => v = XLEN
      PROVE  Undisturbed(m, SetSlot(m, r, v))
  <2> DEFINE k == SetSlot(m, r, v)
  <2>0. SlotSet(m, r, v, k)
    BY <1>2, SetSlotFields
  <2> HIDE DEF k
  <2>1. /\ MShape(k) /\ k.h = m.h /\ k.ram[r] = v
        /\ \A f \in RamFields \ {r} : k.ram[f] = m.ram[f]
    BY <2>0 DEF SlotSet
  <2>2. k.ram.prog = m.ram.prog /\ k.ram.last = m.ram.last /\ k.ram.w0 \in {m.ram.w0, XLEN}
    BY <1>2, <2>1 DEF RamFields
  <2> QED BY <2>1, <2>2 DEF Undisturbed, SameHart, k
<1>3. ASSUME NEW c \in {"sptbr", "tselect", "tdata1", "tdata2"}, NEW v
      PROVE  Undisturbed(m, SetCsr(m, c, v))
  <2> DEFINE k == set_csr(m.h, c, v)
             n == SetCsr(m, c, v)
  <2>1. HartShape(k) /\ SameHart(m.h, k) /\ k.halt = m.h.halt
    BY <1>3 DEF set_csr, MShape, HartShape, HartFields, SameHart
  <2>2. CsrSet(m, k, n)
    BY <2>1, SetCsrFields
  <2> HIDE DEF k
  <2> QED BY <2>1, <2>2 DEF Undisturbed, CsrSet
<1>4. Undisturbed(m, SetMem(m, RegValue(m, "s1")))
  BY DEF Undisturbed, SameHart, SetMem, MShape
<1>5. CASE ~m.ok
  BY <1>0, <1>5 DEF Execute
<1>6. CASE m.ok /\ Faults(m, i)
  BY <1>0, <1>6 DEF Execute
<1>7. CASE m.ok /\ ~Faults(m, i)
  <2>0. Execute(m, i) = Effect(m, i)
    BY <1>7 DEF Execute
  <2> SUFFICES Undisturbed(m, Effect(m, i))
    BY <2>0
  <2>1. CASE Name(i) \in {"csrsi", "fence_i", "xlen_probe"}
    BY <1>0, <1>1, <1>2, <2>1 DEF Effect
  <2>2. CASE Name(i) \in {"ld", "sd"}
    BY <1>1, <1>4, <2>2 DEF Effect
  <2>3. CASE Name(i) = "csrr" /\ A(i) = "s0"
    BY <1>1, <2>3 DEF Effect
  <2>4. CASE Name(i) = "csrw" /\ B(i) \in {"sptbr", "tselect", "tdata1", "tdata2", "bad"}
    <3>1. B(i) # "bad"
      BY <1>7, <2>4 DEF Faults
    <3> QED BY <1>3, <2>4, <3>1 DEF Effect
  <2>5. CASE Name(i) = "load" /\ A(i) \in {"s0", "s1"}
    BY <1>1, <2>5 DEF Effect
  <2>6. CASE Name(i) \in {"store", "fsd"} /\ B(i) \in {"d0", "d1"}
    BY <1>2, <2>6 DEF Effect
  <2>7. CASE Name(i) = "addi" /\ A(i) = "s0"
    BY <1>1, <2>7 DEF Effect
  <2> QED BY <2>1, <2>2, <2>3, <2>4, <2>5, <2>6, <2>7 DEF Calm
<1> QED BY <1>5, <1>6, <1>7

LEMMA UndisturbedTrans ==
  ASSUME NEW a, NEW b, NEW c, Undisturbed(a, b), Undisturbed(b, c)
  PROVE  Undisturbed(a, c)
  BY DEF Undisturbed, SameHart

LEMMA CalmRun ==
  ASSUME NEW m, MShape(m), NEW p, AllCalm(p)
  PROVE  Undisturbed(m, RunProgram(m, p))
<1> DEFINE at(n, i) == IF i <= Len(p) THEN Execute(n, p[i]) ELSE n
<1>1. ASSUME NEW n, MShape(n), NEW i \in 1 .. 4
      PROVE  Undisturbed(n, at(n, i))
  <2>1. CASE i <= Len(p)
    <3>1. Calm(p[i])
      BY <2>1 DEF AllCalm
    <3> QED BY <1>1, <2>1, <3>1, CalmStep
  <2>2. CASE ~(i <= Len(p))
    BY <1>1, <2>2 DEF Undisturbed, SameHart
  <2> QED BY <2>1, <2>2
<1> DEFINE a == at(m, 1)  b == at(a, 2)  c == at(b, 3)  d == at(c, 4)
<1>2. RunProgram(m, p) = d
  BY DEF RunProgram
<1> HIDE DEF at
<1>3. Undisturbed(m, a)
  BY <1>1
<1>4. Undisturbed(a, b)
  BY <1>1, <1>3 DEF Undisturbed
<1>5. Undisturbed(b, c)
  BY <1>1, <1>4 DEF Undisturbed
<1>6. Undisturbed(c, d)
  BY <1>1, <1>5 DEF Undisturbed
<1> HIDE DEF a, b, c, d
<1> QED BY <1>2, <1>3, <1>4, <1>5, <1>6, UndisturbedTrans

LEMMA RunShort ==
  /\ \A m, a : RunProgram(m, <<a>>) = Execute(m, a)
  /\ \A m, a, b : RunProgram(m, <<a, b>>) = Execute(Execute(m, a), b)
  /\ \A m, a, b, c : RunProgram(m, <<a, b, c>>) = Execute(Execute(Execute(m, a), b), c)
<1>1. ASSUME NEW m, NEW a PROVE RunProgram(m, <<a>>) = Execute(m, a)
  BY DEF RunProgram
<1>2. ASSUME NEW m, NEW a, NEW b PROVE RunProgram(m, <<a, b>>) = Execute(Execute(m, a), b)
  BY DEF RunProgram
<1>3. ASSUME NEW m, NEW a, NEW b, NEW c
      PROVE  RunProgram(m, <<a, b, c>>) = Execute(Execute(Execute(m, a), b), c)
  BY DEF RunProgram
<1> QED BY <1>1, <1>2, <1>3

LEMMA ExecLoad ==
  ASSUME NEW m, m.ok, NEW r, NEW slot
  PROVE  Execute(m, dr_load(r, slot)) = SetReg(m, r, m.ram[slot])
<1> DEFINE i == dr_load(r, slot)
<1>1. Name(i) = "load" /\ A(i) = r /\ B(i) = slot
  BY DEF dr_load, Name, A, B
<1> HIDE DEF i
<1>2. Execute(m, i) = Effect(m, i)
  BY <1>1 DEF Execute, Faults
<1>3. Effect(m, i) = SetReg(m, r, SlotValue(m, slot))
  BY <1>1 DEF Effect
<1> QED BY <1>2, <1>3 DEF i, SlotValue

LEMMA ExecStore ==
  ASSUME NEW m, m.ok, NEW r \in {"s0", "s1", "x"}, NEW slot
  PROVE  Execute(m, dr_store(r, slot)) = SetSlot(m, slot, m.h[r])
<1> DEFINE i == dr_store(r, slot)
<1>1. Name(i) = "store" /\ A(i) = r /\ B(i) = slot
  BY DEF dr_store, Name, A, B
<1> HIDE DEF i
<1>2. Execute(m, i) = Effect(m, i)
  BY <1>1 DEF Execute, Faults
<1>3. Effect(m, i) = SetSlot(m, slot, RegValue(m, r))
  BY <1>1 DEF Effect
<1>4. RegValue(m, r) = m.h[r]
  BY DEF RegValue
<1> QED BY <1>2, <1>3, <1>4 DEF i

LEMMA ExecCsrr ==
  ASSUME NEW m, m.ok, NEW csr, csr # "bad"
  PROVE  Execute(m, csrr("s0", csr)) = SetReg(m, "s0", get_csr(m.h, csr))
<1> DEFINE i == csrr("s0", csr)
<1>1. Name(i) = "csrr" /\ A(i) = "s0" /\ B(i) = csr
  BY DEF csrr, Name, A, B
<1> HIDE DEF i
<1>2. Execute(m, i) = Effect(m, i)
  BY <1>1 DEF Execute, Faults
<1>3. Effect(m, i) = SetReg(m, "s0", get_csr(m.h, csr))
  BY <1>1 DEF Effect
<1> QED BY <1>2, <1>3 DEF i

LEMMA ExecCsrw ==
  ASSUME NEW m, m.ok, NEW csr, csr # "bad"
  PROVE  Execute(m, csrw("s0", csr)) = SetCsr(m, csr, m.h.s0)
<1> DEFINE i == csrw("s0", csr)
<1>1. Name(i) = "csrw" /\ A(i) = "s0" /\ B(i) = csr
  BY DEF csrw, Name, A, B
<1> HIDE DEF i
<1>2. Execute(m, i) = Effect(m, i)
  BY <1>1 DEF Execute, Faults
<1>3. Effect(m, i) = SetCsr(m, csr, RegValue(m, "s0"))
  BY <1>1 DEF Effect
<1>4. RegValue(m, "s0") = m.h.s0
  BY DEF RegValue
<1> QED BY <1>2, <1>3, <1>4 DEF i

LEMMA ExecFload ==
  ASSUME NEW m, m.ok, m.h.mstatus.fs, NEW slot
  PROVE  Execute(m, fld("f", slot)) = SetReg(m, "f", m.ram[slot])
<1> DEFINE i == fld("f", slot)
<1>1. Name(i) = "fld" /\ B(i) = slot
  BY DEF fld, Name, B
<1> HIDE DEF i
<1>2. Execute(m, i) = Effect(m, i)
  BY <1>1 DEF Execute, Faults
<1>3. Effect(m, i) = SetReg(m, "f", SlotValue(m, slot))
  BY <1>1 DEF Effect
<1> QED BY <1>2, <1>3 DEF i, SlotValue

LEMMA ExecAddi ==
  ASSUME NEW m, m.ok
  PROVE  Execute(m, addi("x", "s0", 0)) = SetReg(m, "x", m.h.s0 + 0)
<1> DEFINE i == addi("x", "s0", 0)
<1>1. Name(i) = "addi" /\ A(i) = "x" /\ B(i) = "s0" /\ Imm(i) = 0
  BY DEF addi, Name, A, B, Imm
<1> HIDE DEF i
<1>2. Execute(m, i) = Effect(m, i)
  BY <1>1 DEF Execute, Faults
<1>3. Effect(m, i) = SetReg(m, "x", RegValue(m, "s0") + 0)
  BY <1>1 DEF Effect
<1>4. RegValue(m, "s0") = m.h.s0
  BY DEF RegValue
<1> QED BY <1>2, <1>3, <1>4 DEF i

(* Everything but the fields in F is as it was.                            *)
Others(h, k, F) == \A f \in HartFields \ F : k[f] = h[f]

(* A value from Debug RAM has been written to a CSR.                        *)
Loaded(m, slot, c, k) ==
    /\ MShape(k) /\ k.ok /\ k.ram = m.ram
    /\ c # "dcsr" => k.h[c] = m.ram[slot] /\ Others(m.h, k.h, {"s0", c})
    /\ c = "dcsr" => /\ k.h.dprv = m.ram[slot].prv /\ k.h.halt = m.ram[slot].halt
                     /\ Others(m.h, k.h, {"s0", "dprv", "step", "ebreak", "halt"})

LEMMA LoadCsrw ==
  ASSUME NEW m, MShape(m), m.ok, NEW slot \in {"d0", "d1"},
         NEW c \in {"dpc", "mstatus", "dscratch", "dcsr"}, NEW k,
         k = Execute(Execute(m, dr_load("s0", slot)), csrw("s0", c))
  PROVE  Loaded(m, slot, c, k)
<1> DEFINE v == m.ram[slot]
           n == SetReg(m, "s0", v)
<1>1. Execute(m, dr_load("s0", slot)) = n
  BY ExecLoad
<1>2. RegSet(m, "s0", v, n)
  BY SetRegFields
<1> HIDE DEF v, n
<1>m. MShape(n) /\ n.ok /\ n.ram = m.ram /\ n.h.s0 = v /\ Others(m.h, n.h, {"s0"})
  BY <1>2 DEF RegSet, Others
<1>3. k = SetCsr(n, c, v)
  BY <1>1, <1>m, ExecCsrw
<1> DEFINE j == set_csr(n.h, c, v)
<1>4. /\ HartShape(j)
      /\ c # "dcsr" => j[c] = v /\ Others(n.h, j, {c})
      /\ c = "dcsr" => /\ j.dprv = v.prv /\ j.halt = v.halt
                       /\ Others(n.h, j, {"dprv", "step", "ebreak", "halt"})
  <2>1. HartShape(n.h)
    BY <1>m DEF MShape
  <2>2. CASE c \in {"dpc", "mstatus", "dscratch"}
    BY <2>1, <2>2 DEF set_csr, HartShape, HartFields, Others
  <2>3. CASE c = "dcsr"
    BY <2>1, <2>3 DEF set_csr, HartShape, HartFields, Others
  <2> QED BY <2>2, <2>3
<1>5. CsrSet(n, j, k)
  BY <1>m, <1>3, <1>4, SetCsrFields
<1> HIDE DEF j
<1>6. MShape(k) /\ k.h = j /\ k.ram = n.ram /\ k.ok
  BY <1>m, <1>5 DEF CsrSet
<1>7. c # "dcsr" => k.h[c] = v /\ Others(m.h, k.h, {"s0", c})
  BY <1>m, <1>4, <1>6 DEF Others
<1>8. c = "dcsr" => /\ k.h.dprv = v.prv /\ k.h.halt = v.halt
                    /\ Others(m.h, k.h, {"s0", "dprv", "step", "ebreak", "halt"})
  BY <1>m, <1>4, <1>6 DEF Others
<1> QED BY <1>m, <1>6, <1>7, <1>8 DEF v, Loaded

(* A CSR has been stored in Debug RAM.                                      *)
StoredCsr(m, c, slot, k) ==
    /\ MShape(k) /\ k.ok /\ Others(m.h, k.h, {"s0"})
    /\ k.ram[slot] = get_csr(m.h, c)
    /\ \A f \in RamFields \ {slot} : k.ram[f] = m.ram[f]

LEMMA CsrrStore ==
  ASSUME NEW m, MShape(m), m.ok, NEW c, c # "bad", NEW slot \in {"d0", "d1"}, NEW k,
         k = Execute(Execute(m, csrr("s0", c)), dr_store("s0", slot))
  PROVE  StoredCsr(m, c, slot, k)
<1> DEFINE v == get_csr(m.h, c)
           n == SetReg(m, "s0", v)
<1>1. Execute(m, csrr("s0", c)) = n
  BY ExecCsrr
<1>2. RegSet(m, "s0", v, n)
  BY SetRegFields
<1> HIDE DEF v, n
<1>m. MShape(n) /\ n.ok /\ n.ram = m.ram /\ n.h.s0 = v /\ Others(m.h, n.h, {"s0"})
  BY <1>2 DEF RegSet, Others
<1>3. k = SetSlot(n, slot, v)
  BY <1>1, <1>m, ExecStore
<1>4. SlotSet(n, slot, v, k)
  BY <1>m, <1>3, SetSlotFields
<1> QED BY <1>m, <1>4 DEF v, SlotSet, StoredCsr

-----------------------------------------------------------------------------
(* The queue.                                                              *)

LEMMA SeqIsSeq ==
  ASSUME NEW S, NEW q \in Seq(S)
  PROVE  IsSeq(q)
  BY DEF IsSeq

LEMMA IsSeqEmpty ==
  ASSUME NEW q, IsSeq(q)
  PROVE  Len(q) \in Nat /\ (q = <<>> <=> Len(q) = 0)
  BY DEF IsSeq

LEMMA IsSeqTail ==
  ASSUME NEW q, IsSeq(q), q # <<>>
  PROVE  /\ IsSeq(Tail(q)) /\ Len(q) \in Nat \ {0} /\ Len(Tail(q)) = Len(q) - 1
         /\ \A i \in 1 .. Len(q) - 1 : Tail(q)[i] = q[i + 1]
         /\ Head(q) = q[1]
<1> DEFINE S == {q[i] : i \in 1 .. Len(q)}
<1>1. q \in Seq(S)
  BY DEF IsSeq
<1> HIDE DEF S
<1>2. Tail(q) \in Seq(S)
  BY <1>1
<1>3. IsSeq(Tail(q))
  BY <1>2, SeqIsSeq
<1> QED BY <1>1, <1>3

LEMMA IsSeqAppend ==
  ASSUME NEW q, IsSeq(q), NEW o
  PROVE  /\ IsSeq(Append(q, o)) /\ Len(q) \in Nat /\ Len(Append(q, o)) = Len(q) + 1
         /\ \A i \in 1 .. Len(q) : Append(q, o)[i] = q[i]
         /\ Append(q, o)[Len(q) + 1] = o
         /\ Append(q, o) # <<>>
<1> DEFINE S == {q[i] : i \in 1 .. Len(q)} \cup {o}
<1>1. q \in Seq(S) /\ o \in S
  BY DEF IsSeq
<1> HIDE DEF S
<1>2. Append(q, o) \in Seq(S)
  BY <1>1
<1>3. IsSeq(Append(q, o))
  BY <1>2, SeqIsSeq
<1> QED BY <1>1, <1>3

LEMMA IsSeqHead ==
  ASSUME NEW q, IsSeq(q), q # <<>>, NEW o
  PROVE  /\ IsSeq(<<o>> \o Tail(q)) /\ Len(<<o>> \o Tail(q)) = Len(q) /\ Len(q) \in Nat \ {0}
         /\ (<<o>> \o Tail(q))[1] = o
         /\ \A i \in 2 .. Len(q) : (<<o>> \o Tail(q))[i] = q[i]
         /\ <<o>> \o Tail(q) # <<>>
<1> DEFINE S == {q[i] : i \in 1 .. Len(q)} \cup {o}
<1>1. q \in Seq(S) /\ o \in S
  BY DEF IsSeq
<1> HIDE DEF S
<1>2. Tail(q) \in Seq(S) /\ <<o>> \in Seq(S)
  BY <1>1
<1>3. <<o>> \o Tail(q) \in Seq(S)
  BY <1>2
<1>4. IsSeq(<<o>> \o Tail(q))
  BY <1>3, SeqIsSeq
<1> QED BY <1>1, <1>2, <1>4

LEMMA ChainTail ==
  ASSUME NEW q, Chain(q), q # <<>>, NEW r, r = Tail(q)
  PROVE  /\ Chain(r)
         /\ r # <<>> => /\ r[1].step = 0 /\ Follow(q[1], r[1])
                        /\ HaltComing(q) <=> HaltComing(r)
         /\ r = <<>> => q[1].op \notin {"rtselect", "rmstatus", "collect", "stselect"}
         /\ r = <<>> /\ HaltComing(q) => q[1].op = "halt"
<1>0. IsSeq(q)
  BY DEF Chain
<1>1. /\ IsSeq(r) /\ Len(q) \in Nat \ {0} /\ Len(r) = Len(q) - 1
      /\ \A i \in 1 .. Len(q) - 1 : r[i] = q[i + 1]
  BY <1>0, IsSeqTail
<1>2. r = <<>> <=> Len(q) = 1
  <2>1. IsSeq(r)
    BY <1>1
  <2>2. r = <<>> <=> Len(r) = 0
    BY <2>1, IsSeqEmpty
  <2> QED BY <1>1, <2>2
<1>3. \A i \in 1 .. Len(r) : IsOp(r[i])
  BY <1>1 DEF Chain
<1>4. \A i \in 1 .. Len(r) - 1 : Follow(r[i], r[i + 1])
  BY <1>1 DEF Chain
<1>5. r # <<>> => r[Len(r)] = q[Len(q)]
  BY <1>1, <1>2
<1>6. Chain(r)
  BY <1>1, <1>3, <1>4, <1>5 DEF Chain
<1>7. r # <<>> => r[1] = q[2] /\ Follow(q[1], q[2])
  BY <1>1, <1>2 DEF Chain
<1>8. r # <<>> => (HaltComing(q) <=> HaltComing(r))
  BY <1>5 DEF HaltComing
<1>9. r = <<>> => q[Len(q)] = q[1]
  BY <1>2
<1>10. r # <<>> => r[1].step = 0
  BY <1>7 DEF Follow
<1>11. r = <<>> => q[1].op \notin {"rtselect", "rmstatus", "collect", "stselect"}
  BY <1>9 DEF Chain
<1>12. r = <<>> /\ HaltComing(q) => q[1].op = "halt"
  BY <1>9 DEF HaltComing
<1> QED BY <1>6, <1>7, <1>8, <1>10, <1>11, <1>12

NewHead(q, o, r) == r = <<o>> \o Tail(q)

LEMMA ChainHead ==
  ASSUME NEW q, Chain(q), q # <<>>, NEW o, IsOp(o), o.op = q[1].op,
         o.op \in {"collect", "mread"} => o.addr = q[1].addr, NEW r, NewHead(q, o, r)
  PROVE  /\ Chain(r) /\ r # <<>> /\ r[1] = o
         /\ HaltComing(q) <=> HaltComing(r)
<1>1. /\ IsSeq(r) /\ Len(r) = Len(q) /\ Len(q) \in Nat \ {0}
      /\ r[1] = o /\ \A i \in 2 .. Len(q) : r[i] = q[i]
      /\ r # <<>>
  <2>1. IsSeq(q)
    BY DEF Chain
  <2> QED BY <2>1, IsSeqHead DEF NewHead
<1>2. \A i \in 1 .. Len(r) : IsOp(r[i])
  BY <1>1 DEF Chain
<1>3. \A i \in 1 .. Len(r) - 1 : Follow(r[i], r[i + 1])
  <2> SUFFICES ASSUME NEW i \in 1 .. Len(r) - 1 PROVE Follow(r[i], r[i + 1])
    OBVIOUS
  <2>1. Follow(q[i], q[i + 1]) /\ r[i + 1] = q[i + 1]
    BY <1>1 DEF Chain
  <2>2. CASE i = 1
    BY <1>1, <2>1, <2>2 DEF Follow
  <2>3. CASE i # 1
    BY <1>1, <2>1, <2>3
  <2> QED BY <2>2, <2>3
<1>4. r[Len(r)].op = q[Len(q)].op
  BY <1>1
<1> QED BY <1>1, <1>2, <1>3, <1>4 DEF Chain, HaltComing

NewLast(q, o, r) == r = Append(q, o)

LEMMA ChainHalt ==
  ASSUME NEW q, Chain(q), NEW o, IsOp(o), o.op = "halt", o.step = 0,
         NEW r, NewLast(q, o, r)
  PROVE  /\ Chain(r) /\ r # <<>> /\ HaltComing(r)
         /\ q # <<>> => r[1] = q[1]
         /\ q = <<>> => r[1] = o
<1>1. /\ IsSeq(r) /\ Len(q) \in Nat /\ Len(r) = Len(q) + 1
      /\ \A i \in 1 .. Len(q) : r[i] = q[i]
      /\ r[Len(q) + 1] = o /\ r # <<>>
  <2>1. IsSeq(q) /\ r = Append(q, o)
    BY DEF Chain, NewLast
  <2> QED BY <2>1, IsSeqAppend
<1>2. \A i \in 1 .. Len(r) : IsOp(r[i])
  BY <1>1 DEF Chain
<1>3. q = <<>> <=> Len(q) = 0
  BY IsSeqEmpty DEF Chain
<1>4. \A i \in 1 .. Len(r) - 1 : Follow(r[i], r[i + 1])
  <2> SUFFICES ASSUME NEW i \in 1 .. Len(r) - 1 PROVE Follow(r[i], r[i + 1])
    OBVIOUS
  <2>1. CASE i = Len(q)
    <3>1. q[i].op \notin {"rtselect", "rmstatus", "collect", "stselect"} /\ r[i] = q[i] /\ r[i+1] = o
      BY <1>1, <1>3, <2>1 DEF Chain
    <3> QED BY <3>1 DEF Follow
  <2>2. CASE i # Len(q)
    <3>1. i \in 1 .. Len(q) - 1 /\ r[i] = q[i] /\ r[i + 1] = q[i + 1]
      BY <1>1, <2>2
    <3> QED BY <3>1 DEF Chain
  <2> QED BY <2>1, <2>2
<1>5. r[Len(r)] = o
  BY <1>1
<1>6. Chain(r)
  BY <1>1, <1>2, <1>4, <1>5 DEF Chain
<1>7. q # <<>> => r[1] = q[1]
  BY <1>1, <1>3
<1> QED BY <1>1, <1>3, <1>5, <1>6, <1>7 DEF HaltComing

-----------------------------------------------------------------------------
(* What the server's own steps change.                                     *)

Same(s, t, F) == \A f \in SrvFields \ F : t[f] = s[f]

Stepped(o) == [o EXCEPT !.step = @ + 1]

(* The operation at the head goes on as o, with a program for the hart.     *)
Advance(s, o, p, t) ==
    /\ SrvShape(t) /\ Same(s, t, {"ram", "intr", "queue"})
    /\ t.intr /\ t.queue = <<o>> \o Tail(s.queue)
    /\ t.ram.prog = p /\ t.ram.last = s.ram.last /\ t.ram.w0 = s.ram.w0

LEMMA AgainPost ==
  ASSUME NEW s, SrvShape(s), NEW p, NEW o, NEW t, t = Again(Post(s, p), o)
  PROVE  Advance(s, Stepped(o), p, t) /\ t.ram.d0 = s.ram.d0 /\ t.ram.d1 = s.ram.d1
  BY DEF Advance, Stepped, Same, Again, Post, SrvShape, SrvFields, RamFields

LEMMA AgainSlotPost ==
  ASSUME NEW s, SrvShape(s), NEW p, NEW o, NEW v, NEW slot \in {"d0", "d1"},
         NEW t, t = Again(Slot(Post(s, p), slot, v), o)
  PROVE  Advance(s, Stepped(o), p, t) /\ t.ram[slot] = v
  BY DEF Advance, Stepped, Same, Again, Post, Slot, SrvShape, SrvFields, RamFields

LEMMA AgainSlotIntr ==
  ASSUME NEW s, SrvShape(s), NEW o, NEW v,
         NEW t, t = Again(Slot([s EXCEPT !.intr = TRUE], "d0", v), o)
  PROVE  Advance(s, Stepped(o), s.ram.prog, t)
  BY DEF Advance, Stepped, Same, Again, Slot, SrvShape, SrvFields, RamFields

LEMMA AgainSlotsPost ==
  ASSUME NEW s, SrvShape(s), NEW p, NEW o, NEW v, NEW d,
         NEW t, t = Again(Slot(Slot(Post(s, p), "d1", d), "d0", v), o)
  PROVE  Advance(s, Stepped(o), p, t)
  BY DEF Advance, Stepped, Same, Again, Post, Slot, SrvShape, SrvFields, RamFields

LEMMA AgainSlotsIntr ==
  ASSUME NEW s, SrvShape(s), NEW o, NEW v, NEW d,
         NEW t, t = Again(Slot(Slot([s EXCEPT !.intr = TRUE], "d1", d), "d0", v), o)
  PROVE  Advance(s, Stepped(o), s.ram.prog, t)
  BY DEF Advance, Stepped, Same, Again, Slot, SrvShape, SrvFields, RamFields

(* The operation at the head is done, with or without a reply.              *)
Finish(s, t) ==
    /\ SrvShape(t) /\ Same(s, t, {"queue"}) /\ t.queue = Tail(s.queue)
FinishSend(s, r, t) ==
    /\ SrvShape(t) /\ Same(s, t, {"queue", "send"})
    /\ t.queue = Tail(s.queue) /\ t.send = Append(s.send, r)

LEMMA DoneFields ==
  ASSUME NEW s, SrvShape(s)
  PROVE  Finish(s, Done(s))
  BY DEF Finish, Same, Done, SrvShape, SrvFields

LEMMA DoneSend ==
  ASSUME NEW s, SrvShape(s), NEW r
  PROVE  FinishSend(s, <<r>>, Done(send_packet(s, r)))
  BY DEF FinishSend, Same, Done, send_packet, SrvShape, SrvFields

LEMMA DoneSendRegisters ==
  ASSUME NEW s, SrvShape(s), NEW x, NEW a, NEW b
  PROVE  FinishSend(s, <<"regs", x, a, b>>, Done(send_registers(s, x, a, b)))
  BY DEF FinishSend, Same, Done, send_registers, SrvShape, SrvFields

-----------------------------------------------------------------------------
(* The connection, when the server has a reply to send and when it has not. *)

LEMMA ConnectionSame ==
  ASSUME NEW s, NEW t, NEW g, Wire(s, g), Acks(s, g), Inserted(s, g),
         t.recv = s.recv, t.send = s.send, t.client <=> s.client,
         DOMAIN t.software_breakpoints = DOMAIN s.software_breakpoints
  PROVE  /\ Wire(t, g) /\ Acks(t, g) /\ Inserted(t, g)
         /\ Stopped(t, g) <=> Stopped(s, g)
         /\ Consumed(t, g) <=> Consumed(s, g)
<1>1. Packet(t) <=> Packet(s)
  BY DEF Packet
<1>2. Flight(t, g) = Flight(s, g)
  BY DEF Flight
<1>3. Wire(t, g)
  BY <1>1 DEF Wire
<1>4. Acks(t, g)
  BY <1>1, <1>2 DEF Acks
<1>5. Inserted(t, g)
  BY <1>1 DEF Inserted
<1>6. Stopped(t, g) <=> Stopped(s, g)
  BY <1>2 DEF Stopped
<1>7. Consumed(t, g) <=> Consumed(s, g)
  BY <1>1 DEF Consumed
<1> QED BY <1>3, <1>4, <1>5, <1>6, <1>7

Joined(a, b, c) ==
    /\ IsSeq(c) /\ Len(a) \in Nat /\ Len(b) \in Nat /\ Len(c) = Len(a) + Len(b)
    /\ \A i \in 1 .. Len(a) : c[i] = a[i]
    /\ \A i \in 1 .. Len(b) : c[Len(a) + i] = b[i]

LEMMA IsSeqConcat ==
  ASSUME NEW a, NEW b, IsSeq(a), IsSeq(b)
  PROVE  Joined(a, b, a \o b)
<1> DEFINE c == a \o b
<1> DEFINE S == {a[i] : i \in 1 .. Len(a)} \cup {b[i] : i \in 1 .. Len(b)}
<1>1. a \in Seq(S) /\ b \in Seq(S)
  BY DEF IsSeq
<1> HIDE DEF S
<1>2. c \in Seq(S)
  BY <1>1
<1>3. IsSeq(c)
  BY <1>2, SeqIsSeq
<1> QED BY <1>1, <1>3 DEF Joined

(* f is e with r at its end.                                               *)
Extended(e, r, f) == /\ IsSeq(e) /\ IsSeq(f) /\ Len(e) \in Nat /\ Len(f) = Len(e) + 1
                     /\ \A i \in 1 .. Len(e) : f[i] = e[i]
                     /\ f[Len(e) + 1] = r

LEMMA FlightAppend ==
  ASSUME NEW s, NEW t, NEW g, IsSeq(s.send), IsSeq(g.replies),
         NEW r, t.send = Append(s.send, r)
  PROVE  IsSeq(t.send) /\ Extended(Flight(s, g), r, Flight(t, g))
<1> DEFINE a == g.replies  b == s.send  c == t.send  e == Flight(s, g)  f == Flight(t, g)
<1>1. IsSeq(a) /\ IsSeq(b) /\ c = Append(b, r) /\ e = a \o b /\ f = a \o c
  BY DEF Flight
<1> HIDE DEF a, b, c, e, f
<1>2. /\ IsSeq(c) /\ Len(b) \in Nat /\ Len(c) = Len(b) + 1
      /\ \A i \in 1 .. Len(b) : c[i] = b[i]
      /\ c[Len(b) + 1] = r
  BY <1>1, IsSeqAppend
<1>3. /\ IsSeq(e) /\ Len(a) \in Nat /\ Len(e) = Len(a) + Len(b)
      /\ \A i \in 1 .. Len(a) : e[i] = a[i]
      /\ \A i \in 1 .. Len(b) : e[Len(a) + i] = b[i]
  <2>1. Joined(a, b, e)
    BY <1>1, IsSeqConcat
  <2> QED BY <2>1 DEF Joined
<1>4. /\ IsSeq(f) /\ Len(f) = Len(a) + Len(c)
      /\ \A i \in 1 .. Len(a) : f[i] = a[i]
      /\ \A i \in 1 .. Len(c) : f[Len(a) + i] = c[i]
  <2>1. Joined(a, c, f)
    BY <1>1, <1>2, IsSeqConcat
  <2> QED BY <2>1 DEF Joined
<1>5. Len(e) \in Nat /\ Len(f) = Len(e) + 1
  BY <1>2, <1>3, <1>4
<1>6. ASSUME NEW i \in 1 .. Len(e) PROVE f[i] = e[i]
  <2>1. CASE i <= Len(a)
    BY <1>3, <1>4, <2>1, <1>5
  <2>2. CASE ~(i <= Len(a))
    <3> DEFINE k == i - Len(a)
    <3>1. k \in 1 .. Len(b) /\ k \in 1 .. Len(c) /\ i = Len(a) + k
      BY <1>2, <1>3, <1>5, <2>2
    <3> HIDE DEF k
    <3> QED BY <1>2, <1>3, <1>4, <3>1
  <2> QED BY <2>1, <2>2
<1>7. f[Len(e) + 1] = r
  <2>1. Len(c) \in 1 .. Len(c) /\ Len(e) + 1 = Len(a) + Len(c)
    BY <1>2, <1>3
  <2> QED BY <1>2, <1>4, <2>1
<1> QED BY <1>2, <1>3, <1>4, <1>5, <1>6, <1>7 DEF Extended, c, e, f

LEMMA ConnectionSend ==
  ASSUME NEW s, NEW t, NEW g, Wire(s, g), Acks(s, g), Inserted(s, g),
         t.recv = s.recv, NEW r, t.send = Append(s.send, r), ~IsAck(r),
         t.client <=> s.client, s.client,
         DOMAIN t.software_breakpoints = DOMAIN s.software_breakpoints
  PROVE  /\ Wire(t, g) /\ Acks(t, g) /\ Inserted(t, g)
         /\ Stopped(t, g) /\ r[1] \notin StopReplies => Stopped(s, g)
         /\ Consumed(t, g) <=> Consumed(s, g)
<1> DEFINE e == Flight(s, g)  f == Flight(t, g)
<1>1. Packet(t) <=> Packet(s)
  BY DEF Packet
<1>2. IsSeq(t.send) /\ Extended(e, r, f)
  BY FlightAppend DEF Wire
<1>3. Wire(t, g)
  BY <1>1, <1>2 DEF Wire
<1> HIDE DEF e, f
<1>4. ASSUME NEW i \in 1 .. Len(f), IsAck(f[i]) \/ (f[i][1] \in StopReplies /\ r[1] \notin StopReplies)
      PROVE  i \in 1 .. Len(e) /\ f[i] = e[i]
  BY <1>2, <1>4 DEF Extended
<1>5. Acks(t, g)
  <2> SUFFICES ASSUME g.link, NEW i \in 1 .. Len(f), IsAck(f[i])
               PROVE  /\ ~g.acked /\ g.pending # "none" /\ ~Packet(t)
                      /\ f[i][1] = "-" => g.pending = "badsum"
                      /\ \A j \in 1 .. Len(f) : IsAck(f[j]) => i = j
    BY DEF Acks, f
  <2>1. i \in 1 .. Len(e) /\ f[i] = e[i]
    BY <1>4
  <2>2. /\ ~g.acked /\ g.pending # "none" /\ ~Packet(s)
        /\ e[i][1] = "-" => g.pending = "badsum"
        /\ \A j \in 1 .. Len(e) : IsAck(e[j]) => i = j
    BY <2>1 DEF Acks, e
  <2>3. ASSUME NEW j \in 1 .. Len(f), IsAck(f[j]) PROVE i = j
    BY <1>4, <2>2, <2>3
  <2> QED BY <1>1, <2>1, <2>2, <2>3
<1>6. Inserted(t, g)
  BY <1>1 DEF Inserted
<1>7. Stopped(t, g) /\ r[1] \notin StopReplies => Stopped(s, g)
  <2> SUFFICES ASSUME Stopped(t, g), r[1] \notin StopReplies PROVE Stopped(s, g)
    OBVIOUS
  <2>1. PICK i \in 1 .. Len(f) : /\ f[i][1] \in StopReplies
                                 /\ g.acked \/ \E j \in 1 .. i - 1 : f[j][1] = "+"
    BY DEF Stopped, f
  <2>2. i \in 1 .. Len(e) /\ f[i] = e[i]
    BY <1>4, <2>1
  <2>3. g.acked \/ \E j \in 1 .. i - 1 : e[j][1] = "+"
    BY <1>2, <2>1, <2>2 DEF Extended
  <2> QED BY <2>1, <2>2, <2>3 DEF Stopped, e
<1>8. Consumed(t, g) <=> Consumed(s, g)
  BY <1>1 DEF Consumed
<1> QED BY <1>3, <1>5, <1>6, <1>7, <1>8

-----------------------------------------------------------------------------
(* A step of the operation at the head.                                    *)

(* What no step of an operation changes, and what it may change only so.   *)
Rest(s, t) ==
    /\ SrvShape(t) /\ t.recv = s.recv /\ (t.client <=> s.client)
    /\ (t.haltnot <=> s.haltnot) /\ ~t.dead
    /\ DOMAIN t.software_breakpoints = DOMAIN s.software_breakpoints
    /\ t.ram.w0 = s.ram.w0 /\ t.gs.xlen \in {0, XLEN}
    /\ DOMAIN t.gs.mstatus = MStatusFields

SameRegs(w, v) == /\ WantShape(v)
                  /\ v.x = w.x /\ v.f = w.f /\ v.s0 = w.s0 /\ v.s1 = w.s1

(* The hart waits while the server is at it.                               *)
LEMMA StepModes ==
  ASSUME NEW s, NEW h, NEW g, NEW w, Core(s, h, g, w), ~s.intr, NEW t, Rest(s, t),
         NEW v, SameRegs(w, v)
  PROVE  Modes(t, h) /\ Kept(t, h, v) /\ h.mode # "ram"
<1>1. Modes(s, h) /\ Kept(s, h, w)
  BY DEF Core
<1>2. h.mode # "ram" /\ (h.mode = "entry" => h.cause # "debugint")
  BY <1>1 DEF Modes
<1>3. Modes(t, h)
  BY <1>1, <1>2 DEF Modes, Rest
<1>4. Kept(t, h, v)
  BY <1>1, <1>2 DEF Kept, SameRegs
<1> QED BY <1>2, <1>3, <1>4

LEMMA Advanced ==
  ASSUME NEW s, NEW h, NEW g, NEW w, Core(s, h, g, w), ~s.intr, s.queue # <<>>,
         NEW t, Rest(s, t), NEW v, SameRegs(w, v), t.send = s.send,
         NEW o, t.queue = <<o>> \o Tail(s.queue), IsOp(o), o.op = s.queue[1].op,
         o.op \in {"collect", "mread", "mwrite"} => o.addr = s.queue[1].addr,
         o.op \in {"mread", "mwrite"} => t.gs = s.gs,
         t.ram.prog # dcsr_program, Posted(t, h), Fetched(t, h, v)
  PROVE  Core(t, h, g, v)
<1>0. Chain(s.queue) /\ Wire(s, g) /\ Acks(s, g) /\ Inserted(s, g)
  BY DEF Core
<1>1. Modes(t, h) /\ Kept(t, h, v)
  BY StepModes
<1>2. /\ Chain(t.queue) /\ t.queue # <<>> /\ t.queue[1] = o
      /\ HaltComing(s.queue) <=> HaltComing(t.queue)
  <2> DEFINE q == s.queue  r == t.queue
  <2>1. /\ Chain(q) /\ q # <<>> /\ IsOp(o) /\ o.op = q[1].op /\ NewHead(q, o, r)
        /\ o.op \in {"collect", "mread"} => o.addr = q[1].addr
    BY <1>0 DEF NewHead
  <2> HIDE DEF q, r
  <2>2. /\ Chain(r) /\ r # <<>> /\ r[1] = o
        /\ HaltComing(q) <=> HaltComing(r)
    BY <2>1, ChainHead
  <2> QED BY <2>2 DEF q, r
<1>3. /\ Wire(t, g) /\ Acks(t, g) /\ Inserted(t, g)
      /\ Stopped(t, g) <=> Stopped(s, g)
      /\ Consumed(t, g) <=> Consumed(s, g)
  BY <1>0, ConnectionSame DEF Rest
<1>4. Known(t)
  BY <1>2 DEF Core, Known, Uncollected, virtual_memory
<1>5. ~release(t)
  BY DEF release
<1>6. Held(t, h)
  BY <1>2, <1>5 DEF Core, Held, Requested, Rest
<1>7. Attended(t, h, g)
  <2> SUFFICES ASSUME t.client /\ g.link /\ (Consumed(t, g) => Stopped(t, g))
               PROVE  Settled(t, h)
    BY DEF Attended
  <2>1. Settled(s, h)
    BY <1>3 DEF Core, Attended, Rest
  <2> QED BY <1>2, <1>5, <2>1 DEF Settled, Resuming
<1>8. SrvShape(t) /\ HartShape(h) /\ GdbShape(g) /\ WantShape(v)
  BY DEF Core, Rest, SameRegs
<1> QED BY <1>1, <1>2, <1>3, <1>4, <1>6, <1>7, <1>8 DEF Core

(* Operations that leave something to be done by the operation behind.     *)
Preparing == {"rtselect", "rmstatus", "collect", "mread", "stselect"}

LEMMA FollowHalt ==
  ASSUME NEW a, NEW b, Follow(a, b)
  PROVE  /\ a.op \notin Preparing => b.op = "halt"
         /\ b.op \in {"mread", "mwrite"} => a.op \in {"collect", "mread"} /\ b.addr = a.addr
         /\ b.op \in ResumeOps => a.op \in {"rtselect", "rmstatus"}
         /\ b.step = 0
<1>1. CASE a.op \in {"collect", "mread"}
  BY <1>1 DEF Follow, Preparing, ResumeOps
<1>2. CASE a.op \in {"rtselect", "rmstatus", "stselect"}
  BY <1>2 DEF Follow, Preparing, ResumeOps
<1>3. CASE a.op \notin Preparing
  BY <1>3 DEF Follow, Preparing, ResumeOps
<1> QED BY <1>1, <1>2, <1>3 DEF Preparing

LEMMA Finished ==
  ASSUME NEW s, NEW h, NEW g, NEW w, Core(s, h, g, w), ~s.intr, s.queue # <<>>, s.client,
         NEW t, Rest(s, t), NEW v, SameRegs(w, v),
         NEW o, o = s.queue[1], t.queue = Tail(s.queue), 
         \/ t.send = s.send
         \/ \E r : /\ t.send = Append(s.send, r) /\ ~IsAck(r)
                   /\ r[1] \in StopReplies => o.op = "halt",
         o.op = "halt" => o.step = 4,
         t.intr => /\ o.op \notin Preparing \cup {"halt"}
                   /\ IF o.op = "continue" THEN release(t)
                                           ELSE AllCalm(t.ram.prog) /\ ~release(t),
         o.op = "collect" => ~Uncollected(t, o.addr),
         o.op = "mread" => t.gs = s.gs
  PROVE  Core(t, h, g, v)
<1> DEFINE q == t.queue
<1>0. Chain(s.queue) /\ Wire(s, g) /\ Acks(s, g) /\ Inserted(s, g)
  BY DEF Core
<1>1. Modes(t, h) /\ Kept(t, h, v)
  BY StepModes
<1>2. /\ Chain(q)
      /\ q # <<>> => /\ q[1].step = 0 /\ Follow(o, q[1])
                     /\ HaltComing(s.queue) <=> HaltComing(q)
      /\ q = <<>> => o.op \notin {"rtselect", "rmstatus", "collect", "stselect"}
      /\ q = <<>> /\ HaltComing(s.queue) => o.op = "halt"
  BY <1>0, ChainTail
<1>3. /\ Wire(t, g) /\ Acks(t, g) /\ Inserted(t, g)
      /\ Stopped(t, g) => Stopped(s, g) \/ o.op = "halt"
      /\ Consumed(t, g) <=> Consumed(s, g)
  <2>1. CASE t.send = s.send
    BY <1>0, <2>1, ConnectionSame DEF Rest
  <2>2. CASE \E r : /\ t.send = Append(s.send, r) /\ ~IsAck(r)
                    /\ r[1] \in StopReplies => o.op = "halt"
    <3>1. PICK r : /\ t.send = Append(s.send, r) /\ ~IsAck(r)
                   /\ r[1] \in StopReplies => o.op = "halt"
      BY <2>2
    <3> QED BY <1>0, <3>1, ConnectionSend DEF Rest
  <2> QED BY <2>1, <2>2
<1>4. Halted(h)
  <2>1. CASE o.op = "halt"
    BY <2>1 DEF Core, Fetched, FetchedBy
  <2>2. CASE o.op # "halt"
    BY <2>2 DEF Core, Held, Requested
  <2> QED BY <2>1, <2>2
<1>5. Posted(t, h)
  <2>1. ~(q # <<>> /\ q[1].step > 0)
    <3>1. q # <<>> => q[1].step = 0
      BY <1>2
    <3> HIDE DEF q
    <3> QED BY <3>1
  <2>2. t.intr => Halted(h) /\ (release(t) \/ AllCalm(t.ram.prog))
    BY <1>4
  <2> QED BY <2>1, <2>2 DEF Posted
<1>6. Fetched(t, h, v)
  BY <1>2 DEF Fetched, FetchedBy
<1>7. Known(t)
  <2> SUFFICES ASSUME q # <<>>, q[1].op \in {"mread", "mwrite"}
               PROVE  ~Uncollected(t, q[1].addr)
    BY DEF Known
  <2>1. o.op \in {"collect", "mread"} /\ q[1].addr = o.addr
    BY <1>2, FollowHalt
  <2>2. CASE o.op = "collect"
    BY <2>1, <2>2
  <2>3. CASE o.op = "mread"
    BY <2>1, <2>3 DEF Core, Known, Uncollected, virtual_memory
  <2> QED BY <2>1, <2>2, <2>3
<1>8. Held(t, h)
  <2> SUFFICES ASSUME q # <<>>, q[1].op # "halt"
               PROVE  Halted(h) /\ ~t.haltnot /\ ~release(t)
    BY DEF Held, Requested
  <2>1. o.op \in Preparing
    BY <1>2, FollowHalt
  <2>2. ~t.intr /\ o.op # "halt"
    BY <2>1 DEF Preparing
  <2> QED BY <1>4, <2>2 DEF release, Core, Held, Requested, Rest
<1>9. Attended(t, h, g)
  <2> SUFFICES ASSUME t.client /\ g.link /\ (Consumed(t, g) => Stopped(t, g)), ~HaltComing(q)
               PROVE  ~release(t) /\ ~Resuming(q) /\ (q = <<>> => Halted(h))
    BY DEF Attended, Settled
  <2>1. CASE o.op = "halt"
    <3>1. ~t.intr
      BY <2>1
    <3>2. q # <<>> => q[1].op = "halt"
      BY <1>2, <2>1, FollowHalt DEF Preparing
    <3> QED BY <1>4, <3>1, <3>2 DEF release, Resuming, ResumeOps
  <2>2. CASE o.op # "halt"
    <3>1. Settled(s, h)
      BY <1>3, <2>2 DEF Core, Attended, Rest
    <3>2. ~HaltComing(s.queue)
      BY <1>2, <2>2
    <3>3. o.op \notin ResumeOps
      BY <3>1, <3>2 DEF Settled, Resuming
    <3>4. ~Resuming(q)
      BY <1>2, <3>3, FollowHalt DEF Resuming, ResumeOps
    <3>5. ~release(t)
      <4>1. o.op # "continue"
        BY <3>3 DEF ResumeOps
      <4> QED BY <4>1 DEF release
    <3> QED BY <1>4, <3>4, <3>5
  <2> QED BY <2>1, <2>2
<1>10. SrvShape(t) /\ HartShape(h) /\ GdbShape(g) /\ WantShape(v)
  BY DEF Core, Rest, SameRegs
<1> QED BY <1>1, <1>2, <1>3, <1>5, <1>6, <1>7, <1>8, <1>9, <1>10 DEF Core

(* The server is about to perform a step of the operation at the head.     *)
Ready(s, h, g, w) == /\ Core(s, h, g, w)
                     /\ s.client /\ ~s.intr /\ s.queue # <<>>

(* What it tells the debugger is true.                                     *)
TrueReply(r, h, w) ==
    /\ r[1] \in StopReplies => h.halt /\ h.mode \in {"check", "wait"}
    /\ r[1] = "regs" => r = <<"regs", w.x, w.s0, w.s1>>

(* The operation goes on or is done, and the queue behind it is as it was.  *)
Kin(s, t) ==
    /\ t.recv = s.recv /\ (t.client <=> s.client) /\ (t.haltnot <=> s.haltnot)
    /\ \/ t.queue = Tail(s.queue)
       \/ \E p : t.queue = <<p>> \o Tail(s.queue) /\ p.op = s.queue[1].op /\ p.step # 0
    /\ t.intr => \/ t.ram.prog # dcsr_program
                 \/ s.queue[1].op = "continue" /\ t.queue = Tail(s.queue)

(* The invariant holds of t and what it has said is true.                  *)
Truthful(s, t, h, g, w, v) ==
    /\ Core(t, h, g, v) /\ t.client
    /\ \/ t.send = s.send
       \/ \E r : t.send = Append(s.send, r) /\ TrueReply(r, h, w)

(* The step is performed.                                                   *)
Performed(s, t, h, g, w, v) == Truthful(s, t, h, g, w, v) /\ Kin(s, t)

(* u is s with the server's own copies brought up to date.                  *)
Base(s, u) ==
    /\ SrvShape(u)
    /\ Same(s, u, {"gs", "ram", "software_breakpoints", "hardware_breakpoints"})
    /\ DOMAIN u.software_breakpoints = DOMAIN s.software_breakpoints
    /\ u.ram.w0 = s.ram.w0 /\ u.gs.xlen \in {0, XLEN}
    /\ DOMAIN u.gs.mstatus = MStatusFields

LEMMA BaseSelf ==
  ASSUME NEW s, NEW h, NEW g, NEW w, Core(s, h, g, w)
  PROVE  Base(s, s)
  BY DEF Core, Base, Same, Modes

LEMMA AdvanceCore ==
  ASSUME NEW s, NEW h, NEW g, NEW w, Ready(s, h, g, w), NEW u, Base(s, u),
         NEW o, NEW p, NEW t, Advance(u, o, p, t), NEW v, SameRegs(w, v),
         IsOp(o), o.op = s.queue[1].op, o.step > 0,
         o.op \in {"collect", "mread", "mwrite"} => o.addr = s.queue[1].addr,
         o.op \in {"mread", "mwrite"} => u.gs = s.gs,
         p # dcsr_program, PostedBy(t, o), FetchedBy(t, h, v, o)
  PROVE  Performed(s, t, h, g, w, v)
<1>0. Core(s, h, g, w) /\ s.client /\ ~s.intr /\ s.queue # <<>> /\ ~s.dead /\ IsSeq(s.queue)
  BY DEF Ready, Core, Modes, Chain
<1>1. Rest(s, t)
  BY <1>0 DEF Base, Advance, Same, SrvFields, Rest
<1>2. t.send = s.send /\ t.gs = u.gs /\ t.ram.prog = p
  BY DEF Base, Advance, Same, SrvFields
<1>3. t.queue = <<o>> \o Tail(s.queue)
  BY DEF Base, Advance, Same, SrvFields
<1>4. t.queue # <<>> /\ t.queue[1] = o
  BY <1>0, <1>3, IsSeqHead
<1>5. Posted(t, h) /\ Fetched(t, h, v)
  BY <1>4 DEF Posted, Fetched
<1>6. o.op \in {"mread", "mwrite"} => t.gs = s.gs
  BY <1>2
<1>7. Core(t, h, g, v)
  BY <1>0, <1>1, <1>2, <1>3, <1>5, <1>6, Advanced
<1>8. Kin(s, t)
  <2>1. o.step # 0
    BY DEF IsOp
  <2>2. t.queue = <<o>> \o Tail(s.queue) /\ o.op = s.queue[1].op /\ o.step # 0
    BY <1>3, <2>1
  <2>3. \E x : t.queue = <<x>> \o Tail(s.queue) /\ x.op = s.queue[1].op /\ x.step # 0
    BY <2>2, Zenon
  <2>4. t.intr => t.ram.prog # dcsr_program
    BY <1>2
  <2> QED BY <1>1, <2>3, <2>4 DEF Kin, Rest
<1> QED BY <1>0, <1>1, <1>2, <1>7, <1>8 DEF Performed, Truthful, Rest

LEMMA FinishCore ==
  ASSUME NEW s, NEW h, NEW g, NEW w, Ready(s, h, g, w), NEW u, Base(s, u),
         NEW v, SameRegs(w, v), NEW t,
         \/ Finish(u, t)
         \/ \E r : /\ FinishSend(u, r, t) /\ ~IsAck(r)
                   /\ r[1] \in StopReplies => s.queue[1].op = "halt"
                   /\ r[1] = "regs" => r = <<"regs", w.x, w.s0, w.s1>>,
         s.queue[1].op = "halt" => s.queue[1].step = 4,
         s.queue[1].op = "collect" => ~Uncollected(u, s.queue[1].addr),
         s.queue[1].op = "mread" => u.gs = s.gs
  PROVE  Performed(s, t, h, g, w, v)
<1> DEFINE o == s.queue[1]
<1>0. Core(s, h, g, w) /\ s.client /\ ~s.intr /\ s.queue # <<>> /\ ~s.dead
  BY DEF Ready, Core, Modes
<1>1. Rest(s, t) /\ t.queue = Tail(s.queue) /\ t.gs = u.gs /\ ~t.intr
  <2>1. CASE Finish(u, t)
    BY <1>0, <2>1 DEF Base, Finish, Same, SrvFields, Rest
  <2>2. CASE \E r : FinishSend(u, r, t)
    BY <1>0, <2>2 DEF Base, FinishSend, Same, SrvFields, Rest
  <2> QED BY <2>1, <2>2
<1>2. \/ t.send = s.send
      \/ \E r : /\ t.send = Append(s.send, r) /\ ~IsAck(r)
                /\ r[1] \in StopReplies => o.op = "halt"
                /\ r[1] = "regs" => r = <<"regs", w.x, w.s0, w.s1>>
  <2>1. CASE Finish(u, t)
    BY <2>1 DEF Base, Finish, Same, SrvFields
  <2>2. CASE \E r : /\ FinishSend(u, r, t) /\ ~IsAck(r)
                    /\ r[1] \in StopReplies => s.queue[1].op = "halt"
                    /\ r[1] = "regs" => r = <<"regs", w.x, w.s0, w.s1>>
    BY <2>2 DEF Base, FinishSend, Same, SrvFields
  <2> QED BY <2>1, <2>2
<1>3. o.op = "collect" => ~Uncollected(t, o.addr)
  BY <1>1 DEF Uncollected, virtual_memory
<1>4. o.op = "halt" => o.step = 4
  OBVIOUS
<1>5. o.op = "mread" => t.gs = s.gs
  BY <1>1
<1>6. o = s.queue[1]
  OBVIOUS
<1>7. o.op = "halt" => h.halt /\ h.mode \in {"check", "wait"}
  <2>1. o.op = "halt" => Halted(h)
    BY <1>0, <1>4 DEF Core, Fetched, FetchedBy
  <2>2. h.mode # "ram"
    BY <1>0 DEF Core, Modes
  <2> QED BY <2>1, <2>2 DEF Halted
<1> HIDE DEF o
<1>8. \/ t.send = s.send
      \/ \E r : t.send = Append(s.send, r) /\ TrueReply(r, h, w)
  BY <1>2, <1>7 DEF TrueReply
<1>9. \/ t.send = s.send
      \/ \E r : /\ t.send = Append(s.send, r) /\ ~IsAck(r)
                /\ r[1] \in StopReplies => o.op = "halt"
  BY <1>2
<1>10. Core(t, h, g, v)
  BY <1>0, <1>1, <1>3, <1>4, <1>5, <1>6, <1>9, Finished
<1>11. Kin(s, t)
  BY <1>1 DEF Kin, Rest
<1> QED BY <1>0, <1>1, <1>8, <1>10, <1>11 DEF Performed, Truthful, Rest

(* The next state of an operation.                                         *)
LEMMA NextOp ==
  ASSUME NEW o, IsOp(o), NEW p, p.op = o.op, DOMAIN p = DOMAIN o, p.step \in Nat,
         o.op = "rwrite" => p.val = o.val
  PROVE  IsOp(p)
<1>1. OpFields(p) = OpFields(o)
  BY DEF OpFields
<1> QED BY <1>1 DEF IsOp

LEMMA SteppedOp ==
  ASSUME NEW o, IsOp(o)
  PROVE  /\ IsOp(Stepped(o)) /\ Stepped(o).op = o.op /\ Stepped(o).step = o.step + 1
         /\ Stepped(o).step > 0 /\ DOMAIN Stepped(o) = DOMAIN o
         /\ \A f \in DOMAIN o : f # "step" => Stepped(o)[f] = o[f]
<1>1. {"op", "step"} \subseteq DOMAIN o /\ o.step \in Nat
  BY DEF IsOp, OpFields
<1>2. /\ Stepped(o).op = o.op /\ Stepped(o).step = o.step + 1
      /\ Stepped(o).step > 0 /\ DOMAIN Stepped(o) = DOMAIN o
      /\ \A f \in DOMAIN o : f # "step" => Stepped(o)[f] = o[f]
  BY <1>1 DEF Stepped
<1>3. o.op = "rwrite" => "val" \in DOMAIN o
  BY DEF IsOp, OpFields
<1>4. IsOp(Stepped(o))
  BY <1>1, <1>2, <1>3, NextOp
<1> QED BY <1>2, <1>4

LEMMA HeadOp ==
  ASSUME NEW s, NEW h, NEW g, NEW w, Ready(s, h, g, w)
  PROVE  /\ IsOp(s.queue[1]) /\ SrvShape(s) /\ Base(s, s) /\ Head(s.queue) = s.queue[1]
         /\ s.queue[1].step > 0 => PostedBy(s, s.queue[1])
         /\ FetchedBy(s, h, w, s.queue[1])
         /\ s.queue[1].op # "halt" => Halted(h)
<1>1. IsSeq(s.queue) /\ s.queue # <<>> /\ Chain(s.queue)
  BY DEF Ready, Core, Chain
<1>2. Head(s.queue) = s.queue[1] /\ 1 \in 1 .. Len(s.queue)
  BY <1>1, IsSeqTail
<1>3. IsOp(s.queue[1])
  BY <1>1, <1>2 DEF Chain
<1>4. s.queue[1].step > 0 => PostedBy(s, s.queue[1])
  BY <1>1 DEF Ready, Core, Posted
<1>5. FetchedBy(s, h, w, s.queue[1])
  BY <1>1 DEF Ready, Core, Fetched
<1>6. s.queue[1].op # "halt" => Halted(h)
  BY <1>1 DEF Ready, Core, Held, Requested
<1>7. SrvShape(s) /\ Base(s, s)
  BY BaseSelf DEF Ready, Core
<1> QED BY <1>2, <1>3, <1>4, <1>5, <1>6, <1>7

-----------------------------------------------------------------------------
(* The operations, one by one.                                             *)

(* An update of gs the invariant allows.                                    *)
LEMMA BaseGs ==
  ASSUME NEW s, NEW h, NEW g, NEW w, Core(s, h, g, w), NEW u, NEW G,
         u = [s EXCEPT !.gs = G], DOMAIN G = GsFields, G.xlen \in {0, XLEN},
         DOMAIN G.mstatus = MStatusFields
  PROVE  Base(s, u) /\ u.gs = G /\ u.ram = s.ram
  BY DEF Core, Base, Same, SrvShape, SrvFields

LEMMA NotDcsrProgram ==
  /\ \A k \in 1 .. 4 : HaltProgram(k) # dcsr_program
  /\ \A k \in 1 .. 3 : ReadProgram(k) # dcsr_program
  /\ \A r \in {"s0", "s1", "x", "f"} : WriteProgram(r) # dcsr_program
  /\ FReadProgram # dcsr_program /\ mstatus_program # dcsr_program
  /\ \A p \in DpcPrograms : p # dcsr_program
  BY DEF HaltProgram, ReadProgram, WriteProgram, FReadProgram, mstatus_program, DpcPrograms,
         dcsr_program, dpc_program, xlen_probe, csrsi, csrr, csrw, dr_store, dr_load,
         addi, fsd, fld, fence_i

LEMMA HaltStep ==
  ASSUME NEW s, NEW h, NEW g, NEW w, Ready(s, h, g, w), NEW v, SameRegs(w, v),
         NEW o, o = s.queue[1], o.op = "halt", NEW t, t = halt_op(s, o)
  PROVE  Performed(s, t, h, g, w, v)
<1>0. /\ IsOp(o) /\ SrvShape(s) /\ Base(s, s) /\ Core(s, h, g, w)
      /\ o.step > 0 => PostedBy(s, o)
      /\ FetchedBy(s, h, w, o) /\ ~s.intr
  BY HeadOp DEF Ready
<1>1. o.step \in Nat /\ DOMAIN o = {"op", "step", "status"}
  BY <1>0 DEF IsOp, OpFields
<1>2. o.step \in 0 .. 4
  BY <1>0, <1>1 DEF PostedBy
<1>3. /\ DOMAIN s.gs = GsFields /\ s.gs.xlen \in {0, XLEN} /\ s.ram.w0 \in {0, XLEN}
      /\ DOMAIN s.gs.mstatus = MStatusFields /\ DOMAIN h.mstatus = MStatusFields
      /\ (h.mode = "run") <=> (h.cause = NoCause)
      /\ h.cause \in Causes
  BY <1>0 DEF Core, SrvShape, Modes
<1>4. ASSUME NEW u, Base(s, u), NEW p, IsOp(p), p.op = "halt", p.step \in 1 .. 4,
             p.step > 2 => Halted(h), Advance(u, p, HaltProgram(p.step), t)
      PROVE  Performed(s, t, h, g, w, v)
  <2>1. t.intr /\ t.ram.prog = HaltProgram(p.step)
    BY <1>4 DEF Advance
  <2>2. PostedBy(t, p)
    BY <1>4, <2>1 DEF PostedBy
  <2>3. FetchedBy(t, h, v, p)
    BY <1>4, <2>1 DEF FetchedBy
  <2>4. HaltProgram(p.step) # dcsr_program
    BY <1>4, NotDcsrProgram
  <2>5. p.op = s.queue[1].op /\ p.op \notin {"collect", "mread", "mwrite"} /\ p.step > 0
    BY <1>4
  <2> DEFINE P == HaltProgram(p.step)
  <2>6. Advance(u, p, P, t) /\ P # dcsr_program
    BY <1>4, <2>4
  <2> HIDE DEF P
  <2> QED BY <1>4, <2>2, <2>3, <2>5, <2>6, AdvanceCore
<1> DEFINE p == Stepped(o)
<1>5. IsOp(p) /\ p.op = "halt" /\ p.step = o.step + 1
  BY <1>0, SteppedOp
<1> HIDE DEF p
<1>6. CASE o.step = 0
  <2>1. CASE s.gs.xlen = 0
    <3>1. t = Again(Post(s, <<xlen_probe>>), o)
      BY <1>6, <2>1 DEF halt_op
    <3>2. Advance(s, p, <<xlen_probe>>, t)
      BY <1>0, <3>1, AgainPost DEF p
    <3>3. p.step = 1 /\ Advance(s, p, HaltProgram(p.step), t)
      BY <1>5, <1>6, <3>2 DEF HaltProgram
    <3> QED BY <1>0, <1>4, <1>5, <3>3
  <2>2. CASE s.gs.xlen # 0
    <3> DEFINE q == [o EXCEPT !.step = 1]
    <3>0. t = Again(Post(s, dpc_program), q)
      BY <1>6, <2>2 DEF halt_op
    <3>1. q.op = "halt" /\ DOMAIN q = DOMAIN o /\ q.step = 1 /\ q.step \in Nat
      BY <1>1
    <3> HIDE DEF q
    <3>2. IsOp(q)
      BY <1>0, <3>1, NextOp
    <3> DEFINE r == Stepped(q)
    <3>3. IsOp(r) /\ r.op = "halt" /\ r.step = 2
      BY <3>1, <3>2, SteppedOp
    <3>4. Advance(s, r, dpc_program, t)
      BY <1>0, <3>0, AgainPost
    <3> HIDE DEF r
    <3>5. Advance(s, r, HaltProgram(r.step), t)
      BY <3>3, <3>4 DEF HaltProgram
    <3> QED BY <1>0, <1>4, <3>3, <3>5
  <2> QED BY <2>1, <2>2
<1>7. CASE o.step = 1
  <2> DEFINE G == [s.gs EXCEPT !.xlen = s.ram.w0]
             u == [s EXCEPT !.gs = G]
  <2>1. t = Again(Post(u, dpc_program), o)
    BY <1>7 DEF halt_op
  <2>2. DOMAIN G = GsFields /\ G.xlen \in {0, XLEN} /\ DOMAIN G.mstatus = MStatusFields
    BY <1>3 DEF GsFields
  <2>3. Base(s, u)
    BY <1>0, <2>2, BaseGs
  <2> HIDE DEF u
  <2>4. SrvShape(u)
    BY <2>3 DEF Base
  <2>5. Advance(u, p, dpc_program, t)
    BY <2>1, <2>4, AgainPost DEF p
  <2>6. p.step = 2 /\ Advance(u, p, HaltProgram(p.step), t)
    BY <1>5, <1>7, <2>5 DEF HaltProgram
  <2> QED BY <1>4, <1>5, <2>3, <2>6
<1>8. CASE o.step = 2
  <2> DEFINE G == [s.gs EXCEPT !.dpc = s.ram.d0]
             u == [s EXCEPT !.gs = G]
             P == <<csrr("s0", "mstatus"), dr_store("s0", "d0")>>
  <2>1. t = Again(Post(u, P), o)
    BY <1>8 DEF halt_op
  <2>2. DOMAIN G = GsFields /\ G.xlen \in {0, XLEN} /\ DOMAIN G.mstatus = MStatusFields
    BY <1>3 DEF GsFields
  <2>3. Base(s, u)
    BY <1>0, <2>2, BaseGs
  <2> HIDE DEF u
  <2>4. SrvShape(u)
    BY <2>3 DEF Base
  <2>5. Advance(u, p, P, t)
    BY <2>1, <2>4, AgainPost DEF p
  <2>6. p.step = 3 /\ Advance(u, p, HaltProgram(p.step), t)
    BY <1>5, <1>8, <2>5 DEF HaltProgram
  <2>7. Halted(h)
    BY <1>0, <1>8 DEF FetchedBy
  <2> QED BY <1>4, <1>5, <2>3, <2>6, <2>7
<1>9. CASE o.step = 3
  <2> DEFINE u == [s EXCEPT !.gs.mstatus = s.ram.d0, !.gs.mstatus_dirty = FALSE]
             P == <<csrr("s0", "dcsr"), dr_store("s0", "d0")>>
  <2>0. s.ram.d0 = h.mstatus /\ Halted(h)
    BY <1>0, <1>9 DEF FetchedBy
  <2>1. t = Again(Post(u, P), o)
    BY <1>9 DEF halt_op
  <2>3. Base(s, u)
    BY <1>0, <1>3, <2>0 DEF Base, Same, SrvShape, SrvFields, GsFields
  <2> HIDE DEF u
  <2>4. SrvShape(u)
    BY <2>3 DEF Base
  <2>5. Advance(u, p, P, t)
    BY <2>1, <2>4, AgainPost DEF p
  <2>6. p.step = 4 /\ Advance(u, p, HaltProgram(p.step), t)
    BY <1>5, <1>9, <2>5 DEF HaltProgram
  <2> QED BY <1>4, <1>5, <2>0, <2>3, <2>6
<1>10. CASE o.step = 4
  <2> DEFINE u == [s EXCEPT !.gs.dcsr = s.ram.d0, !.gs.sptbr_valid = FALSE,
                            !.gs.pte_cache = <<>>]
  <2>0. s.ram.d0 = get_csr(h, "dcsr") /\ Halted(h)
    BY <1>0, <1>10 DEF FetchedBy
  <2>a. s.ram.d0.cause = h.cause
    BY <2>0 DEF get_csr
  <2>b. s.ram.d0.cause # NoCause
    BY <1>3, <2>0, <2>a DEF Halted
  <2>1. t = Done(u) \/ t = Done(send_packet(u, StopReply(s.ram.d0.cause)))
    BY <1>10, <2>b DEF halt_op
  <2>3. Base(s, u)
    BY <1>0, <1>3 DEF Base, Same, SrvShape, SrvFields, GsFields
  <2> HIDE DEF u
  <2>4. SrvShape(u)
    BY <2>3 DEF Base
  <2>5. \/ Finish(u, t)
        \/ \E r : FinishSend(u, r, t) /\ ~IsAck(r) /\ r[1] # "regs"
    <3>1. CASE t = Done(u)
      BY <2>4, <3>1, DoneFields
    <3>2. CASE t = Done(send_packet(u, StopReply(s.ram.d0.cause)))
      <4> DEFINE r == StopReply(s.ram.d0.cause)
      <4>1. FinishSend(u, <<r>>, t)
        BY <2>4, <3>2, DoneSend
      <4>2. r \in StopReplies
        BY <1>3, <2>a, <2>b DEF StopReply, Causes, NoCause, StopReplies
      <4>3. ~IsAck(<<r>>) /\ <<r>>[1] # "regs"
        BY <4>2 DEF IsAck, StopReplies
      <4> QED BY <4>1, <4>3
    <3> QED BY <2>1, <3>1, <3>2
  <2>6. s.queue[1].op = "halt" /\ s.queue[1].step = 4
    BY <1>10
  <2> QED BY <2>3, <2>5, <2>6, FinishCore
<1> QED BY <1>2, <1>6, <1>7, <1>8, <1>9, <1>10

LEMMA CalmInsns ==
  /\ \A r : \A slot \in {"d0", "d1"} : Calm(dr_store(r, slot)) /\ Calm(fsd(r, slot))
  /\ \A r \in {"s0", "s1"} : \A slot : Calm(dr_load(r, slot))
  /\ \A c : Calm(csrr("s0", c))
  /\ \A r : \A c \in {"sptbr", "tselect", "tdata1", "tdata2", "bad"} : Calm(csrw(r, c))
  /\ \A r, k : Calm(addi("s0", r, k))
  /\ \A r, b : Calm(ld(r, b)) /\ Calm(sd(r, b))
<1>1. ASSUME NEW r, NEW slot \in {"d0", "d1"} PROVE Calm(dr_store(r, slot)) /\ Calm(fsd(r, slot))
  BY DEF dr_store, fsd, Calm, Name, A, B
<1>2. ASSUME NEW r \in {"s0", "s1"}, NEW slot PROVE Calm(dr_load(r, slot))
  BY DEF dr_load, Calm, Name, A, B
<1>3. ASSUME NEW c PROVE Calm(csrr("s0", c))
  BY DEF csrr, Calm, Name, A, B
<1>4. ASSUME NEW r, NEW c \in {"sptbr", "tselect", "tdata1", "tdata2", "bad"}
      PROVE  Calm(csrw(r, c))
  BY DEF csrw, Calm, Name, A, B
<1>5. ASSUME NEW r, NEW k PROVE Calm(addi("s0", r, k))
  BY DEF addi, Calm, Name, A, B
<1>6. ASSUME NEW r, NEW b PROVE Calm(ld(r, b)) /\ Calm(sd(r, b))
  BY DEF ld, sd, Calm, Name, A, B
<1> QED BY <1>1, <1>2, <1>3, <1>4, <1>5, <1>6

LEMMA CalmTuples ==
  /\ \A a : Calm(a) => AllCalm(<<a>>)
  /\ \A a, b : Calm(a) /\ Calm(b) => AllCalm(<<a, b>>)
  /\ \A a, b, c : Calm(a) /\ Calm(b) /\ Calm(c) => AllCalm(<<a, b, c>>)
  /\ \A a, b, c, d : Calm(a) /\ Calm(b) /\ Calm(c) /\ Calm(d) => AllCalm(<<a, b, c, d>>)
<1>1. ASSUME NEW a, Calm(a) PROVE AllCalm(<<a>>)
  BY <1>1 DEF AllCalm
<1>2. ASSUME NEW a, NEW b, Calm(a), Calm(b) PROVE AllCalm(<<a, b>>)
  BY <1>2 DEF AllCalm
<1>3. ASSUME NEW a, NEW b, NEW c, Calm(a), Calm(b), Calm(c) PROVE AllCalm(<<a, b, c>>)
  BY <1>3 DEF AllCalm
<1>4. ASSUME NEW a, NEW b, NEW c, NEW d, Calm(a), Calm(b), Calm(c), Calm(d)
      PROVE  AllCalm(<<a, b, c, d>>)
  BY <1>4 DEF AllCalm
<1> QED BY <1>1, <1>2, <1>3, <1>4

LEMMA CalmPrograms ==
  /\ \A r : AllCalm(<<dr_store(r, "d0")>>)
  /\ \A c : AllCalm(<<csrr("s0", c), dr_store("s0", "d0")>>)
  /\ \A c \in {"sptbr", "tselect", "tdata1", "tdata2", "bad"} : \A slot :
        AllCalm(<<dr_load("s0", slot), csrw("s0", c)>>)
  /\ \A slot \in {"d0", "d1"} :
        AllCalm(<<dr_load("s0", "d0"), ld("s1", "s0"), dr_store("s1", slot)>>)
  /\ AllCalm(<<dr_load("s0", "d0"), dr_load("s1", "d1"), sd("s1", "s0")>>)
  /\ AllCalm(index_program)
  /\ \A k : AllCalm(<<addi("s0", "zero", k), csrw("s0", "tselect"), csrw("zero", "tdata1")>>)
<1>1. \A r : AllCalm(<<dr_store(r, "d0")>>)
  BY CalmInsns, CalmTuples
<1>2. \A c : AllCalm(<<csrr("s0", c), dr_store("s0", "d0")>>)
  BY CalmInsns, CalmTuples
<1>3. \A c \in {"sptbr", "tselect", "tdata1", "tdata2", "bad"} : \A slot :
        AllCalm(<<dr_load("s0", slot), csrw("s0", c)>>)
  BY CalmInsns, CalmTuples
<1>4. \A slot \in {"d0", "d1"} :
        AllCalm(<<dr_load("s0", "d0"), ld("s1", "s0"), dr_store("s1", slot)>>)
  BY CalmInsns, CalmTuples
<1>5. AllCalm(<<dr_load("s0", "d0"), dr_load("s1", "d1"), sd("s1", "s0")>>)
  BY CalmInsns, CalmTuples
<1>6. AllCalm(index_program)
  <2>1. Calm(dr_load("s0", "d1")) /\ Calm(csrw("s0", "tselect"))
    BY CalmInsns
  <2>2. Calm(csrr("s0", "tselect")) /\ Calm(dr_store("s0", "d1"))
    BY CalmInsns
  <2> QED BY <2>1, <2>2, CalmTuples DEF index_program
<1>7. \A k : AllCalm(<<addi("s0", "zero", k), csrw("s0", "tselect"), csrw("zero", "tdata1")>>)
  BY CalmInsns, CalmTuples
<1> QED BY <1>1, <1>2, <1>3, <1>4, <1>5, <1>6, <1>7

LEMMA CalmNotDcsr ==
  ASSUME NEW P, AllCalm(P)
  PROVE  P # dcsr_program
<1>1. ~Calm(csrw("s0", "dcsr"))
  BY DEF csrw, Calm, Name, A, B
<1>2. ~AllCalm(dcsr_program)
  BY <1>1 DEF AllCalm, dcsr_program
<1> QED BY <1>2

(* An operation that goes on with a program that disturbs nothing.          *)
Ordinary(o) == /\ o.op \notin {"halt", "gread", "continue"}
               /\ o.op = "rwrite" => o.reg \notin {"s0", "s1", "x", "f"}
               /\ o.op = "rread" => o.reg # "f"

LEMMA AdvanceCalm ==
  ASSUME NEW s, NEW h, NEW g, NEW w, Ready(s, h, g, w), NEW u, Base(s, u),
         NEW o, NEW p, NEW t, Advance(u, o, p, t), NEW v, SameRegs(w, v),
         IsOp(o), o.op = s.queue[1].op, o.step > 0,
         o.op \in {"collect", "mread", "mwrite"} => o.addr = s.queue[1].addr,
         o.op \in {"mread", "mwrite"} => u.gs = s.gs,
         AllCalm(p), Ordinary(o)
  PROVE  Performed(s, t, h, g, w, v)
<1>1. p # dcsr_program
  BY CalmNotDcsr
<1>2. t.ram.prog = p
  BY DEF Advance
<1>3. PostedBy(t, o)
  BY <1>2 DEF PostedBy, Ordinary
<1>4. FetchedBy(t, h, v, o)
  BY DEF FetchedBy, Ordinary
<1> QED BY <1>1, <1>3, <1>4, AdvanceCore

(* The operation is done and leaves a program for the hart.                 *)
FinishPost(s, p, t) ==
    /\ SrvShape(t) /\ Same(s, t, {"queue", "ram", "intr", "send"})
    /\ t.queue = Tail(s.queue) /\ t.intr /\ t.ram.prog = p /\ t.ram.w0 = s.ram.w0
    /\ t.send = s.send \/ t.send = Append(s.send, <<"OK">>)

LEMMA DonePost ==
  ASSUME NEW s, SrvShape(s), NEW p
  PROVE  FinishPost(s, p, Done(Post(s, p)))
  BY DEF FinishPost, Same, Done, Post, SrvShape, SrvFields, RamFields

LEMMA DoneSlotPost ==
  ASSUME NEW s, SrvShape(s), NEW p, NEW slot \in {"d0", "d1"}, NEW d
  PROVE  /\ FinishPost(s, p, Done(Slot(Post(s, p), slot, d)))
         /\ FinishPost(s, p, Done(send_packet(Slot(Post(s, p), slot, d), "OK")))
<1>1. FinishPost(s, p, Done(Slot(Post(s, p), slot, d)))
  BY DEF FinishPost, Same, Done, Post, Slot, SrvShape, SrvFields, RamFields
<1>2. FinishPost(s, p, Done(send_packet(Slot(Post(s, p), slot, d), "OK")))
  BY DEF FinishPost, Same, Done, Post, Slot, send_packet, SrvShape, SrvFields, RamFields
<1> QED BY <1>1, <1>2

LEMMA FinishPostCore ==
  ASSUME NEW s, NEW h, NEW g, NEW w, Ready(s, h, g, w), NEW v, SameRegs(w, v),
         NEW u, Base(s, u), NEW p, NEW t, FinishPost(u, p, t),
         \/ s.queue[1].op = "continue" /\ p = dcsr_program
         \/ s.queue[1].op \in {"hwinsert", "hwremove"} /\ AllCalm(p)
  PROVE  Performed(s, t, h, g, w, v)
<1> DEFINE o == s.queue[1]
<1>0. Core(s, h, g, w) /\ s.client /\ ~s.intr /\ s.queue # <<>> /\ ~s.dead
  BY DEF Ready, Core, Modes
<1>1. /\ Rest(s, t) /\ t.queue = Tail(s.queue)
      /\ t.intr /\ t.ram.prog = p
  BY <1>0 DEF Base, FinishPost, Same, SrvFields, Rest
<1>2. \/ t.send = s.send
      \/ \E r : /\ t.send = Append(s.send, r) /\ ~IsAck(r)
                /\ r[1] \in StopReplies => o.op = "halt"
  <2>1. t.send = s.send \/ t.send = Append(s.send, <<"OK">>)
    BY DEF Base, FinishPost, Same, SrvFields
  <2>2. ~IsAck(<<"OK">>) /\ <<"OK">>[1] \notin StopReplies
    BY DEF IsAck, StopReplies
  <2> QED BY <2>1, <2>2
<1>3. /\ o.op \notin Preparing \cup {"halt"}
      /\ IF o.op = "continue" THEN release(t)
                              ELSE AllCalm(t.ram.prog) /\ ~release(t)
  <2>1. CASE o.op = "continue" /\ p = dcsr_program
    BY <1>1, <2>1 DEF release, Preparing
  <2>2. CASE o.op \in {"hwinsert", "hwremove"} /\ AllCalm(p)
    BY <1>1, <2>2, CalmNotDcsr DEF release, Preparing
  <2> QED BY <2>1, <2>2
<1>4. o = s.queue[1] /\ o.op \notin {"halt", "collect", "mread"}
  OBVIOUS
<1>5. \/ t.send = s.send
      \/ \E r : t.send = Append(s.send, r) /\ TrueReply(r, h, w)
  <2>1. t.send = s.send \/ t.send = Append(s.send, <<"OK">>)
    BY DEF Base, FinishPost, Same, SrvFields
  <2>2. TrueReply(<<"OK">>, h, w)
    BY DEF TrueReply, StopReplies
  <2> QED BY <2>1, <2>2
<1> HIDE DEF o
<1>6. Core(t, h, g, v)
  BY <1>0, <1>1, <1>2, <1>3, <1>4, Finished
<1>7. Kin(s, t)
  BY <1>1, <1>3 DEF Kin, Rest, release, o
<1> QED BY <1>0, <1>1, <1>5, <1>6, <1>7 DEF Performed, Truthful, Rest

LEMMA SeqExt ==
  ASSUME NEW S, NEW s \in Seq(S), NEW t \in Seq(S), NEW r \in Seq(S),
         Len(r) = Len(s) + Len(t),
         \A i \in 1 .. Len(s) : r[i] = s[i],
         \A i \in 1 .. Len(t) : r[Len(s) + i] = t[i]
  PROVE  s \o t = r
<1> DEFINE c == s \o t
<1>1. c \in Seq(S) /\ Len(c) = Len(r)
  BY ConcatProperties
<1>2. ASSUME NEW i \in 1 .. Len(c) PROVE c[i] = r[i]
  <2>1. CASE i <= Len(s)
    BY <1>1, <2>1
  <2>2. CASE ~(i <= Len(s))
    <3> DEFINE k == i - Len(s)
    <3>1. k \in 1 .. Len(t) /\ i = Len(s) + k
      BY <1>1, <2>2
    <3>2. c[i] = t[k]
      BY <1>1, <2>2
    <3> HIDE DEF k, c
    <3> QED BY <3>1, <3>2
  <2> QED BY <2>1, <2>2
<1> HIDE DEF c
<1>3. c = r
  BY <1>1, <1>2, SeqEqual
<1> QED BY <1>3 DEF c

LEMMA Tuples ==
  /\ \A a, b : <<a, b>> \o <<>> = <<a, b>>
  /\ \A a, b : <<a>> \o <<b>> = <<a, b>>
  /\ \A a, b, c : <<a, b>> \o <<c>> = <<a, b, c>>
<1>1. ASSUME NEW a, NEW b PROVE <<a, b>> \o <<>> = <<a, b>>
  BY <<a, b>> \in Seq({a, b}), ConcatEmptySeq
<1>2. ASSUME NEW a, NEW b PROVE <<a>> \o <<b>> = <<a, b>>
  <2> DEFINE s == <<a>>  t == <<b>>  r == <<a, b>>  S == {a, b}
  <2>1. s \in Seq(S) /\ t \in Seq(S) /\ r \in Seq(S)
    OBVIOUS
  <2>2. Len(r) = Len(s) + Len(t) /\ Len(s) = 1 /\ Len(t) = 1
    OBVIOUS
  <2>3. s[1] = a /\ t[1] = b /\ r[1] = a /\ r[2] = b
    OBVIOUS
  <2> HIDE DEF s, t, r, S
  <2>4. \A i \in 1 .. Len(s) : r[i] = s[i]
    BY <2>2, <2>3
  <2>5. \A i \in 1 .. Len(t) : r[Len(s) + i] = t[i]
    BY <2>2, <2>3
  <2>6. s \o t = r
    BY <2>1, <2>2, <2>4, <2>5, SeqExt
  <2> QED BY <2>6 DEF s, t, r
<1>3. ASSUME NEW a, NEW b, NEW c PROVE <<a, b>> \o <<c>> = <<a, b, c>>
  <2> DEFINE s == <<a, b>>  t == <<c>>  r == <<a, b, c>>  S == {a, b, c}
  <2>1. s \in Seq(S) /\ t \in Seq(S) /\ r \in Seq(S)
    OBVIOUS
  <2>2. Len(r) = Len(s) + Len(t) /\ Len(s) = 2 /\ Len(t) = 1
    OBVIOUS
  <2>3. s[1] = a /\ s[2] = b /\ t[1] = c /\ r[1] = a /\ r[2] = b /\ r[3] = c
    OBVIOUS
  <2> HIDE DEF s, t, r, S
  <2>4. \A i \in 1 .. Len(s) : r[i] = s[i]
    BY <2>2, <2>3
  <2>5. \A i \in 1 .. Len(t) : r[Len(s) + i] = t[i]
    BY <2>2, <2>3
  <2>6. s \o t = r
    BY <2>1, <2>2, <2>4, <2>5, SeqExt
  <2> QED BY <2>6 DEF s, t, r
<1> QED BY <1>1, <1>2, <1>3

LEMMA ContinueStep ==
  ASSUME NEW s, NEW h, NEW g, NEW w, Ready(s, h, g, w), NEW v, SameRegs(w, v),
         NEW o, o = s.queue[1], o.op = "continue", NEW t, t = continue_op(s, o)
  PROVE  Performed(s, t, h, g, w, v)
<1>0. /\ IsOp(o) /\ SrvShape(s) /\ Base(s, s) /\ Core(s, h, g, w)
      /\ o.step > 0 => PostedBy(s, o)
  BY HeadOp DEF Ready
<1>1. o.step \in Nat
  BY <1>0 DEF IsOp
<1>2. o.step \in 0 .. 2
  BY <1>0, <1>1 DEF PostedBy
<1>3. DOMAIN s.gs = GsFields /\ s.gs.xlen \in {0, XLEN} /\ DOMAIN s.gs.mstatus = MStatusFields
  BY <1>0 DEF Core, SrvShape, Modes
<1> DEFINE p == Stepped(o)
<1>4. IsOp(p) /\ p.op = "continue" /\ p.step = o.step + 1 /\ p.step > 0
  BY <1>0, SteppedOp
<1> HIDE DEF p
<1>5. p.op = s.queue[1].op /\ p.op \notin {"collect", "mread", "mwrite"}
      /\ FetchedBy(t, h, v, p)
  BY <1>4 DEF FetchedBy
<1>6. CASE o.step = 0
  <2> DEFINE u == [s EXCEPT !.gs.fence_i_required = FALSE]
             P == <<dr_load("s0", "d0"), csrw("s0", "dpc")>>
                    \o (IF s.gs.fence_i_required THEN <<fence_i>> ELSE <<>>)
  <2>1. t = Again(Slot(Post(u, P), "d0", s.gs.dpc), o)
    BY <1>6 DEF continue_op
  <2>2. P \in DpcPrograms
    <3>1. CASE s.gs.fence_i_required
      BY <3>1, Tuples DEF DpcPrograms
    <3>2. CASE ~s.gs.fence_i_required
      BY <3>2, Tuples DEF DpcPrograms
    <3> QED BY <3>1, <3>2
  <2>3. Base(s, u)
    BY <1>0, <1>3 DEF Base, Same, SrvShape, SrvFields, GsFields
  <2> HIDE DEF u, P
  <2>4. SrvShape(u)
    BY <2>3 DEF Base
  <2>5. Advance(u, p, P, t)
    BY <2>1, <2>4, AgainSlotPost DEF p
  <2>6. PostedBy(t, p)
    BY <1>4, <1>6, <2>2, <2>5 DEF PostedBy, Advance
  <2>7. P # dcsr_program
    BY <2>2, NotDcsrProgram
  <2> QED BY <1>4, <1>5, <2>3, <2>5, <2>6, <2>7, AdvanceCore
<1>7. CASE o.step = 1
  <2>1. t = Again(Slot(Post(s, mstatus_program), "d0", s.gs.mstatus), o)
    BY <1>7 DEF continue_op, mstatus_program
  <2>2. Advance(s, p, mstatus_program, t) /\ t.ram.d0 = s.gs.mstatus
    <3> DEFINE P == mstatus_program
    <3> HIDE DEF P
    <3>1. t = Again(Slot(Post(s, P), "d0", s.gs.mstatus), o)
      BY <2>1 DEF P
    <3>2. Advance(s, p, P, t) /\ t.ram["d0"] = s.gs.mstatus
      BY <1>0, <3>1, AgainSlotPost DEF p
    <3> QED BY <3>2 DEF P
  <2>3. PostedBy(t, p)
    BY <1>3, <1>4, <1>7, <2>2 DEF PostedBy, Advance
  <2> DEFINE P == mstatus_program
  <2>4. Advance(s, p, P, t) /\ P # dcsr_program
    BY <2>2, NotDcsrProgram
  <2> HIDE DEF P
  <2> QED BY <1>0, <1>4, <1>5, <2>3, <2>4, AdvanceCore
<1>8. CASE o.step = 2
  <2> DEFINE d == [s.gs.dcsr EXCEPT !.halt = FALSE, !.step = o.single_step, !.ebreak = TRUE]
             P == dcsr_program
  <2>1. t = Done(Slot(Post(s, P), "d0", d))
    BY <1>8 DEF continue_op, dcsr_program
  <2> HIDE DEF P, d
  <2>2. FinishPost(s, P, t)
    BY <1>0, <2>1, DoneSlotPost
  <2>3. s.queue[1].op = "continue" /\ P = dcsr_program
    BY DEF P
  <2> QED BY <1>0, <2>2, <2>3, FinishPostCore
<1> QED BY <1>2, <1>6, <1>7, <1>8

(* The short answers of the operations.                                     *)
Answers == {"OK", "value", "data", "E02", "E03", "E58", "E98", "E99"}

LEMMA FinishAnswer ==
  ASSUME NEW s, NEW h, NEW g, NEW w, Ready(s, h, g, w), NEW v, SameRegs(w, v),
         NEW u, Base(s, u), NEW r \in Answers, NEW t, t = Done(send_packet(u, r)),
         s.queue[1].op \notin {"halt", "collect"},
         s.queue[1].op = "mread" => u.gs = s.gs
  PROVE  Performed(s, t, h, g, w, v)
<1>1. FinishSend(u, <<r>>, t)
  BY DoneSend DEF Base
<1>2. ~IsAck(<<r>>) /\ <<r>>[1] \notin StopReplies /\ <<r>>[1] # "regs"
  BY DEF IsAck, StopReplies, Answers
<1>3. \E a : /\ FinishSend(u, a, t) /\ ~IsAck(a)
             /\ a[1] \in StopReplies => s.queue[1].op = "halt"
             /\ a[1] = "regs" => a = <<"regs", w.x, w.s0, w.s1>>
  BY <1>1, <1>2
<1> QED BY <1>3, FinishCore

LEMMA FinishSilent ==
  ASSUME NEW s, NEW h, NEW g, NEW w, Ready(s, h, g, w), NEW v, SameRegs(w, v),
         NEW u, Base(s, u), NEW t, t = Done(u), s.queue[1].op # "halt",
         s.queue[1].op = "collect" => ~Uncollected(u, s.queue[1].addr),
         s.queue[1].op = "mread" => u.gs = s.gs
  PROVE  Performed(s, t, h, g, w, v)
<1>1. Finish(u, t)
  BY DoneFields DEF Base
<1> QED BY <1>1, FinishCore

LEMMA MoreTuples ==
  /\ \A a : <<>> \o <<a>> = <<a>>
  /\ \A a : <<a>> \o <<>> = <<a>>
<1>1. ASSUME NEW a PROVE <<>> \o <<a>> = <<a>> /\ <<a>> \o <<>> = <<a>>
  BY <<a>> \in Seq({a}), ConcatEmptySeq
<1> QED BY <1>1

(* The program that reads a pair of registers.                              *)
PairProgram(pair) ==
    (IF pair[1] = "s1" THEN <<dr_load("s1", "last")>> ELSE <<>>)
      \o <<dr_store(pair[1], "d0")>>
      \o (IF pair[2] = "s0" THEN <<csrr("s0", "dscratch")>> ELSE <<>>)
      \o <<dr_store(pair[2], "d1")>>

LEMMA PairPrograms ==
  ASSUME NEW k \in 1 .. 3
  PROVE  PairProgram(RegPairs[k]) = ReadProgram(k)
<1> DEFINE e == <<>>  a == <<dr_store("x", "d0")>>  b == <<dr_store("x", "d1")>>
           c == <<csrr("s0", "dscratch")>>  d == <<dr_store("s0", "d1")>>
           ac == <<dr_store("x", "d0"), csrr("s0", "dscratch")>>
           l == <<dr_load("s1", "last")>>  f == <<dr_store("s1", "d0")>>
           lf == <<dr_load("s1", "last"), dr_store("s1", "d0")>>
<1>1. e \o a = a /\ a \o e = a /\ lf \o e = lf
  BY MoreTuples, Tuples
<1>2. a \o b = ReadProgram(1)
  BY Tuples DEF ReadProgram
<1>3. a \o c = ac /\ l \o f = lf
  BY Tuples
<1>4. ac \o d = ReadProgram(2)
  BY Tuples DEF ReadProgram
<1>5. lf \o b = ReadProgram(3)
  BY Tuples DEF ReadProgram
<1>6. /\ PairProgram(<<"x", "x">>) = e \o a \o e \o b
      /\ PairProgram(<<"x", "s0">>) = e \o a \o c \o d
      /\ PairProgram(<<"s1", "x">>) = l \o f \o e \o b
  BY DEF PairProgram
<1>7. /\ RegPairs[1] = <<"x", "x">> /\ RegPairs[2] = <<"x", "s0">>
      /\ RegPairs[3] = <<"s1", "x">>
  BY DEF RegPairs
<1> HIDE DEF e, a, b, c, d, ac, l, f, lf
<1>8. PairProgram(<<"x", "x">>) = ReadProgram(1)
  BY <1>1, <1>2, <1>6, Zenon
<1>9. PairProgram(<<"x", "s0">>) = ReadProgram(2)
  BY <1>1, <1>3, <1>4, <1>6, Zenon
<1>10. PairProgram(<<"s1", "x">>) = ReadProgram(3)
  BY <1>1, <1>3, <1>5, <1>6, Zenon
<1>11. k = 1 \/ k = 2 \/ k = 3
  OBVIOUS
<1> QED BY <1>7, <1>8, <1>9, <1>10, <1>11, Zenon

More(got, a, b, r) ==
    /\ IsSeq(r) /\ Len(r) = Len(got) + 2
    /\ \A i \in 1 .. Len(got) : r[i] = got[i]
    /\ r[Len(got) + 1] = a /\ r[Len(got) + 2] = b

LEMMA GotMore ==
  ASSUME NEW got, IsSeq(got), NEW a, NEW b
  PROVE  More(got, a, b, got \o <<a, b>>)
<1> DEFINE c == <<a, b>>  r == got \o c
<1>1. IsSeq(c) /\ Len(c) = 2 /\ c[1] = a /\ c[2] = b
  BY DEF IsSeq
<1> HIDE DEF c
<1>2. Joined(got, c, r)
  BY <1>1, IsSeqConcat
<1> HIDE DEF r
<1>3. More(got, a, b, r)
  BY <1>1, <1>2 DEF Joined, More
<1> QED BY <1>3 DEF r, c

LEMMA GreadStep ==
  ASSUME NEW s, NEW h, NEW g, NEW w, Ready(s, h, g, w), NEW v, SameRegs(w, v),
         NEW o, o = s.queue[1], o.op = "gread", NEW t, t = general_registers_read_op(s, o)
  PROVE  Performed(s, t, h, g, w, v)
<1>0. /\ IsOp(o) /\ SrvShape(s) /\ Base(s, s) /\ ~s.intr
      /\ o.step > 0 => PostedBy(s, o)
      /\ FetchedBy(s, h, w, o)
  BY HeadOp DEF Ready
<1>1. o.step \in Nat /\ DOMAIN o = {"op", "step", "got"}
  BY <1>0 DEF IsOp, OpFields
<1>2. o.step \in 0 .. 3
  BY <1>0, <1>1 DEF PostedBy
<1> DEFINE got == IF o.step = 0 THEN <<>> ELSE o.got \o <<s.ram.d0, s.ram.d1>>
<1>3. /\ IsSeq(got) /\ Len(got) = 2 * o.step
      /\ o.step > 0 => got[1] = w.x
      /\ o.step > 1 => got[4] = w.s0
      /\ o.step > 2 => got[5] = w.s1
  <2>1. CASE o.step = 0
    BY <2>1 DEF IsSeq
  <2>2. CASE o.step \in 1 .. 3
    <3>1. got = o.got \o <<s.ram.d0, s.ram.d1>>
      BY <2>2
    <3>2. IsSeq(o.got) /\ Len(o.got) = 2 * (o.step - 1)
      BY <1>0, <2>2 DEF FetchedBy
    <3>a. More(o.got, s.ram.d0, s.ram.d1, got)
      BY <3>1, <3>2, GotMore
    <3> HIDE DEF got
    <3>3. /\ IsSeq(got) /\ Len(got) = Len(o.got) + 2
          /\ \A i \in 1 .. Len(o.got) : got[i] = o.got[i]
          /\ got[Len(o.got) + 1] = s.ram.d0 /\ got[Len(o.got) + 2] = s.ram.d1
      BY <3>a DEF More
    <3>4. CASE o.step = 1
      BY <1>0, <3>2, <3>3, <3>4 DEF FetchedBy
    <3>5. CASE o.step = 2
      BY <1>0, <3>2, <3>3, <3>5 DEF FetchedBy
    <3>6. CASE o.step = 3
      BY <1>0, <3>2, <3>3, <3>6 DEF FetchedBy
    <3> QED BY <2>2, <3>4, <3>5, <3>6
  <2> HIDE DEF got
  <2> QED BY <1>2, <2>1, <2>2
<1>4. CASE o.step = 3
  <2>1. t = Done(send_registers(s, got[1], got[4], got[5]))
    BY <1>4 DEF general_registers_read_op, RegPairs
  <2> HIDE DEF got
  <2>2. FinishSend(s, <<"regs", w.x, w.s0, w.s1>>, t)
    BY <1>0, <1>3, <1>4, <2>1, DoneSendRegisters
  <2>3. ~IsAck(<<"regs", w.x, w.s0, w.s1>>) /\ <<"regs", w.x, w.s0, w.s1>>[1] \notin StopReplies
    BY DEF IsAck, StopReplies
  <2>4. \E a : /\ FinishSend(s, a, t) /\ ~IsAck(a)
               /\ a[1] \in StopReplies => s.queue[1].op = "halt"
               /\ a[1] = "regs" => a = <<"regs", w.x, w.s0, w.s1>>
    BY <2>2, <2>3
  <2> QED BY <1>0, <2>4, FinishCore
<1>5. CASE o.step \in 0 .. 2
  <2> DEFINE n == [o EXCEPT !.got = got]
             P == PairProgram(RegPairs[o.step + 1])
  <2>1. t = Again(Post(s, P), n)
    BY <1>5 DEF general_registers_read_op, RegPairs, PairProgram
  <2> HIDE DEF got
  <2>2. n.op = "gread" /\ n.step = o.step /\ n.got = got /\ DOMAIN n = DOMAIN o
    BY <1>1
  <2> HIDE DEF n
  <2>3. IsOp(n)
    BY <1>0, <1>1, <2>2, NextOp
  <2> DEFINE p == Stepped(n)
  <2>4. IsOp(p) /\ p.op = "gread" /\ p.step = o.step + 1 /\ p.step > 0 /\ p.got = got
    BY <1>1, <2>2, <2>3, SteppedOp
  <2>5. P = ReadProgram(p.step)
    BY <1>5, <2>4, PairPrograms
  <2> HIDE DEF P
  <2>6. Advance(s, p, P, t)
    BY <1>0, <2>1, AgainPost
  <2> HIDE DEF p
  <2>7. t.intr /\ t.ram.prog = P
    BY <2>6 DEF Advance
  <2>8. PostedBy(t, p)
    BY <1>5, <2>4, <2>5, <2>7 DEF PostedBy
  <2>9. FetchedBy(t, h, v, p)
    <3>0. p.step \in 1 .. 3 /\ p.step - 1 = o.step
      BY <1>5, <2>4
    <3>1. IsSeq(p.got) /\ Len(p.got) = 2 * (p.step - 1)
      BY <1>3, <2>4, <3>0
    <3>2. p.step > 1 => p.got[1] = v.x
      BY <1>1, <1>3, <2>4 DEF SameRegs
    <3>3. p.step > 2 => p.got[4] = v.s0
      BY <1>1, <1>3, <2>4 DEF SameRegs
    <3> QED BY <2>4, <2>7, <3>0, <3>1, <3>2, <3>3 DEF FetchedBy
  <2>10. P # dcsr_program
    BY <1>5, <2>4, <2>5, NotDcsrProgram
  <2>11. p.op = s.queue[1].op /\ p.op \notin {"collect", "mread", "mwrite"}
    BY <2>4
  <2> QED BY <1>0, <2>4, <2>6, <2>8, <2>9, <2>10, <2>11, AdvanceCore
<1> QED BY <1>2, <1>4, <1>5

LEMMA FsOnFields ==
  ASSUME NEW s, NEW h, NEW g, NEW w, Core(s, h, g, w), NEW u, Base(s, u),
         u.gs = s.gs
  PROVE  /\ Base(s, FsOn(u)) /\ FsValue(FsOn(u).ram.d1)
         /\ FsOn(u).ram.d0 = u.ram.d0
<1> DEFINE a == [u.gs.mstatus EXCEPT !.fs = TRUE]
           b == Slot(u, "d1", a)
<1>1. DOMAIN u.gs.mstatus = MStatusFields
  BY DEF Base
<1>2. FsValue(a)
  BY <1>1 DEF FsValue, MStatusFields
<1> HIDE DEF a
<1>3. /\ SrvShape(b) /\ Same(u, b, {"ram"}) /\ b.ram.d1 = a /\ b.ram.d0 = u.ram.d0
      /\ b.ram.w0 = u.ram.w0
  BY DEF Base, Slot, SrvShape, Same, SrvFields, RamFields
<1>4. FsOn(u) = [b EXCEPT !.gs.mstatus_dirty = TRUE]
  BY DEF FsOn, a
<1> HIDE DEF b
<1>5. /\ Base(s, FsOn(u)) /\ FsOn(u).ram = b.ram
  BY <1>3, <1>4 DEF Base, Same, SrvShape, SrvFields, GsFields
<1> QED BY <1>2, <1>3, <1>5

LEMMA FsPrograms ==
  \A s : /\ FsProgram(s) \o <<fsd("f", "d0")>> = FReadProgram
         /\ FsProgram(s) \o <<fld("f", "d0")>> = WriteProgram("f")
<1>1. ASSUME NEW s PROVE FsProgram(s) \o <<fsd("f", "d0")>> = FReadProgram
  BY Tuples DEF FsProgram, FReadProgram
<1>2. ASSUME NEW s PROVE FsProgram(s) \o <<fld("f", "d0")>> = WriteProgram("f")
  BY Tuples DEF FsProgram, WriteProgram
<1> QED BY <1>1, <1>2

LEMMA RreadStep ==
  ASSUME NEW s, NEW h, NEW g, NEW w, Ready(s, h, g, w), NEW v, SameRegs(w, v),
         NEW o, o = s.queue[1], o.op = "rread", NEW t, t = register_read_op(s, o)
  PROVE  Performed(s, t, h, g, w, v)
<1>0. IsOp(o) /\ SrvShape(s) /\ Base(s, s) /\ Core(s, h, g, w)
  BY HeadOp DEF Ready
<1>1. DOMAIN o = {"op", "step", "reg"}
  BY <1>0 DEF IsOp, OpFields
<1> DEFINE p == Stepped(o)
<1>2. /\ IsOp(p) /\ p.op = "rread" /\ p.step > 0 /\ p.reg = o.reg
      /\ p.op = s.queue[1].op
  BY <1>0, <1>1, SteppedOp
<1> HIDE DEF p
<1>3. ASSUME NEW r \in Answers, t = Done(send_packet(s, r))
      PROVE  Performed(s, t, h, g, w, v)
  BY <1>0, <1>3, FinishAnswer
<1>4. ASSUME NEW P, AllCalm(P), t = Again(Post(s, P), o), o.reg # "f"
      PROVE  Performed(s, t, h, g, w, v)
  <2>1. Advance(s, p, P, t)
    BY <1>0, <1>4, AgainPost DEF p
  <2>2. Ordinary(p) /\ p.op \notin {"collect", "mread", "mwrite"}
    BY <1>2, <1>4 DEF Ordinary
  <2> QED BY <1>0, <1>2, <1>4, <2>1, <2>2, AdvanceCalm
<1>5. CASE o.step = 1
  <2>1. t = Done(send_packet(s, "E03")) \/ t = Done(send_packet(s, "value"))
    BY <1>5 DEF register_read_op
  <2> QED BY <1>3, <2>1 DEF Answers
<1>6. CASE o.step # 1
  <2>1. CASE o.reg \in {"x", "s0", "s1"}
    <3>1. t = Again(Post(s, <<dr_store(o.reg, "d0")>>), o)
      BY <1>6, <2>1 DEF register_read_op
    <3> QED BY <1>4, <2>1, <3>1, CalmPrograms
  <2>2. CASE o.reg \in {"pc", "mstatus", "priv"}
    <3>1. t = Done(send_packet(s, "value"))
      BY <1>6, <2>2 DEF register_read_op
    <3> QED BY <1>3, <3>1 DEF Answers
  <2>3. CASE o.reg = "f"
    <3> DEFINE u == FsOn(s)  P == FReadProgram
    <3>1. t = Again(Post(u, P), o)
      BY <1>6, <2>3, FsPrograms DEF register_read_op
    <3>2. Base(s, u) /\ FsValue(u.ram.d1)
      BY <1>0, FsOnFields
    <3>3. P = FReadProgram /\ P # dcsr_program
      BY NotDcsrProgram
    <3> HIDE DEF u, P
    <3>4. SrvShape(u)
      BY <3>2 DEF Base
    <3>5. Advance(u, p, P, t) /\ t.ram.d1 = u.ram.d1
      BY <3>1, <3>4, AgainPost DEF p
    <3>6. PostedBy(t, p)
      BY <1>2, <2>3, <3>2, <3>3, <3>5 DEF PostedBy, Advance
    <3>7. FetchedBy(t, h, v, p) /\ p.op \notin {"collect", "mread", "mwrite"}
      BY <1>2 DEF FetchedBy
    <3> QED BY <1>2, <3>2, <3>3, <3>5, <3>6, <3>7, AdvanceCore
  <2>4. CASE o.reg \in {"sptbr", "bad"}
    <3>1. t = Again(Post(s, <<csrr("s0", o.reg), dr_store("s0", "d0")>>), o)
      BY <1>6, <2>4 DEF register_read_op
    <3> QED BY <1>4, <2>4, <3>1, CalmPrograms
  <2>5. CASE o.reg \notin {"x", "s0", "s1", "pc", "mstatus", "priv", "f", "sptbr", "bad"}
    <3>1. t = Done(send_packet(s, "E02"))
      BY <1>6, <2>5 DEF register_read_op
    <3> QED BY <1>3, <3>1 DEF Answers
  <2> QED BY <2>1, <2>2, <2>3, <2>4, <2>5
<1> QED BY <1>5, <1>6

LEMMA RwriteStep ==
  ASSUME NEW s, NEW h, NEW g, NEW w, Ready(s, h, g, w), NEW v, SameRegs(w, v),
         NEW o, o = s.queue[1], o.op = "rwrite", NEW t, t = register_write_op(s, o)
  PROVE  Performed(s, t, h, g, w, v)
<1>0. /\ IsOp(o) /\ SrvShape(s) /\ Base(s, s) /\ Core(s, h, g, w)
      /\ o.step > 0 => PostedBy(s, o)
  BY HeadOp DEF Ready
<1>1. DOMAIN o = {"op", "step", "reg", "val"} /\ o.step \in Nat
  BY <1>0 DEF IsOp, OpFields
<1> DEFINE p == Stepped(o)  u == Slot(s, "d0", o.val)
<1>2. /\ IsOp(p) /\ p.op = "rwrite" /\ p.step = o.step + 1 /\ p.step > 0
      /\ p.reg = o.reg /\ p.val = o.val /\ p.op = s.queue[1].op
  BY <1>0, <1>1, SteppedOp
<1>3. Base(s, u) /\ u.gs = s.gs /\ u.ram.d0 = o.val
  BY <1>0 DEF Slot, Base, Same, SrvShape, SrvFields, RamFields
<1>4. SrvShape(u)
  BY <1>3 DEF Base
<1>5. FetchedBy(t, h, v, p) /\ p.op \notin {"collect", "mread", "mwrite"}
  BY <1>2 DEF FetchedBy
<1>6. ASSUME o.step # 1, o.reg \in {"s0", "s1", "x", "f"}
      PROVE  p.step = 1
  <2>1. o.step > 0 => o.step = 1
    BY <1>0, <1>6 DEF PostedBy
  <2> QED BY <1>1, <1>2, <1>6, <2>1
<1> HIDE DEF p, u
<1>7. ASSUME o.reg \in {"s0", "s1", "x"}, o.step # 1, t = Again(Post(u, WriteProgram(o.reg)), o)
      PROVE  Performed(s, t, h, g, w, v)
  <2> DEFINE P == WriteProgram(o.reg)
  <2>1. P # dcsr_program /\ P = WriteProgram(o.reg) /\ t = Again(Post(u, P), o)
    BY <1>7, NotDcsrProgram
  <2> HIDE DEF P
  <2>2. Advance(u, p, P, t) /\ t.ram.d0 = u.ram.d0
    BY <1>4, <2>1, AgainPost DEF p
  <2>3. p.step = 1
    BY <1>6, <1>7
  <2>4. PostedBy(t, p)
    BY <1>2, <1>3, <1>7, <2>1, <2>2, <2>3 DEF PostedBy, Advance
  <2> QED BY <1>2, <1>3, <1>5, <2>1, <2>2, <2>4, AdvanceCore
<1>8. ASSUME NEW P, AllCalm(P), o.reg \notin {"s0", "s1", "x", "f"}, NEW b, Base(s, b),
             Advance(b, p, P, t)
      PROVE  Performed(s, t, h, g, w, v)
  <2>1. Ordinary(p)
    BY <1>2, <1>8 DEF Ordinary
  <2> QED BY <1>2, <1>5, <1>8, <2>1, AdvanceCalm
<1>9. ASSUME NEW b, Base(s, b), t = Done(b) PROVE Performed(s, t, h, g, w, v)
  BY <1>9, FinishSilent
<1>10. ASSUME NEW b, Base(s, b), NEW r \in Answers, t = Done(send_packet(b, r))
       PROVE  Performed(s, t, h, g, w, v)
  BY <1>10, FinishAnswer
<1>11. CASE o.step = 1
  <2>1. t = Done(send_packet(s, "E03")) \/ t = Done(send_packet(s, "OK"))
    BY <1>11 DEF register_write_op
  <2> QED BY <1>0, <1>10, <2>1 DEF Answers
<1>12. CASE o.step # 1
  <2>1. CASE o.reg \in {"s0", "s1", "x"}
    <3>1. t = Again(Post(u, WriteProgram(o.reg)), o)
      <4>1. CASE o.reg = "s0"
        <5>1. t = Again(Post(u, <<dr_load("s0", "d0")>> \o <<csrw("s0", "dscratch")>>), o)
          BY <1>12, <4>1 DEF register_write_op, u
        <5>2. <<dr_load("s0", "d0")>> \o <<csrw("s0", "dscratch")>> = WriteProgram(o.reg)
          BY <4>1, Tuples DEF WriteProgram
        <5> QED BY <5>1, <5>2
      <4>2. CASE o.reg = "s1"
        <5>1. t = Again(Post(u, <<dr_load("s0", "d0")>> \o <<dr_store("s0", "last")>>), o)
          BY <1>12, <4>2 DEF register_write_op, u
        <5>2. <<dr_load("s0", "d0")>> \o <<dr_store("s0", "last")>> = WriteProgram(o.reg)
          BY <4>2, Tuples DEF WriteProgram
        <5> QED BY <5>1, <5>2
      <4>3. CASE o.reg = "x"
        <5>1. t = Again(Post(u, <<dr_load("s0", "d0")>> \o <<addi("x", "s0", 0)>>), o)
          BY <1>12, <4>3 DEF register_write_op, u
        <5>2. <<dr_load("s0", "d0")>> \o <<addi("x", "s0", 0)>> = WriteProgram(o.reg)
          BY <4>3, Tuples DEF WriteProgram
        <5> QED BY <5>1, <5>2
      <4> QED BY <2>1, <4>1, <4>2, <4>3
    <3> QED BY <1>7, <1>12, <2>1, <3>1
  <2>2. CASE o.reg = "pc"
    <3> DEFINE b == [u EXCEPT !.gs.dpc = o.val]
    <3>1. t = Done(b)
      BY <1>12, <2>2 DEF register_write_op, u
    <3>2. Base(s, b)
      BY <1>3 DEF Base, Same, SrvShape, SrvFields, GsFields
    <3> HIDE DEF b
    <3> QED BY <1>9, <3>1, <3>2
  <2>3. CASE o.reg = "f"
    <3> DEFINE b == FsOn(u)  P == WriteProgram("f")
    <3>1. t = Again(Post(b, P), o)
      BY <1>12, <2>3, FsPrograms DEF register_write_op, u
    <3>2. Base(s, b) /\ FsValue(b.ram.d1) /\ b.ram.d0 = o.val
      BY <1>0, <1>3, FsOnFields
    <3>3. P = WriteProgram("f") /\ P # dcsr_program
      BY NotDcsrProgram
    <3> HIDE DEF b, P
    <3>4. SrvShape(b)
      BY <3>2 DEF Base
    <3>5. Advance(b, p, P, t) /\ t.ram.d1 = b.ram.d1 /\ t.ram.d0 = b.ram.d0
      BY <3>1, <3>4, AgainPost DEF p
    <3>6. PostedBy(t, p)
      <4>1. p.step = 1
        BY <1>6, <1>12, <2>3
      <4> QED BY <1>2, <2>3, <3>2, <3>3, <3>5, <4>1 DEF PostedBy, Advance
    <3> QED BY <1>2, <1>5, <3>2, <3>3, <3>5, <3>6, AdvanceCore
  <2>4. CASE o.reg = "mstatus"
    <3> DEFINE b == [u EXCEPT !.gs.mstatus.fs = (o.val # 0), !.gs.mstatus_dirty = TRUE]
    <3>1. t = Done(b)
      BY <1>12, <2>4 DEF register_write_op, u
    <3>2. Base(s, b)
      BY <1>3 DEF Base, Same, SrvShape, SrvFields, GsFields, MStatusFields
    <3> HIDE DEF b
    <3> QED BY <1>9, <3>1, <3>2
  <2>5. CASE o.reg \in {"sptbr", "bad"}
    <3> DEFINE P == <<dr_load("s0", "d0"), csrw("s0", o.reg)>>
               b == Again(Post(u, P), o)
    <3>1. <<dr_load("s0", "d0")>> \o <<csrw("s0", o.reg)>> = P
      BY Tuples
    <3>2. AllCalm(P)
      BY <2>5, CalmPrograms
    <3>3. Advance(u, p, P, b)
      <4> HIDE DEF P
      <4>1. b = Again(Post(u, P), o)
        OBVIOUS
      <4> HIDE DEF b
      <4> QED BY <1>4, <4>1, AgainPost DEF p
    <3>4. CASE o.reg = "sptbr"
      <4>1. t = [b EXCEPT !.gs.sptbr = o.val, !.gs.sptbr_valid = TRUE]
        BY <1>12, <3>1, <3>4 DEF register_write_op, u
      <4> DEFINE c == [u EXCEPT !.gs.sptbr = o.val, !.gs.sptbr_valid = TRUE]
      <4> HIDE DEF b
      <4>2. Base(s, c)
        BY <1>3 DEF Base, Same, SrvShape, SrvFields, GsFields
      <4>3. Advance(c, p, P, t)
        BY <1>4, <3>3, <4>1 DEF Advance, Same, SrvShape, SrvFields, GsFields
      <4> HIDE DEF c, P
      <4> QED BY <1>8, <2>5, <3>2, <4>2, <4>3
    <3>5. CASE o.reg = "bad"
      <4>1. t = b
        BY <1>12, <3>1, <3>5 DEF register_write_op, u
      <4> HIDE DEF b, P
      <4> QED BY <1>3, <1>8, <2>5, <3>2, <3>3, <4>1
    <3> QED BY <2>5, <3>4, <3>5
  <2>6. CASE o.reg = "priv"
    <3> DEFINE b == [u EXCEPT !.gs.dcsr.prv = IF o.val = 0 THEN "U" ELSE "M"]
    <3>1. t = Done(b)
      BY <1>12, <2>6 DEF register_write_op, u
    <3>2. Base(s, b)
      BY <1>3 DEF Base, Same, SrvShape, SrvFields, GsFields
    <3> HIDE DEF b
    <3> QED BY <1>9, <3>1, <3>2
  <2>7. CASE o.reg \notin {"s0", "s1", "x", "pc", "f", "mstatus", "sptbr", "bad", "priv"}
    <3>1. t = Done(send_packet(u, "E02"))
      BY <1>12, <2>7 DEF register_write_op, u
    <3> QED BY <1>3, <1>10, <3>1 DEF Answers
  <2> QED BY <2>1, <2>2, <2>3, <2>4, <2>5, <2>6, <2>7
<1> QED BY <1>11, <1>12

LEMMA CollectStep ==
  ASSUME NEW s, NEW h, NEW g, NEW w, Ready(s, h, g, w), NEW v, SameRegs(w, v),
         NEW o, o = s.queue[1], o.op = "collect", NEW t, t = collect_translation_info_op(s, o)
  PROVE  Performed(s, t, h, g, w, v)
<1>0. IsOp(o) /\ SrvShape(s) /\ Base(s, s)
  BY HeadOp DEF Ready
<1>1. DOMAIN o = {"op", "step", "addr", "state", "pte_addr"} /\ o.step \in Nat
  BY <1>0 DEF IsOp, OpFields
<1> DEFINE b == [s EXCEPT !.gs.sptbr = s.ram.d0, !.gs.sptbr_valid = TRUE]
           c == [s EXCEPT !.gs.pte_cache =
                   [a \in DOMAIN @ \cup {o.pte_addr} |->
                      IF a = o.pte_addr THEN s.ram.d0 ELSE @[a]]]
           u == CASE o.state = "START" -> s
                  [] o.state = "READ_SPTBR" -> b
                  [] OTHER -> c
           r == Walk(u.gs.pte_cache, u.gs.sptbr, o.addr)
<1>2. Base(s, b)
  BY <1>0 DEF Base, Same, SrvShape, SrvFields, GsFields
<1>3. Base(s, c)
  BY <1>0 DEF Base, Same, SrvShape, SrvFields, GsFields
<1>4. t = IF o.step = 0 /\ ~virtual_memory(s) THEN Done(s)
          ELSE IF ~u.gs.sptbr_valid
          THEN Again(Post(u, <<csrr("s0", "sptbr"), dr_store("s0", "d0")>>),
                     [o EXCEPT !.state = "READ_SPTBR"])
          ELSE IF r[1] = "missing"
          THEN Again(Slot(Post(u, <<dr_load("s0", "d0"), ld("s1", "s0"),
                                    dr_store("s1", "d0")>>), "d0", r[2]),
                     [o EXCEPT !.state = "READ_PTE", !.pte_addr = r[2]])
          ELSE Done(u)
  BY DEF collect_translation_info_op
<1> HIDE DEF b, c
<1>5. Base(s, u)
  <2>1. CASE o.state = "START"
    BY <1>0, <2>1
  <2>2. CASE o.state = "READ_SPTBR"
    BY <1>2, <2>2
  <2>3. CASE o.state \notin {"START", "READ_SPTBR"}
    BY <1>3, <2>3
  <2> QED BY <2>1, <2>2, <2>3
<1> HIDE DEF u
<1>6. SrvShape(u)
  BY <1>5 DEF Base
<1>7. ASSUME NEW n, n.op = "collect", n.addr = o.addr, n.step = o.step, DOMAIN n = DOMAIN o,
             NEW P, AllCalm(P), Advance(u, Stepped(n), P, t)
      PROVE  Performed(s, t, h, g, w, v)
  <2>1. IsOp(n)
    BY <1>0, <1>1, <1>7, NextOp
  <2> DEFINE p == Stepped(n)
  <2>2. IsOp(p) /\ p.op = s.queue[1].op /\ p.step > 0 /\ p.addr = s.queue[1].addr
    BY <1>1, <1>7, <2>1, SteppedOp
  <2>3. Advance(u, p, P, t)
    BY <1>7
  <2>4. p.op = "collect"
    BY <2>2
  <2> HIDE DEF p
  <2>5. Ordinary(p) /\ p.op \notin {"mread", "mwrite"}
    BY <2>4 DEF Ordinary
  <2> QED BY <1>5, <1>7, <2>2, <2>3, <2>5, AdvanceCalm
<1>8. CASE o.step = 0 /\ ~virtual_memory(s)
  <2>1. t = Done(s)
    BY <1>4, <1>8
  <2>2. ~Uncollected(s, o.addr)
    BY <1>8 DEF Uncollected
  <2> QED BY <1>0, <2>1, <2>2, FinishSilent
<1>9. CASE ~(o.step = 0 /\ ~virtual_memory(s)) /\ ~u.gs.sptbr_valid
  <2> DEFINE n == [o EXCEPT !.state = "READ_SPTBR"]
             P == <<csrr("s0", "sptbr"), dr_store("s0", "d0")>>
  <2>1. t = Again(Post(u, P), n)
    BY <1>4, <1>9
  <2>2. n.op = "collect" /\ n.addr = o.addr /\ n.step = o.step /\ DOMAIN n = DOMAIN o
    BY <1>1
  <2>3. AllCalm(P)
    BY CalmPrograms
  <2> HIDE DEF n, P
  <2>4. Advance(u, Stepped(n), P, t)
    BY <1>6, <2>1, AgainPost
  <2> QED BY <1>7, <2>2, <2>3, <2>4
<1>10. CASE ~(o.step = 0 /\ ~virtual_memory(s)) /\ u.gs.sptbr_valid /\ r[1] = "missing"
  <2> DEFINE n == [o EXCEPT !.state = "READ_PTE", !.pte_addr = r[2]]
             P == <<dr_load("s0", "d0"), ld("s1", "s0"), dr_store("s1", "d0")>>
  <2>1. t = Again(Slot(Post(u, P), "d0", r[2]), n)
    BY <1>4, <1>10
  <2>2. n.op = "collect" /\ n.addr = o.addr /\ n.step = o.step /\ DOMAIN n = DOMAIN o
    BY <1>1
  <2>3. AllCalm(P)
    BY CalmPrograms
  <2> DEFINE d == r[2]
  <2> HIDE DEF n, P, d
  <2>a. t = Again(Slot(Post(u, P), "d0", d), n)
    BY <2>1 DEF d
  <2>4. Advance(u, Stepped(n), P, t)
    BY <1>6, <2>a, AgainSlotPost
  <2> QED BY <1>7, <2>2, <2>3, <2>4
<1>11. CASE ~(o.step = 0 /\ ~virtual_memory(s)) /\ u.gs.sptbr_valid /\ r[1] # "missing"
  <2>1. t = Done(u)
    BY <1>4, <1>11
  <2>2. ~Uncollected(u, o.addr)
    BY <1>11 DEF Uncollected
  <2> QED BY <1>5, <2>1, <2>2, FinishSilent
<1> QED BY <1>8, <1>9, <1>10, <1>11

LEMMA MreadStep ==
  ASSUME NEW s, NEW h, NEW g, NEW w, Ready(s, h, g, w), NEW v, SameRegs(w, v),
         NEW o, o = s.queue[1], o.op = "mread", NEW t, t = memory_read_op(s, o)
  PROVE  Performed(s, t, h, g, w, v)
<1>0. /\ IsOp(o) /\ SrvShape(s) /\ Base(s, s)
      /\ o.step > 0 => PostedBy(s, o)
  BY HeadOp DEF Ready
<1>1. DOMAIN o = {"op", "step", "addr", "len", "bp", "paddr"} /\ o.step \in Nat
  BY <1>0 DEF IsOp, OpFields
<1>2. ~Uncollected(s, o.addr)
  BY DEF Ready, Core, Known
<1>3. ASSUME NEW u, Base(s, u), u.gs = s.gs, NEW n, n.op = "mread", n.addr = o.addr,
             n.step = o.step, DOMAIN n = DOMAIN o,
             NEW P, AllCalm(P), Advance(u, Stepped(n), P, t)
      PROVE  Performed(s, t, h, g, w, v)
  <2>1. IsOp(n)
    BY <1>0, <1>1, <1>3, NextOp
  <2> DEFINE p == Stepped(n)
  <2>2. IsOp(p) /\ p.op = s.queue[1].op /\ p.step > 0 /\ p.addr = s.queue[1].addr
    BY <1>1, <1>3, <2>1, SteppedOp
  <2>3. Advance(u, p, P, t)
    BY <1>3
  <2>4. p.op = "mread"
    BY <2>2
  <2> HIDE DEF p
  <2>5. Ordinary(p)
    BY <2>4 DEF Ordinary
  <2> QED BY <1>3, <2>2, <2>3, <2>5, AdvanceCalm
<1>4. CASE o.step = 0
  <2> DEFINE pa == translate(s, o.addr)
             n == [o EXCEPT !.paddr = pa]
             P == <<dr_load("s0", "d0"), ld("s1", "s0"), dr_store("s1", "d1")>>
  <2>1. t = Again(Slot(Post(s, P), "d0", pa), n)
    BY <1>2, <1>4 DEF memory_read_op
  <2>2. n.op = "mread" /\ n.addr = o.addr /\ n.step = o.step /\ DOMAIN n = DOMAIN o
    BY <1>1
  <2>3. AllCalm(P)
    BY CalmPrograms
  <2> HIDE DEF pa, n, P
  <2>4. Advance(s, Stepped(n), P, t)
    BY <1>0, <2>1, AgainSlotPost
  <2> QED BY <1>0, <1>3, <2>2, <2>3, <2>4
<1>5. CASE o.step # 0 /\ s.ram.status # 0
  <2>1. t = Done(send_packet(s, "E99"))
    BY <1>5 DEF memory_read_op
  <2> QED BY <1>0, <2>1, FinishAnswer DEF Answers
<1>6. CASE o.step # 0 /\ s.ram.status = 0
  <2> DEFINE b == [s EXCEPT !.software_breakpoints[o.bp] = s.ram.d1]
             u == IF o.bp = NoBp THEN s ELSE b
  <2>1. Base(s, b) /\ b.gs = s.gs /\ b.ram = s.ram
    BY <1>0 DEF Base, Same, SrvShape, SrvFields
  <2>2. t = IF o.len = 1
            THEN Done(IF o.bp = NoBp THEN send_packet(u, "data") ELSE u)
            ELSE Again(Slot([u EXCEPT !.intr = TRUE], "d0", o.paddr + 1),
                       [o EXCEPT !.paddr = @ + 1, !.len = @ - 1])
    BY <1>6 DEF memory_read_op
  <2> HIDE DEF b
  <2>3. Base(s, u) /\ u.gs = s.gs /\ u.ram = s.ram
    BY <1>0, <2>1
  <2> HIDE DEF u
  <2>4. CASE o.len = 1
    <3>1. t = Done(send_packet(u, "data")) \/ t = Done(u)
      BY <2>2, <2>4
    <3>2. CASE t = Done(send_packet(u, "data"))
      BY <2>3, <3>2, FinishAnswer DEF Answers
    <3>3. CASE t = Done(u)
      BY <2>3, <3>3, FinishSilent
    <3> QED BY <3>1, <3>2, <3>3
  <2>5. CASE o.len # 1
    <3> DEFINE n == [o EXCEPT !.paddr = @ + 1, !.len = @ - 1]
               d == o.paddr + 1
               P == u.ram.prog
    <3>1. t = Again(Slot([u EXCEPT !.intr = TRUE], "d0", d), n)
      BY <2>2, <2>5
    <3>2. n.op = "mread" /\ n.addr = o.addr /\ n.step = o.step /\ DOMAIN n = DOMAIN o
      BY <1>1
    <3>3. AllCalm(P)
      BY <1>0, <1>1, <1>6, <2>3 DEF PostedBy
    <3>4. SrvShape(u)
      BY <2>3 DEF Base
    <3> HIDE DEF n, d
    <3>5. Advance(u, Stepped(n), P, t)
      BY <3>1, <3>4, AgainSlotIntr
    <3> HIDE DEF P
    <3> QED BY <1>3, <2>3, <3>2, <3>3, <3>5
  <2> QED BY <2>4, <2>5
<1> QED BY <1>4, <1>5, <1>6

LEMMA MwriteStep ==
  ASSUME NEW s, NEW h, NEW g, NEW w, Ready(s, h, g, w), NEW v, SameRegs(w, v),
         NEW o, o = s.queue[1], o.op = "mwrite", NEW t, t = memory_write_op(s, o)
  PROVE  Performed(s, t, h, g, w, v)
<1>0. /\ IsOp(o) /\ SrvShape(s) /\ Base(s, s)
      /\ o.step > 0 => PostedBy(s, o)
  BY HeadOp DEF Ready
<1>1. DOMAIN o = {"op", "step", "addr", "data", "user"} /\ o.step \in Nat
  BY <1>0 DEF IsOp, OpFields
<1>2. ~Uncollected(s, o.addr)
  BY DEF Ready, Core, Known
<1> DEFINE p == Stepped(o)
<1>3. /\ IsOp(p) /\ p.op = "mwrite" /\ p.op = s.queue[1].op /\ p.step > 0
      /\ p.addr = s.queue[1].addr
  BY <1>0, <1>1, SteppedOp
<1> HIDE DEF p
<1>4. ASSUME NEW P, AllCalm(P), Advance(s, p, P, t)
      PROVE  Performed(s, t, h, g, w, v)
  <2>1. Ordinary(p)
    BY <1>3 DEF Ordinary
  <2> QED BY <1>0, <1>3, <1>4, <2>1, AdvanceCalm
<1>5. CASE o.step = 0
  <2> DEFINE pa == translate(s, o.addr)
             d == o.data[1]
             P == <<dr_load("s0", "d0"), dr_load("s1", "d1"), sd("s1", "s0")>>
  <2>1. t = Again(Slot(Slot(Post(s, P), "d1", d), "d0", pa), o)
    BY <1>2, <1>5 DEF memory_write_op
  <2>2. AllCalm(P)
    BY CalmPrograms
  <2> HIDE DEF pa, d, P
  <2>3. Advance(s, p, P, t)
    BY <1>0, <2>1, AgainSlotsPost DEF p
  <2> QED BY <1>4, <2>2, <2>3
<1>6. CASE o.step # 0 /\ s.ram.status # 0
  <2>1. t = Done(send_packet(s, "E98"))
    BY <1>2, <1>6 DEF memory_write_op
  <2> QED BY <1>0, <2>1, FinishAnswer DEF Answers
<1>7. CASE o.step # 0 /\ s.ram.status = 0 /\ o.step >= Len(o.data)
  <2>1. t = Done(send_packet(s, "OK"))
    BY <1>2, <1>7 DEF memory_write_op
  <2> QED BY <1>0, <2>1, FinishAnswer DEF Answers
<1>8. CASE o.step # 0 /\ s.ram.status = 0 /\ ~(o.step >= Len(o.data))
  <2> DEFINE pa == translate(s, o.addr) + o.step
             d == o.data[o.step + 1]
             P == s.ram.prog
  <2>1. t = Again(Slot(Slot([s EXCEPT !.intr = TRUE], "d1", d), "d0", pa), o)
    BY <1>2, <1>8 DEF memory_write_op
  <2>2. AllCalm(P)
    BY <1>0, <1>1, <1>8 DEF PostedBy
  <2> HIDE DEF pa, d
  <2>3. Advance(s, p, P, t)
    BY <1>0, <2>1, AgainSlotsIntr DEF p
  <2> HIDE DEF P
  <2> QED BY <1>4, <2>2, <2>3
<1> QED BY <1>5, <1>6, <1>7, <1>8

LEMMA HwinsertStep ==
  ASSUME NEW s, NEW h, NEW g, NEW w, Ready(s, h, g, w), NEW v, SameRegs(w, v),
         NEW o, o = s.queue[1], o.op = "hwinsert", NEW t, t = hardware_breakpoint_insert_op(s, o)
  PROVE  Performed(s, t, h, g, w, v)
<1>0. IsOp(o) /\ SrvShape(s) /\ Base(s, s)
  BY HeadOp DEF Ready
<1>1. DOMAIN o = {"op", "step", "state", "addr", "index"} /\ o.step \in Nat
  BY <1>0 DEF IsOp, OpFields
<1>2. ASSUME NEW n, n.op = "hwinsert", n.step = o.step, DOMAIN n = DOMAIN o,
             NEW P, AllCalm(P), Advance(s, Stepped(n), P, t)
      PROVE  Performed(s, t, h, g, w, v)
  <2>1. IsOp(n)
    BY <1>0, <1>1, <1>2, NextOp
  <2> DEFINE p == Stepped(n)
  <2>2. IsOp(p) /\ p.op = s.queue[1].op /\ p.step > 0
    BY <1>1, <1>2, <2>1, SteppedOp
  <2>3. Advance(s, p, P, t)
    BY <1>2
  <2>4. p.op = "hwinsert"
    BY <2>2
  <2> HIDE DEF p
  <2>5. Ordinary(p) /\ p.op \notin {"collect", "mread", "mwrite"}
    BY <2>4 DEF Ordinary
  <2> QED BY <1>0, <1>2, <2>2, <2>3, <2>5, AdvanceCalm
<1>3. CASE o.state = "START"
  <2> DEFINE n == [o EXCEPT !.state = "CHECK_INDEX", !.index = 0]
             P == index_program
  <2>1. t = Again(Slot(Post(s, P), "d1", 0), n)
    BY <1>3 DEF hardware_breakpoint_insert_op
  <2>2. n.op = "hwinsert" /\ n.step = o.step /\ DOMAIN n = DOMAIN o
    BY <1>1
  <2>3. AllCalm(P)
    BY CalmPrograms
  <2> HIDE DEF n, P
  <2>4. Advance(s, Stepped(n), P, t)
    BY <1>0, <2>1, AgainSlotPost
  <2> QED BY <1>2, <2>2, <2>3, <2>4
<1>4. CASE o.state = "CHECK_INDEX"
  <2>1. CASE s.ram.d1 # o.index
    <3>1. t = Done(send_packet(s, "E58"))
      BY <1>4, <2>1 DEF hardware_breakpoint_insert_op
    <3> QED BY <1>0, <3>1, FinishAnswer DEF Answers
  <2>2. CASE s.ram.d1 = o.index
    <3> DEFINE n == [o EXCEPT !.state = "CHECK_MCONTROL"]
               P == <<csrr("s0", "tdata1"), dr_store("s0", "d0")>>
    <3>1. t = Again(Post(s, P), n)
      BY <1>4, <2>2 DEF hardware_breakpoint_insert_op
    <3>2. n.op = "hwinsert" /\ n.step = o.step /\ DOMAIN n = DOMAIN o
      BY <1>1
    <3>3. AllCalm(P)
      BY CalmPrograms
    <3> HIDE DEF n, P
    <3>4. Advance(s, Stepped(n), P, t)
      BY <1>0, <3>1, AgainPost
    <3> QED BY <1>2, <3>2, <3>3, <3>4
  <2> QED BY <2>1, <2>2
<1>5. CASE o.state = "CHECK_MCONTROL"
  <2>1. CASE s.ram.d0 = 0
    <3> DEFINE n == [o EXCEPT !.state = "WRITE_ADDRESS"]
               P == <<dr_load("s0", "d1"), csrw("s0", "tdata1")>>
    <3>1. t = Again(Slot(Post(s, P), "d1", 1), n)
      BY <1>5, <2>1 DEF hardware_breakpoint_insert_op
    <3>2. n.op = "hwinsert" /\ n.step = o.step /\ DOMAIN n = DOMAIN o
      BY <1>1
    <3>3. AllCalm(P)
      BY CalmPrograms
    <3> HIDE DEF n, P
    <3>4. Advance(s, Stepped(n), P, t)
      BY <1>0, <3>1, AgainSlotPost
    <3> QED BY <1>2, <3>2, <3>3, <3>4
  <2>2. CASE s.ram.d0 # 0
    <3> DEFINE n == [o EXCEPT !.state = "CHECK_INDEX", !.index = @ + 1]
               P == index_program
               d == o.index + 1
    <3>1. t = Again(Slot(Post(s, P), "d1", d), n)
      BY <1>5, <2>2 DEF hardware_breakpoint_insert_op
    <3>2. n.op = "hwinsert" /\ n.step = o.step /\ DOMAIN n = DOMAIN o
      BY <1>1
    <3>3. AllCalm(P)
      BY CalmPrograms
    <3> HIDE DEF n, P, d
    <3>4. Advance(s, Stepped(n), P, t)
      BY <1>0, <3>1, AgainSlotPost
    <3> QED BY <1>2, <3>2, <3>3, <3>4
  <2> QED BY <2>1, <2>2
<1>6. CASE o.state \notin {"START", "CHECK_INDEX", "CHECK_MCONTROL"}
  <2> DEFINE b == [s EXCEPT !.hardware_breakpoints =
                     [a \in DOMAIN @ \cup {o.addr} |-> IF a = o.addr THEN o.index ELSE @[a]]]
             u == IF o.addr \in DOMAIN s.hardware_breakpoints THEN s ELSE b
             P == <<dr_load("s0", "d1"), csrw("s0", "tdata2")>>
             d == o.addr
  <2>1. t = Done(send_packet(Slot(Post(u, P), "d1", d), "OK"))
    BY <1>6 DEF hardware_breakpoint_insert_op
  <2>2. Base(s, b)
    BY <1>0 DEF Base, Same, SrvShape, SrvFields
  <2> HIDE DEF b
  <2>3. Base(s, u)
    BY <1>0, <2>2
  <2>4. AllCalm(P)
    BY CalmPrograms
  <2> HIDE DEF u, P, d
  <2>5. FinishPost(u, P, t)
    BY <2>1, <2>3, DoneSlotPost DEF Base
  <2> QED BY <2>3, <2>4, <2>5, FinishPostCore
<1> QED BY <1>3, <1>4, <1>5, <1>6

LEMMA HwremoveStep ==
  ASSUME NEW s, NEW h, NEW g, NEW w, Ready(s, h, g, w), NEW v, SameRegs(w, v),
         NEW o, o = s.queue[1], o.op = "hwremove", NEW t, t = hardware_breakpoint_remove_op(s, o)
  PROVE  Performed(s, t, h, g, w, v)
<1>0. SrvShape(s) /\ Base(s, s)
  BY HeadOp DEF Ready
<1> DEFINE P == <<addi("s0", "zero", o.index), csrw("s0", "tselect"), csrw("zero", "tdata1")>>
<1>1. t = Done(Post(s, P))
  BY DEF hardware_breakpoint_remove_op
<1>2. AllCalm(P)
  BY CalmPrograms
<1> HIDE DEF P
<1>3. FinishPost(s, P, t)
  BY <1>0, <1>1, DonePost
<1> QED BY <1>0, <1>2, <1>3, FinishPostCore

LEMMA TselectStep ==
  ASSUME NEW s, NEW h, NEW g, NEW w, Ready(s, h, g, w), NEW v, SameRegs(w, v),
         NEW o, o = s.queue[1], NEW t,
         \/ o.op = "stselect" /\ t = maybe_save_tselect_op(s, o)
         \/ o.op = "rtselect" /\ t = maybe_restore_tselect_op(s, o)
         \/ o.op = "rmstatus" /\ t = maybe_restore_mstatus_op(s, o)
  PROVE  Performed(s, t, h, g, w, v)
<1>0. IsOp(o) /\ SrvShape(s) /\ Base(s, s)
  BY HeadOp DEF Ready
<1>1. ASSUME NEW u, Base(s, u), t = Done(u), o.op \in {"stselect", "rtselect", "rmstatus"}
      PROVE  Performed(s, t, h, g, w, v)
  BY <1>1, FinishSilent
<1>2. CASE o.op = "stselect" /\ t = maybe_save_tselect_op(s, o)
  <2> DEFINE P == <<csrr("s0", "tdata1"), dr_store("s0", "d0")>>
             u == [s EXCEPT !.gs.tselect = s.ram.d0, !.gs.tselect_valid = TRUE]
             p == Stepped(o)
  <2>1. t = Done(s) \/ t = Again(Post(s, P), o) \/ t = Done(u)
    BY <1>2 DEF maybe_save_tselect_op
  <2>2. Base(s, u)
    BY <1>0 DEF Base, Same, SrvShape, SrvFields, GsFields
  <2> HIDE DEF u
  <2>3. CASE t = Done(s) \/ t = Done(u)
    BY <1>0, <1>1, <1>2, <2>2, <2>3
  <2>4. CASE t = Again(Post(s, P), o)
    <3>1. IsOp(p) /\ p.op = "stselect" /\ p.op = s.queue[1].op /\ p.step > 0
      BY <1>0, <1>2, SteppedOp
    <3>2. AllCalm(P)
      BY CalmPrograms
    <3> HIDE DEF P
    <3>3. Advance(s, p, P, t)
      BY <1>0, <2>4, AgainPost
    <3> HIDE DEF p
    <3>4. Ordinary(p) /\ p.op \notin {"collect", "mread", "mwrite"}
      BY <3>1 DEF Ordinary
    <3> QED BY <1>0, <3>1, <3>2, <3>3, <3>4, AdvanceCalm
  <2> QED BY <2>1, <2>3, <2>4
<1>3. CASE o.op = "rtselect" /\ t = maybe_restore_tselect_op(s, o)
  <2> DEFINE u == [Slot(s, "d1", s.gs.tselect)
                     EXCEPT !.ram.prog = <<dr_load("s0", "d1"), csrw("s0", "tselect")>>]
  <2>1. t = Done(s) \/ t = Done(u)
    BY <1>3 DEF maybe_restore_tselect_op
  <2>2. Base(s, u)
    BY <1>0 DEF Base, Same, Slot, SrvShape, SrvFields, RamFields
  <2> HIDE DEF u
  <2> QED BY <1>0, <1>1, <1>3, <2>1, <2>2
<1>4. CASE o.op = "rmstatus" /\ t = maybe_restore_mstatus_op(s, o)
  <2> DEFINE u == [Slot(s, "d1", s.gs.mstatus)
                     EXCEPT !.ram.prog = <<dr_load("s0", "d1"), csrw("s0", "mstatus")>>]
  <2>1. t = Done(s) \/ t = Done(u)
    BY <1>4 DEF maybe_restore_mstatus_op
  <2>2. Base(s, u)
    BY <1>0 DEF Base, Same, Slot, SrvShape, SrvFields, RamFields
  <2> HIDE DEF u
  <2> QED BY <1>0, <1>1, <1>4, <2>1, <2>2
<1> QED BY <1>2, <1>3, <1>4

LEMMA PerformStep ==
  ASSUME NEW s, NEW h, NEW g, NEW w, Ready(s, h, g, w), NEW v, SameRegs(w, v),
         NEW t, t = perform_step(s)
  PROVE  Performed(s, t, h, g, w, v)
<1> DEFINE o == s.queue[1]
<1>0. IsOp(o) /\ Head(s.queue) = o /\ o = s.queue[1]
  BY HeadOp
<1>1. o.op \in OpNames
  BY <1>0 DEF IsOp
<1> HIDE DEF o
<1>2. t = CASE o.op = "halt" -> halt_op(s, o)
            [] o.op = "continue" -> continue_op(s, o)
            [] o.op = "gread" -> general_registers_read_op(s, o)
            [] o.op = "rread" -> register_read_op(s, o)
            [] o.op = "rwrite" -> register_write_op(s, o)
            [] o.op = "collect" -> collect_translation_info_op(s, o)
            [] o.op = "mread" -> memory_read_op(s, o)
            [] o.op = "mwrite" -> memory_write_op(s, o)
            [] o.op = "hwinsert" -> hardware_breakpoint_insert_op(s, o)
            [] o.op = "hwremove" -> hardware_breakpoint_remove_op(s, o)
            [] o.op = "stselect" -> maybe_save_tselect_op(s, o)
            [] o.op = "rtselect" -> maybe_restore_tselect_op(s, o)
            [] OTHER -> maybe_restore_mstatus_op(s, o)
  BY <1>0 DEF perform_step
<1>3. CASE o.op = "halt"
  BY <1>0, <1>2, <1>3, HaltStep
<1>4. CASE o.op = "continue"
  BY <1>0, <1>2, <1>4, ContinueStep
<1>5. CASE o.op = "gread"
  BY <1>0, <1>2, <1>5, GreadStep
<1>6. CASE o.op = "rread"
  BY <1>0, <1>2, <1>6, RreadStep
<1>7. CASE o.op = "rwrite"
  BY <1>0, <1>2, <1>7, RwriteStep
<1>8. CASE o.op = "collect"
  BY <1>0, <1>2, <1>8, CollectStep
<1>9. CASE o.op = "mread"
  BY <1>0, <1>2, <1>9, MreadStep
<1>10. CASE o.op = "mwrite"
  BY <1>0, <1>2, <1>10, MwriteStep
<1>11. CASE o.op = "hwinsert"
  BY <1>0, <1>2, <1>11, HwinsertStep
<1>12. CASE o.op = "hwremove"
  BY <1>0, <1>2, <1>12, HwremoveStep
<1>13. CASE o.op \in {"stselect", "rtselect", "rmstatus"}
  BY <1>0, <1>2, <1>13, TselectStep
<1> QED BY <1>1, <1>3, <1>4, <1>5, <1>6, <1>7, <1>8, <1>9, <1>10, <1>11, <1>12, <1>13
        DEF OpNames, ResumeOps

-----------------------------------------------------------------------------
(* The other parts of handle().                                            *)

LEMMA CoreRegs ==
  ASSUME NEW s, NEW h, NEW g, NEW w, Core(s, h, g, w), NEW v, SameRegs(w, v)
  PROVE  Core(s, h, g, v)
<1>1. Fetched(s, h, v)
  BY DEF Core, Fetched, FetchedBy, SameRegs
<1>2. Kept(s, h, v)
  BY DEF Core, Kept, SameRegs
<1> QED BY <1>1, <1>2 DEF Core, SameRegs

LEMMA OpStepCore ==
  ASSUME NEW s, NEW h, NEW g, NEW w, Core(s, h, g, w), s.client, NEW v, SameRegs(w, v),
         NEW t, t = OpStep(s)
  PROVE  Truthful(s, t, h, g, w, v)
<1>1. CASE s.intr \/ s.queue = <<>>
  <2>1. t = s
    BY <1>1 DEF OpStep
  <2> QED BY <2>1, CoreRegs DEF Truthful
<1>2. CASE ~(s.intr \/ s.queue = <<>>)
  <2>1. t = perform_step(s) /\ Ready(s, h, g, w)
    BY <1>2 DEF OpStep, Ready
  <2>2. Performed(s, t, h, g, w, v)
    BY <2>1, PerformStep
  <2> QED BY <2>2 DEF Performed
<1> QED BY <1>1, <1>2

LEMMA RequestOps ==
  /\ \A b : IsOp(HaltOp(b)) /\ HaltOp(b).op = "halt" /\ HaltOp(b).step = 0
  /\ \A b : IsOp(ContinueOp(b)) /\ ContinueOp(b).op = "continue" /\ ContinueOp(b).step = 0
  /\ \A a : /\ IsOp(CollectOp(a)) /\ CollectOp(a).op = "collect" /\ CollectOp(a).step = 0
            /\ CollectOp(a).addr = a
  /\ \A a, n, b : /\ IsOp(ReadOp(a, n, b)) /\ ReadOp(a, n, b).op = "mread"
                  /\ ReadOp(a, n, b).step = 0 /\ ReadOp(a, n, b).addr = a
  /\ \A a, d, u : /\ IsOp(WriteOp(a, d, u)) /\ WriteOp(a, d, u).op = "mwrite"
                  /\ WriteOp(a, d, u).step = 0 /\ WriteOp(a, d, u).addr = a
  /\ \A n \in {"rtselect", "rmstatus", "stselect"} :
        IsOp(Op(n)) /\ Op(n).op = n /\ Op(n).step = 0
<1>1. ASSUME NEW b PROVE IsOp(HaltOp(b)) /\ HaltOp(b).op = "halt" /\ HaltOp(b).step = 0
  BY DEF HaltOp, IsOp, OpFields, OpNames
<1>2. ASSUME NEW b
      PROVE  IsOp(ContinueOp(b)) /\ ContinueOp(b).op = "continue" /\ ContinueOp(b).step = 0
  BY DEF ContinueOp, IsOp, OpFields, OpNames, ResumeOps
<1>3. ASSUME NEW a PROVE /\ IsOp(CollectOp(a)) /\ CollectOp(a).op = "collect"
                         /\ CollectOp(a).step = 0 /\ CollectOp(a).addr = a
  BY DEF CollectOp, IsOp, OpFields, OpNames
<1>4. ASSUME NEW a, NEW n, NEW b
      PROVE  /\ IsOp(ReadOp(a, n, b)) /\ ReadOp(a, n, b).op = "mread"
             /\ ReadOp(a, n, b).step = 0 /\ ReadOp(a, n, b).addr = a
  BY DEF ReadOp, IsOp, OpFields, OpNames
<1>5. ASSUME NEW a, NEW d, NEW u
      PROVE  /\ IsOp(WriteOp(a, d, u)) /\ WriteOp(a, d, u).op = "mwrite"
             /\ WriteOp(a, d, u).step = 0 /\ WriteOp(a, d, u).addr = a
  BY DEF WriteOp, IsOp, OpFields, OpNames
<1>6. ASSUME NEW n \in {"rtselect", "rmstatus", "stselect"}
      PROVE  IsOp(Op(n)) /\ Op(n).op = n /\ Op(n).step = 0
  BY DEF Op, IsOp, OpFields, OpNames, ResumeOps
<1> QED BY <1>1, <1>2, <1>3, <1>4, <1>5, <1>6

(* A halt is queued: on a halt notification, and for a new client.          *)
LEMMA HaltQueued ==
  ASSUME NEW s, NEW h, NEW g, NEW w, Core(s, h, g, w), NEW t, SrvShape(t),
         Same(s, t, {"queue", "haltnot", "client"}), NEW b,
         t.queue = Append(s.queue, HaltOp(b)), t.client, t.haltnot => s.haltnot
  PROVE  Core(t, h, g, w)
<1> DEFINE o == HaltOp(b)  q == t.queue
<1>0. /\ t.recv = s.recv /\ t.send = s.send /\ t.gs = s.gs /\ t.ram = s.ram
      /\ t.intr = s.intr /\ (t.dead <=> s.dead)
      /\ t.software_breakpoints = s.software_breakpoints
  BY DEF Same, SrvFields
<1>a. IsOp(o) /\ o.op = "halt" /\ o.step = 0 /\ Chain(s.queue) /\ q = Append(s.queue, o)
  BY RequestOps DEF Core
<1> HIDE DEF o, q
<1>1. /\ Chain(q) /\ q # <<>> /\ HaltComing(q)
      /\ s.queue # <<>> => q[1] = s.queue[1]
      /\ s.queue = <<>> => q[1] = o
  <2> DEFINE p == s.queue
  <2>1. IsOp(o) /\ o.op = "halt" /\ o.step = 0 /\ Chain(p) /\ NewLast(p, o, q)
    BY <1>a DEF NewLast
  <2> HIDE DEF p
  <2>2. /\ Chain(q) /\ q # <<>> /\ HaltComing(q)
        /\ p # <<>> => q[1] = p[1]
        /\ p = <<>> => q[1] = o
    BY <2>1, ChainHalt
  <2> QED BY <2>2 DEF p
<1>2. Modes(t, h) /\ Kept(t, h, w)
  BY <1>0 DEF Core, Modes, Kept
<1>3. Posted(t, h)
  BY <1>0, <1>a, <1>1 DEF Core, Posted, PostedBy, release, q
<1>4. Fetched(t, h, w)
  BY <1>0, <1>a, <1>1 DEF Core, Fetched, FetchedBy, q
<1>5. Known(t)
  BY <1>0, <1>a, <1>1 DEF Core, Known, Uncollected, virtual_memory, q
<1>6. Held(t, h)
  BY <1>0, <1>a, <1>1 DEF Core, Held, Requested, release, q
<1>7. Wire(t, g) /\ Acks(t, g) /\ Inserted(t, g)
  <2>1. Packet(t) <=> Packet(s)
    BY <1>0 DEF Packet
  <2>2. Flight(t, g) = Flight(s, g)
    BY <1>0 DEF Flight
  <2> QED BY <1>0, <2>1, <2>2 DEF Core, Wire, Acks, Inserted
<1>8. Attended(t, h, g)
  BY <1>1 DEF Attended, Settled, q
<1> QED BY <1>1, <1>2, <1>3, <1>4, <1>5, <1>6, <1>7, <1>8 DEF Core, q

LEMMA NotifyCore ==
  ASSUME NEW s, NEW h, NEW g, NEW w, Core(s, h, g, w), s.client, NEW t, t = Notify(s)
  PROVE  /\ Core(t, h, g, w) /\ t.client /\ t.send = s.send
         /\ t.haltnot => t.queue # <<>>
<1>0. SrvShape(s)
  BY DEF Core
<1>1. CASE s.haltnot
  <2>1. t = add_operation([s EXCEPT !.haltnot = FALSE], HaltOp(TRUE))
    BY <1>1 DEF Notify
  <2> DEFINE o == HaltOp(TRUE)
  <2> HIDE DEF o
  <2>2. /\ SrvShape(t) /\ Same(s, t, {"queue", "haltnot", "client"})
        /\ t.queue = Append(s.queue, o) /\ t.client = s.client /\ ~t.haltnot /\ t.send = s.send
    BY <1>0, <2>1 DEF add_operation, SrvShape, Same, SrvFields, o
  <2>3. t.queue = Append(s.queue, HaltOp(TRUE)) /\ t.client
    BY <2>2 DEF o
  <2> QED BY <2>2, <2>3, HaltQueued
<1>2. CASE ~s.haltnot
  BY <1>2 DEF Notify
<1> QED BY <1>1, <1>2

LEMMA AcceptCore ==
  ASSUME NEW s, NEW h, NEW w, Core(s, h, gdb, w), ~s.client, NEW t, t = accept(s)
  PROVE  /\ Core(t, h, gdb, w) /\ t.send = <<>>
         /\ t.client => t.queue # <<>>
<1>0. SrvShape(s) /\ s.send = <<>>
  BY DEF Core, Wire
<1>1. CASE gdb.link
  <2>1. t = add_operation([s EXCEPT !.client = TRUE], HaltOp(FALSE))
    BY <1>1 DEF accept
  <2> DEFINE o == HaltOp(FALSE)
  <2> HIDE DEF o
  <2>2. /\ SrvShape(t) /\ Same(s, t, {"queue", "haltnot", "client"})
        /\ t.queue = Append(s.queue, o) /\ t.client /\ t.haltnot = s.haltnot /\ t.send = s.send
    BY <1>0, <2>1 DEF add_operation, SrvShape, Same, SrvFields, o
  <2>3. t.queue = Append(s.queue, HaltOp(FALSE))
    BY <2>2 DEF o
  <2>4. Core(t, h, gdb, w)
    BY <2>2, <2>3, HaltQueued
  <2>5. t.queue # <<>>
    <3> DEFINE q == s.queue  r == t.queue
    <3>1. IsSeq(q) /\ r = Append(q, o)
      BY <2>2 DEF Core, Chain
    <3> HIDE DEF q, r
    <3>2. r # <<>>
      BY <3>1, IsSeqAppend
    <3> QED BY <3>2 DEF r
  <2> QED BY <1>0, <2>2, <2>4, <2>5
<1>2. CASE ~gdb.link
  BY <1>0, <1>2 DEF accept
<1> QED BY <1>1, <1>2

LEMMA TupleSeq ==
  /\ IsSeq(<<>>)
  /\ \A a : IsSeq(<<a>>) /\ Len(<<a>>) = 1 /\ <<a>>[1] = a
  /\ \A a, b : /\ IsSeq(<<a, b>>) /\ Len(<<a, b>>) = 2
               /\ <<a, b>>[1] = a /\ <<a, b>>[2] = b
  /\ \A a, b, c : /\ IsSeq(<<a, b, c>>) /\ Len(<<a, b, c>>) = 3
                  /\ <<a, b, c>>[1] = a /\ <<a, b, c>>[2] = b /\ <<a, b, c>>[3] = c
<1>1. IsSeq(<<>>)
  <2>1. <<>> \in Seq({1})
    OBVIOUS
  <2> QED BY <2>1, SeqIsSeq
<1>2. ASSUME NEW a PROVE IsSeq(<<a>>) /\ Len(<<a>>) = 1 /\ <<a>>[1] = a
  <2>1. <<a>> \in Seq({a})
    OBVIOUS
  <2> QED BY <2>1, SeqIsSeq
<1>3. ASSUME NEW a, NEW b
      PROVE  IsSeq(<<a, b>>) /\ Len(<<a, b>>) = 2 /\ <<a, b>>[1] = a /\ <<a, b>>[2] = b
  <2>1. <<a, b>> \in Seq({a, b})
    OBVIOUS
  <2> QED BY <2>1, SeqIsSeq
<1>4. ASSUME NEW a, NEW b, NEW c
      PROVE  /\ IsSeq(<<a, b, c>>) /\ Len(<<a, b, c>>) = 3
             /\ <<a, b, c>>[1] = a /\ <<a, b, c>>[2] = b /\ <<a, b, c>>[3] = c
  <2>1. <<a, b, c>> \in Seq({a, b, c})
    OBVIOUS
  <2> QED BY <2>1, SeqIsSeq
<1> QED BY <1>1, <1>2, <1>3, <1>4

(* The client has gone: what it sent and what it was to be sent is lost.    *)
LEMMA DropCore ==
  ASSUME NEW s, NEW h, NEW g, NEW w, Core(s, h, g, w), ~g.link, NEW t, SrvShape(t),
         Same(s, t, {"client", "recv", "send"}), ~t.client, t.recv = <<>>, t.send = <<>>
  PROVE  Core(t, h, g, w) /\ Quiet(t)
<1>0. /\ t.queue = s.queue /\ t.gs = s.gs /\ t.ram = s.ram
      /\ t.intr = s.intr /\ (t.dead <=> s.dead) /\ (t.haltnot <=> s.haltnot)
      /\ t.software_breakpoints = s.software_breakpoints
  BY DEF Same, SrvFields
<1>1. Modes(t, h) /\ Kept(t, h, w)
  BY <1>0 DEF Core, Modes, Kept
<1>2. Posted(t, h)
  BY <1>0 DEF Core, Posted, PostedBy, release
<1>3. Fetched(t, h, w)
  BY <1>0 DEF Core, Fetched, FetchedBy
<1>4. Known(t)
  BY <1>0 DEF Core, Known, Uncollected, virtual_memory
<1>5. Held(t, h)
  BY <1>0 DEF Core, Held, release
<1>6. IsSeq(t.recv) /\ IsSeq(t.send) /\ Len(t.recv) = 0 /\ Len(t.send) = 0
  BY TupleSeq
<1>7. ~Packet(t) /\ ~Packet(s)
  BY DEF Packet, Core, Wire
<1>8. Wire(t, g)
  BY <1>6, <1>7 DEF Core, Wire
<1>9. Acks(t, g) /\ Attended(t, h, g)
  BY DEF Acks, Attended
<1>10. Inserted(t, g)
  BY <1>0, <1>7 DEF Core, Inserted
<1>11. Quiet(t)
  BY <1>6 DEF Quiet
<1>12. Chain(t.queue)
  BY <1>0 DEF Core
<1> QED BY <1>1, <1>2, <1>3, <1>4, <1>5, <1>8, <1>9, <1>10, <1>11, <1>12 DEF Core

LEMMA NothingAfter ==
  ASSUME NEW a, IsSeq(a)
  PROVE  a \o <<>> = a
<1> DEFINE S == {a[i] : i \in 1 .. Len(a)}
<1>1. a \in Seq(S)
  BY DEF IsSeq
<1> HIDE DEF S
<1> QED BY <1>1

(* What was to be sent is sent.                                            *)
Flushed(s, t, g, k) ==
    /\ SrvShape(t) /\ Same(s, t, {"send"}) /\ t.send = <<>>
    /\ GdbShape(k) /\ \A f \in GdbFields \ {"replies"} : k[f] = g[f]
    /\ k.replies = g.replies \o s.send

LEMMA FlushCore ==
  ASSUME NEW s, NEW h, NEW g, NEW w, Core(s, h, g, w), NEW t, NEW k, Flushed(s, t, g, k)
  PROVE  Core(t, h, k, w) /\ Quiet(t)
<1> USE DEF Flushed
<1>0. /\ t.queue = s.queue /\ t.gs = s.gs /\ t.ram = s.ram /\ t.recv = s.recv
      /\ t.intr = s.intr /\ (t.dead <=> s.dead) /\ (t.haltnot <=> s.haltnot)
      /\ (t.client <=> s.client) /\ t.software_breakpoints = s.software_breakpoints
  BY DEF Same, SrvFields
<1>k. /\ (k.link <=> g.link) /\ k.pending = g.pending /\ (k.acked <=> g.acked) /\ k.bps = g.bps
      /\ (k.stop <=> g.stop)
  BY DEF GdbFields
<1>1. Modes(t, h) /\ Kept(t, h, w)
  BY <1>0 DEF Core, Modes, Kept
<1>2. Posted(t, h)
  BY <1>0 DEF Core, Posted, PostedBy, release
<1>3. Fetched(t, h, w)
  BY <1>0 DEF Core, Fetched, FetchedBy
<1>4. Known(t)
  BY <1>0 DEF Core, Known, Uncollected, virtual_memory
<1>5. Held(t, h)
  BY <1>0 DEF Core, Held, release
<1>6. IsSeq(t.send) /\ Len(t.send) = 0
  BY TupleSeq
<1>7. IsSeq(k.replies)
  <2> DEFINE a == g.replies  b == s.send  c == a \o b
  <2>1. IsSeq(a) /\ IsSeq(b)
    BY DEF Core, Wire
  <2> HIDE DEF a, b
  <2>2. Joined(a, b, c)
    BY <2>1, IsSeqConcat
  <2> QED BY <2>2 DEF Joined, a, b
<1>8. Flight(t, k) = Flight(s, g)
  BY <1>7, NothingAfter DEF Flight
<1>9. (Packet(t) <=> Packet(s)) /\ (Packet(t) => t.recv[1] = s.recv[1])
  BY <1>0 DEF Packet
<1>10. Wire(t, k)
  BY <1>0, <1>6, <1>7, <1>9, <1>k DEF Core, Wire
<1>11. Acks(t, k)
  BY <1>8, <1>9, <1>k DEF Core, Acks
<1>12. (Stopped(t, k) <=> Stopped(s, g)) /\ (Consumed(t, k) <=> Consumed(s, g))
  BY <1>8, <1>9, <1>k DEF Stopped, Consumed
<1>13. Settled(s, h) => Settled(t, h)
  BY <1>0 DEF Settled, release
<1>14. Attended(t, h, k)
  BY <1>0, <1>12, <1>13, <1>k DEF Core, Attended
<1>15. Inserted(t, k)
  BY <1>0, <1>9, <1>k DEF Core, Inserted
<1>16. Quiet(t)
  BY <1>6 DEF Quiet
<1>17. Chain(t.queue)
  BY <1>0 DEF Core
<1> QED BY <1>1, <1>2, <1>3, <1>4, <1>5, <1>10, <1>11, <1>14, <1>15, <1>16, <1>17 DEF Core

LEMMA ChainTuples ==
  ASSUME NEW a, IsOp(a)
  PROVE  /\ a.op \notin {"rtselect", "rmstatus", "collect", "stselect"} => Chain(<<a>>)
         /\ \A b : IsOp(b) /\ Follow(a, b)
                   /\ b.op \notin {"rtselect", "rmstatus", "collect", "stselect"}
                   => Chain(<<a, b>>)
         /\ \A b, c : IsOp(b) /\ Follow(a, b) /\ IsOp(c) /\ Follow(b, c)
                      /\ c.op \notin {"rtselect", "rmstatus", "collect", "stselect"}
                      => Chain(<<a, b, c>>)
<1>1. ASSUME a.op \notin {"rtselect", "rmstatus", "collect", "stselect"} PROVE Chain(<<a>>)
  <2> DEFINE q == <<a>>
  <2>1. IsSeq(q) /\ Len(q) = 1 /\ q[1] = a
    BY TupleSeq
  <2> HIDE DEF q
  <2>2. Chain(q)
    BY <1>1, <2>1 DEF Chain
  <2> QED BY <2>2 DEF q
<1>2. ASSUME NEW b, IsOp(b), Follow(a, b),
             b.op \notin {"rtselect", "rmstatus", "collect", "stselect"}
      PROVE  Chain(<<a, b>>)
  <2> DEFINE q == <<a, b>>
  <2>1. IsSeq(q) /\ Len(q) = 2 /\ q[1] = a /\ q[2] = b
    BY TupleSeq
  <2> HIDE DEF q
  <2>2. Chain(q)
    BY <1>2, <2>1 DEF Chain
  <2> QED BY <2>2 DEF q
<1>3. ASSUME NEW b, NEW c, IsOp(b), Follow(a, b), IsOp(c), Follow(b, c),
             c.op \notin {"rtselect", "rmstatus", "collect", "stselect"}
      PROVE  Chain(<<a, b, c>>)
  <2> DEFINE q == <<a, b, c>>
  <2>1. IsSeq(q) /\ Len(q) = 3 /\ q[1] = a /\ q[2] = b /\ q[3] = c
    BY TupleSeq
  <2> HIDE DEF q
  <2>2. Chain(q)
    BY <1>3, <2>1 DEF Chain
  <2> QED BY <2>2 DEF q
<1> QED BY <1>1, <1>2, <1>3

-----------------------------------------------------------------------------
(* The requests.                                                           *)

(* Nothing is being done for the debugger.                                 *)
Idling(s, h, g, w) ==
    /\ Core(s, h, g, w)
    /\ s.queue = <<>> /\ s.send = <<>>
    /\ s.recv # <<>> => ~s.haltnot

Short(r) == r[1] \notin StopReplies \cup {"regs", "+", "-"}
Acknowledged(t, g) ==
    \/ t.send = <<<<"+">>>>
    \/ \E r : t.send = <<<<"+">>, r>> /\ Short(r)
    \/ t.send = <<<<"-">>>> /\ g.pending = "badsum"

(* The address the request to be looked at resumes from.                   *)
Target(s, pc) == IF s.recv[1].k = "c" /\ s.recv[1].addr # NoBp THEN s.recv[1].addr ELSE pc
SameGs(s, t) == /\ t.gs.xlen = s.gs.xlen /\ t.gs.mstatus = s.gs.mstatus
                /\ t.gs.dcsr = s.gs.dcsr /\ t.gs.dpc = Target(s, s.gs.dpc)

(* The operations of a request are queued.                                 *)
Requesting(s, t, g) ==
    /\ SrvShape(t)
    /\ Same(s, t, {"queue", "recv", "send", "gs", "software_breakpoints"})
    /\ t.recv = <<>> /\ Chain(t.queue) /\ Acknowledged(t, g)
    /\ t.queue # <<>> => t.queue[1].step = 0 /\ t.queue[1].op \notin {"mread", "mwrite"}
    /\ \A i \in 1 .. Len(t.queue) : t.queue[i].op # "halt"
    /\ Resuming(t.queue) <=> g.pending \in {"c", "s"}
    /\ DOMAIN t.gs.mstatus = MStatusFields
    /\ SameGs(s, t)
    /\ Inserted(t, g)

LEMMA RequestWire ==
  ASSUME NEW s, NEW h, NEW g, NEW w, Idling(s, h, g, w), Packet(s), NEW t,
         Requesting(s, t, g)
  PROVE  /\ Wire(t, g) /\ Acks(t, g) /\ Quiet(t)
         /\ Consumed(t, g) => ~Stopped(t, g) /\ g.pending \in {"c", "s"}
<1>0. t.client <=> s.client
  BY DEF Requesting, Same, SrvFields
<1>1. /\ g.link /\ g.pending # "none" /\ ~g.acked /\ s.client
      /\ IsSeq(g.replies) /\ Len(g.replies) \in Nat
  <2>1. s.recv # <<>>
    BY DEF Packet
  <2>2. IsSeq(g.replies)
    BY DEF Idling, Core, Wire
  <2>3. Len(g.replies) \in Nat
    BY <2>2, IsSeqEmpty
  <2> QED BY <2>1, <2>2, <2>3 DEF Idling, Core, Wire
<1> DEFINE e == g.replies  d == t.send  f == Flight(t, g)
<1>2. \A i \in 1 .. Len(e) : ~IsAck(e[i])
  <2>1. Flight(s, g) = g.replies
    BY <1>1, NothingAfter DEF Idling, Flight
  <2>2. \A i \in 1 .. Len(Flight(s, g)) : ~IsAck(Flight(s, g)[i])
    BY <1>1 DEF Idling, Core, Acks
  <2> QED BY <2>1, <2>2
<1>3. /\ IsSeq(d) /\ Len(d) \in 1 .. 2
      /\ d[1][1] \in {"+", "-"} /\ (d[1][1] = "-" => g.pending = "badsum")
      /\ Len(d) = 2 => Short(d[2])
  <2>1. CASE d = <<<<"+">>>>
    <3> DEFINE p == <<"+">>
    <3>1. p[1] = "+" /\ d = <<p>>
      BY <2>1
    <3> HIDE DEF p, d
    <3>2. IsSeq(d) /\ Len(d) = 1 /\ d[1] = p
      BY <3>1, TupleSeq
    <3> QED BY <3>1, <3>2
  <2>2. CASE d = <<<<"-">>>> /\ g.pending = "badsum"
    <3> DEFINE p == <<"-">>
    <3>1. p[1] = "-" /\ d = <<p>>
      BY <2>2
    <3> HIDE DEF p, d
    <3>2. IsSeq(d) /\ Len(d) = 1 /\ d[1] = p
      BY <3>1, TupleSeq
    <3> QED BY <2>2, <3>1, <3>2
  <2>3. ASSUME NEW r, d = <<<<"+">>, r>>, Short(r)
        PROVE  /\ IsSeq(d) /\ Len(d) \in 1 .. 2
               /\ d[1][1] \in {"+", "-"} /\ (d[1][1] = "-" => g.pending = "badsum")
               /\ Len(d) = 2 => Short(d[2])
    <3> DEFINE p == <<"+">>
    <3>1. p[1] = "+" /\ d = <<p, r>>
      BY <2>3
    <3> HIDE DEF p, d
    <3>2. IsSeq(d) /\ Len(d) = 2 /\ d[1] = p /\ d[2] = r
      BY <3>1, TupleSeq
    <3> QED BY <2>3, <3>1, <3>2
  <2> QED BY <2>1, <2>2, <2>3 DEF Requesting, Acknowledged
<1>4. Joined(e, d, f)
  <2>1. IsSeq(e) /\ IsSeq(d) /\ f = e \o d
    BY <1>1, <1>3 DEF Flight
  <2> HIDE DEF e, d, f
  <2> QED BY <2>1, IsSeqConcat
<1> HIDE DEF e, d, f
<1>5. /\ Len(f) = Len(e) + Len(d) /\ Len(e) \in Nat
      /\ \A i \in 1 .. Len(e) : ~IsAck(f[i])
      /\ f[Len(e) + 1] = d[1]
      /\ Len(d) = 2 => f[Len(e) + 2] = d[2]
  BY <1>2, <1>3, <1>4 DEF Joined
<1>a. /\ \A i \in 1 .. Len(f) : i \in 1 .. Len(e) + 1 \/ (Len(d) = 2 /\ i = Len(e) + 2)
      /\ \A i \in 1 .. Len(f) : \A j \in 1 .. i - 1 :
            j = Len(e) + 1 => Len(d) = 2 /\ i = Len(e) + 2
  <2> DEFINE l == Len(e)  m == Len(d)  n == Len(f)
  <2>1. n = l + m /\ l \in Nat /\ (m = 1 \/ m = 2)
    BY <1>3, <1>5
  <2> HIDE DEF l, m, n
  <2>2. /\ \A i \in 1 .. n : i \in 1 .. l + 1 \/ (m = 2 /\ i = l + 2)
        /\ \A i \in 1 .. n : \A j \in 1 .. i - 1 : j = l + 1 => m = 2 /\ i = l + 2
    BY <2>1
  <2> QED BY <2>2 DEF l, m, n
<1>6. \A i \in 1 .. Len(f) : IsAck(f[i]) => i = Len(e) + 1
  <2> SUFFICES ASSUME NEW i \in 1 .. Len(f), i # Len(e) + 1 PROVE ~IsAck(f[i])
    OBVIOUS
  <2>1. i \in 1 .. Len(e) \/ (Len(d) = 2 /\ i = Len(e) + 2)
    BY <1>5, <1>a
  <2> QED BY <1>3, <1>5, <2>1 DEF IsAck, Short
<1>7. IsSeq(t.recv) /\ Len(t.recv) = 0 /\ ~Packet(t)
  BY TupleSeq DEF Requesting, Packet
<1>8. Wire(t, g)
  BY <1>0, <1>1, <1>3, <1>7 DEF Wire, d
<1>9. Acks(t, g)
  <2>1. \A i \in 1 .. Len(f) : IsAck(f[i]) => f[i] = d[1]
    BY <1>5, <1>6
  <2>2. \A i \in 1 .. Len(f) : IsAck(f[i]) =>
         /\ ~g.acked /\ g.pending # "none" /\ ~Packet(t)
         /\ f[i][1] = "-" => g.pending = "badsum"
         /\ \A j \in 1 .. Len(f) : IsAck(f[j]) => i = j
    BY <1>1, <1>3, <1>6, <1>7, <2>1
  <2> QED BY <2>2 DEF Acks, f
<1>10. Quiet(t)
  <2>1. \A i \in 1 .. Len(d) : d[i][1] \notin StopReplies \cup {"regs"}
    <3> SUFFICES ASSUME NEW i \in 1 .. Len(d)
                 PROVE  d[i][1] \notin StopReplies \cup {"regs"}
      OBVIOUS
    <3>1. CASE i = 1
      BY <1>3, <3>1 DEF StopReplies
    <3>2. CASE i = 2
      BY <1>3, <3>2 DEF Short
    <3> QED BY <1>3, <3>1, <3>2
  <2> QED BY <2>1 DEF Quiet, d
<1>11. ~Stopped(t, g)
  <2> SUFFICES ASSUME NEW i \in 1 .. Len(f), f[i][1] \in StopReplies,
                      NEW j \in 1 .. i - 1, f[j][1] = "+"
               PROVE  FALSE
    BY <1>1 DEF Stopped, f
  <2>1. j \in 1 .. Len(f) /\ IsAck(f[j])
    BY <1>3, <1>5 DEF IsAck
  <2>2. j = Len(e) + 1
    BY <1>6, <2>1
  <2>3. Len(d) = 2 /\ i = Len(e) + 2
    BY <1>a, <2>2
  <2> QED BY <1>3, <1>5, <2>3 DEF Short
<1> QED BY <1>8, <1>9, <1>10, <1>11 DEF Consumed

LEMMA RequestCore ==
  ASSUME NEW s, NEW h, NEW g, NEW w, Idling(s, h, g, w), Packet(s), NEW t,
         Requesting(s, t, g)
  PROVE  Core(t, h, g, w) /\ Quiet(t)
<1>0. /\ (t.client <=> s.client) /\ t.ram = s.ram /\ (t.intr <=> s.intr)
      /\ (t.dead <=> s.dead) /\ (t.haltnot <=> s.haltnot)
  BY DEF Requesting, Same, SrvFields
<1>1. Wire(t, g) /\ Acks(t, g) /\ Quiet(t)
  BY RequestWire
<1>2. Halted(h) /\ ~release(s) /\ ~s.haltnot
  <2>1. s.recv # <<>> /\ s.client /\ g.link /\ ~Consumed(s, g)
    BY DEF Packet, Consumed, Idling, Core, Wire
  <2>2. Settled(s, h)
    BY <2>1 DEF Idling, Core, Attended
  <2> QED BY <2>1, <2>2 DEF Settled, HaltComing, Idling
<1>3. Modes(t, h) /\ Kept(t, h, w)
  BY <1>0 DEF Idling, Core, Modes, Kept, Requesting, SameGs
<1>4. Posted(t, h)
  BY <1>0 DEF Idling, Core, Posted, Requesting, release
<1>5. Fetched(t, h, w)
  BY DEF Requesting, Fetched, FetchedBy
<1>6. Known(t)
  BY DEF Requesting, Known
<1>7. Held(t, h)
  BY <1>0, <1>2 DEF Held, release
<1>8. Attended(t, h, g)
  <2> SUFFICES ASSUME t.client, g.link, Consumed(t, g) => Stopped(t, g)
               PROVE  Settled(t, h)
    BY DEF Attended
  <2>1. ~Consumed(t, g)
    BY RequestWire
  <2>2. g.pending \notin {"c", "s"}
    BY <2>1 DEF Consumed, Packet, Requesting
  <2> QED BY <1>0, <1>2, <2>2 DEF Settled, Requesting, release
<1> QED BY <1>1, <1>3, <1>4, <1>5, <1>6, <1>7, <1>8 DEF Idling, Core, Requesting

LEMMA InterruptsValue ==
  ASSUME NEW s, IsSeq(s.recv), Len(s.recv) <= 1
  PROVE  /\ s.recv = <<>> => Interrupts(s) = 0 /\ Len(s.recv) = 0
         /\ s.recv # <<>> => Len(s.recv) = 1
         /\ s.recv # <<>> /\ ~Packet(s) => Interrupts(s) = 1
         /\ Packet(s) => Interrupts(s) = 0
<1> DEFINE N == Len(s.recv)
           P(n) == /\ \A j \in 1 .. n : s.recv[j].k = "ctrl_c"
                   /\ n < N => s.recv[n + 1].k # "ctrl_c"
<1>1. Interrupts(s) = CHOOSE n \in 0 .. N : P(n)
  BY DEF Interrupts
<1>2. N \in Nat /\ (s.recv = <<>> <=> N = 0) /\ N <= 1
  BY IsSeqEmpty
<1> HIDE DEF N
<1>n. N = 0 \/ N = 1
  BY <1>2
<1>3. CASE s.recv = <<>>
  <2>1. P(0) /\ \A n \in 0 .. N : n = 0
    BY <1>2, <1>3
  <2> HIDE DEF P
  <2> QED BY <1>1, <1>2, <1>3, <2>1 DEF Packet, N
<1>4. CASE s.recv # <<>> /\ ~Packet(s)
  <2>1. s.recv[1].k = "ctrl_c" /\ N = 1
    BY <1>2, <1>n, <1>4 DEF Packet
  <2>2. P(1) /\ ~P(0)
    BY <2>1
  <2>3. \A n \in 0 .. N : n = 0 \/ n = 1
    BY <2>1
  <2> HIDE DEF P
  <2>4. (CHOOSE n \in 0 .. N : P(n)) = 1
    <3>1. 1 \in 0 .. N
      BY <2>1
    <3>2. \E n \in 0 .. N : P(n)
      BY <2>2, <3>1
    <3> DEFINE c == CHOOSE n \in 0 .. N : P(n)
    <3>3. c \in 0 .. N /\ P(c)
      BY <3>2
    <3> HIDE DEF c
    <3>4. c = 1
      BY <2>2, <2>3, <3>3
    <3> QED BY <3>4 DEF c
  <2> QED BY <1>1, <1>4, <2>1, <2>4 DEF N
<1>5. CASE Packet(s)
  <2>1. s.recv[1].k # "ctrl_c" /\ N = 1
    BY <1>2, <1>n, <1>5 DEF Packet
  <2>2. P(0) /\ ~P(1)
    BY <2>1
  <2>3. \A n \in 0 .. N : n = 0 \/ n = 1
    BY <2>1
  <2> HIDE DEF P
  <2>4. (CHOOSE n \in 0 .. N : P(n)) = 0
    <3>1. 0 \in 0 .. N
      BY <2>1
    <3>2. \E n \in 0 .. N : P(n)
      BY <2>2, <3>1
    <3> DEFINE c == CHOOSE n \in 0 .. N : P(n)
    <3>3. c \in 0 .. N /\ P(c)
      BY <3>2
    <3> HIDE DEF c
    <3>4. c = 0
      BY <2>2, <2>3, <3>3
    <3> QED BY <3>4 DEF c
  <2> QED BY <1>1, <1>5, <2>1, <2>4 DEF N
<1> QED BY <1>2, <1>3, <1>4, <1>5 DEF Packet, N

LEMMA AppendTuples ==
  /\ \A a : Append(<<>>, a) = <<a>>
  /\ \A a, b : Append(<<a>>, b) = <<a, b>>
  /\ \A a, b, c : Append(<<a, b>>, c) = <<a, b, c>>
<1>1. ASSUME NEW a PROVE Append(<<>>, a) = <<a>>
  OBVIOUS
<1>2. ASSUME NEW a, NEW b PROVE Append(<<a>>, b) = <<a, b>>
  <2> DEFINE s == Append(<<a>>, b)  t == <<a, b>>  S == {a, b}
  <2>1. s \in Seq(S) /\ t \in Seq(S) /\ Len(s) = 2 /\ Len(t) = 2
    OBVIOUS
  <2>2. s[1] = a /\ s[2] = b /\ t[1] = a /\ t[2] = b
    OBVIOUS
  <2> HIDE DEF s, t, S
  <2>3. s = t
    BY <2>1, <2>2, SeqEqual
  <2> QED BY <2>3 DEF s, t
<1>3. ASSUME NEW a, NEW b, NEW c PROVE Append(<<a, b>>, c) = <<a, b, c>>
  <2> DEFINE s == Append(<<a, b>>, c)  t == <<a, b, c>>  S == {a, b, c}
  <2>1. s \in Seq(S) /\ t \in Seq(S) /\ Len(s) = 3 /\ Len(t) = 3
    OBVIOUS
  <2>2. s[1] = a /\ s[2] = b /\ s[3] = c /\ t[1] = a /\ t[2] = b /\ t[3] = c
    OBVIOUS
  <2> HIDE DEF s, t, S
  <2>3. s = t
    BY <2>1, <2>2, SeqEqual
  <2> QED BY <2>3 DEF s, t
<1> QED BY <1>1, <1>2, <1>3

(* A request is acknowledged; q is queued, and r sent if there is one.      *)
Acked(b) == SrvShape(b) /\ b.queue = <<>> /\ b.send = <<<<"+">>>>
Queues(b, t, q) ==
    /\ SrvShape(t) /\ Same(b, t, {"queue", "send"}) /\ t.queue = q
    /\ t.send = <<<<"+">>>> \/ \E r : t.send = <<<<"+">>, r>> /\ Short(r)

Sent(b, r, t) == /\ SrvShape(t) /\ Same(b, t, {"send"}) /\ t.queue = b.queue
                 /\ t.send = Append(b.send, r)
Added(b, o, t) == /\ SrvShape(t) /\ Same(b, t, {"queue"}) /\ t.send = b.send
                  /\ t.queue = Append(b.queue, o)

LEMMA SendFields ==
  ASSUME NEW b, SrvShape(b), NEW r
  PROVE  Sent(b, <<r>>, send_packet(b, r))
  BY DEF Sent, send_packet, SrvShape, Same, SrvFields

LEMMA AddFields ==
  ASSUME NEW b, SrvShape(b), NEW o
  PROVE  Added(b, o, add_operation(b, o))
  BY DEF Added, add_operation, SrvShape, Same, SrvFields

LEMMA QueuesNothing ==
  ASSUME NEW b, Acked(b), NEW w \in {"OK", "S00", "features", ""},
         NEW t, t = send_packet(b, w)
  PROVE  Queues(b, t, <<>>)
<1> DEFINE p == <<"+">>  a == <<w>>
           d == send_packet(b, w)
<1>1. p[1] = "+" /\ a[1] = w /\ (t = b \/ t = d)
  OBVIOUS
<1>2. b.send = <<p>> /\ b.queue = <<>> /\ SrvShape(b) /\ Same(b, b, {"queue", "send"})
  BY DEF Acked, Same
<1>3. Sent(b, a, d)
  BY <1>2, SendFields DEF Added
<1> HIDE DEF p, a, d
<1>4. /\ d.send = <<p, a>> /\ d.queue = <<>>
      /\ SrvShape(d) /\ Same(b, d, {"queue", "send"})
  BY <1>3, <1>2, AppendTuples DEF Sent, Same, SrvFields
<1>5. Short(a)
  BY <1>1 DEF Short, StopReplies
<1> QED BY <1>1, <1>2, <1>4, <1>5 DEF Queues, p

LEMMA QueuesOne ==
  ASSUME NEW b, Acked(b), NEW o, NEW t,
         LET c == add_operation(b, o)
         IN  t = c \/ t = send_packet(c, "OK")
  PROVE  Queues(b, t, <<o>>)
<1> DEFINE p == <<"+">>  a == <<"OK">>
           c1 == add_operation(b, o)
           d == send_packet(c1, "OK")
<1>1. p[1] = "+" /\ a[1] = "OK" /\ (t = c1 \/ t = d)
  OBVIOUS
<1>2. b.send = <<p>> /\ b.queue = <<>> /\ SrvShape(b) /\ Same(b, b, {"queue", "send"})
  BY DEF Acked, Same
<1>3. Added(b, o, c1)
  BY <1>2, AddFields DEF Added
<1>4. Sent(c1, a, d)
  BY <1>3, SendFields DEF Added
<1> HIDE DEF p, a, c1, d
<1>5. /\ c1.send = <<p>> /\ c1.queue = <<o>>
      /\ SrvShape(c1) /\ Same(b, c1, {"queue", "send"})
  BY <1>3, <1>2, AppendTuples DEF Added, Same, SrvFields
<1>6. /\ d.send = <<p, a>> /\ d.queue = <<o>>
      /\ SrvShape(d) /\ Same(b, d, {"queue", "send"})
  BY <1>4, <1>5, AppendTuples DEF Sent, Same, SrvFields
<1>7. Short(a)
  BY <1>1 DEF Short, StopReplies
<1> QED BY <1>1, <1>5, <1>6, <1>7 DEF Queues, p

LEMMA QueuesTwo ==
  ASSUME NEW b, Acked(b), NEW o, NEW q, NEW t,
         LET c == add_operation(add_operation(b, o), q)
         IN  t = c \/ t = send_packet(c, "OK")
  PROVE  Queues(b, t, <<o, q>>)
<1> DEFINE p == <<"+">>  a == <<"OK">>
           c1 == add_operation(b, o)
           c2 == add_operation(c1, q)
           d == send_packet(c2, "OK")
<1>1. p[1] = "+" /\ a[1] = "OK" /\ (t = c2 \/ t = d)
  OBVIOUS
<1>2. b.send = <<p>> /\ b.queue = <<>> /\ SrvShape(b) /\ Same(b, b, {"queue", "send"})
  BY DEF Acked, Same
<1>3. Added(b, o, c1)
  BY <1>2, AddFields DEF Added
<1>4. Added(c1, q, c2)
  BY <1>3, AddFields DEF Added
<1>5. Sent(c2, a, d)
  BY <1>4, SendFields DEF Added
<1> HIDE DEF p, a, c1, c2, d
<1>6. /\ c1.send = <<p>> /\ c1.queue = <<o>>
      /\ SrvShape(c1) /\ Same(b, c1, {"queue", "send"})
  BY <1>3, <1>2, AppendTuples DEF Added, Same, SrvFields
<1>7. /\ c2.send = <<p>> /\ c2.queue = <<o, q>>
      /\ SrvShape(c2) /\ Same(b, c2, {"queue", "send"})
  BY <1>4, <1>6, AppendTuples DEF Added, Same, SrvFields
<1>8. /\ d.send = <<p, a>> /\ d.queue = <<o, q>>
      /\ SrvShape(d) /\ Same(b, d, {"queue", "send"})
  BY <1>5, <1>7, AppendTuples DEF Sent, Same, SrvFields
<1>9. Short(a)
  BY <1>1 DEF Short, StopReplies
<1> QED BY <1>1, <1>7, <1>8, <1>9 DEF Queues, p

LEMMA QueuesThree ==
  ASSUME NEW b, Acked(b), NEW o, NEW q, NEW r, NEW t,
         LET c == add_operation(add_operation(add_operation(b, o), q), r)
         IN  t = c \/ t = send_packet(c, "OK")
  PROVE  Queues(b, t, <<o, q, r>>)
<1> DEFINE p == <<"+">>  a == <<"OK">>
           c1 == add_operation(b, o)
           c2 == add_operation(c1, q)
           c3 == add_operation(c2, r)
           d == send_packet(c3, "OK")
<1>1. p[1] = "+" /\ a[1] = "OK" /\ (t = c3 \/ t = d)
  OBVIOUS
<1>2. b.send = <<p>> /\ b.queue = <<>> /\ SrvShape(b) /\ Same(b, b, {"queue", "send"})
  BY DEF Acked, Same
<1>3. Added(b, o, c1)
  BY <1>2, AddFields DEF Added
<1>4. Added(c1, q, c2)
  BY <1>3, AddFields DEF Added
<1>5. Added(c2, r, c3)
  BY <1>4, AddFields DEF Added
<1>6. Sent(c3, a, d)
  BY <1>5, SendFields DEF Added
<1> HIDE DEF p, a, c1, c2, c3, d
<1>7. /\ c1.send = <<p>> /\ c1.queue = <<o>>
      /\ SrvShape(c1) /\ Same(b, c1, {"queue", "send"})
  BY <1>3, <1>2, AppendTuples DEF Added, Same, SrvFields
<1>8. /\ c2.send = <<p>> /\ c2.queue = <<o, q>>
      /\ SrvShape(c2) /\ Same(b, c2, {"queue", "send"})
  BY <1>4, <1>7, AppendTuples DEF Added, Same, SrvFields
<1>9. /\ c3.send = <<p>> /\ c3.queue = <<o, q, r>>
      /\ SrvShape(c3) /\ Same(b, c3, {"queue", "send"})
  BY <1>5, <1>8, AppendTuples DEF Added, Same, SrvFields
<1>10. /\ d.send = <<p, a>> /\ d.queue = <<o, q, r>>
      /\ SrvShape(d) /\ Same(b, d, {"queue", "send"})
  BY <1>6, <1>9, AppendTuples DEF Sent, Same, SrvFields
<1>11. Short(a)
  BY <1>1 DEF Short, StopReplies
<1> QED BY <1>1, <1>9, <1>10, <1>11 DEF Queues, p

LEMMA MoreRequestOps ==
  /\ LET o == [op |-> "gread", step |-> 0, got |-> <<>>]
     IN  IsOp(o) /\ o.op = "gread" /\ o.step = 0
  /\ \A r : LET o == [op |-> "rread", step |-> 0, reg |-> r]
            IN  IsOp(o) /\ o.op = "rread" /\ o.step = 0
  /\ \A r, v : LET o == [op |-> "rwrite", step |-> 0, reg |-> r, val |-> v]
               IN  v \in Nat => IsOp(o) /\ o.op = "rwrite" /\ o.step = 0
  /\ \A a : LET o == [op |-> "hwinsert", step |-> 0, state |-> "START", addr |-> a, index |-> 0]
            IN  IsOp(o) /\ o.op = "hwinsert" /\ o.step = 0
  /\ \A i : LET o == [op |-> "hwremove", step |-> 0, index |-> i]
            IN  IsOp(o) /\ o.op = "hwremove" /\ o.step = 0
<1>1. LET o == [op |-> "gread", step |-> 0, got |-> <<>>]
      IN  IsOp(o) /\ o.op = "gread" /\ o.step = 0
  BY DEF IsOp, OpFields, OpNames
<1>2. ASSUME NEW r PROVE LET o == [op |-> "rread", step |-> 0, reg |-> r]
                         IN  IsOp(o) /\ o.op = "rread" /\ o.step = 0
  BY DEF IsOp, OpFields, OpNames
<1>3. ASSUME NEW r, NEW v \in Nat
      PROVE  LET o == [op |-> "rwrite", step |-> 0, reg |-> r, val |-> v]
             IN  IsOp(o) /\ o.op = "rwrite" /\ o.step = 0
  BY DEF IsOp, OpFields, OpNames
<1>4. ASSUME NEW a
      PROVE  LET o == [op |-> "hwinsert", step |-> 0, state |-> "START", addr |-> a, index |-> 0]
             IN  IsOp(o) /\ o.op = "hwinsert" /\ o.step = 0
  BY DEF IsOp, OpFields, OpNames
<1>5. ASSUME NEW i PROVE LET o == [op |-> "hwremove", step |-> 0, index |-> i]
                         IN  IsOp(o) /\ o.op = "hwremove" /\ o.step = 0
  BY DEF IsOp, OpFields, OpNames
<1> QED BY <1>1, <1>2, <1>3, <1>4, <1>5

(* The packet has been taken from recv_buf.                                *)
Taken(s, b) ==
    /\ SrvShape(b) /\ Same(s, b, {"recv", "queue"})
    /\ b.queue = <<>> /\ b.recv = <<>>

(* It has been acknowledged, and the server's own tables brought up to date. *)
Prepared(s, b, g) ==
    /\ Acked(b) /\ Same(s, b, {"recv", "queue", "gs", "software_breakpoints", "send"})
    /\ b.recv = <<>>
    /\ SameGs(s, b) /\ DOMAIN b.gs.mstatus = MStatusFields
    /\ \A a : <<"sw", a>> \in g.bps => a \in DOMAIN b.software_breakpoints

LEMMA RequestFrom ==
  ASSUME NEW s, NEW g, NEW b, Prepared(s, b, g), NEW q, NEW t, Queues(b, t, q), Chain(q),
         q # <<>> => q[1].step = 0 /\ q[1].op \notin {"mread", "mwrite"},
         \A i \in 1 .. Len(q) : q[i].op # "halt",
         Resuming(q) <=> g.pending \in {"c", "s"}
  PROVE  Requesting(s, t, g)
<1>1. SrvShape(t) /\ t.queue = q
  BY DEF Queues
<1>2. Same(s, t, {"queue", "recv", "send", "gs", "software_breakpoints"})
  BY DEF Queues, Prepared, Same
<1>3. t.recv = <<>> /\ t.gs = b.gs /\ t.software_breakpoints = b.software_breakpoints
  BY DEF Queues, Prepared, Same, SrvFields
<1>4. Acknowledged(t, g)
  BY DEF Queues, Acknowledged
<1>5. Inserted(t, g)
  BY <1>3 DEF Inserted, Packet, Prepared
<1>6. SameGs(s, t) /\ DOMAIN t.gs.mstatus = MStatusFields
  BY <1>3 DEF Prepared, SameGs
<1> QED BY <1>1, <1>2, <1>3, <1>4, <1>5, <1>6 DEF Requesting

LEMMA EmptyChain == Chain(<<>>)
  BY TupleSeq DEF Chain

LEMMA NothingQueued ==
  ASSUME NEW q, q = <<>>
  PROVE  Chain(q) /\ ~Resuming(q) /\ \A i \in 1 .. Len(q) : q[i].op # "halt"
<1>1. Len(q) = 0 /\ Chain(q)
  BY EmptyChain, TupleSeq
<1> QED BY <1>1 DEF Resuming

(* Requests of no operation and of one to three.                           *)
LEMMA RequestNone ==
  ASSUME NEW s, NEW g, NEW b, Prepared(s, b, g), NEW w \in {"OK", "S00", "features", ""},
         NEW t, t = send_packet(b, w), g.pending \notin {"c", "s"}
  PROVE  Requesting(s, t, g)
<1> DEFINE q == <<>>
<1>1. Queues(b, t, q)
  BY QueuesNothing DEF Prepared
<1>2. q = <<>>
  OBVIOUS
<1> HIDE DEF q
<1>3. Chain(q) /\ ~Resuming(q) /\ \A i \in 1 .. Len(q) : q[i].op # "halt"
  BY <1>2, NothingQueued
<1> QED BY <1>1, <1>2, <1>3, RequestFrom

LEMMA RequestOne ==
  ASSUME NEW s, NEW g, NEW b, Prepared(s, b, g), NEW o, IsOp(o), o.step = 0,
         o.op \in {"gread", "rread", "rwrite"}, g.pending \notin {"c", "s"},
         NEW t, LET c == add_operation(b, o) IN t = c \/ t = send_packet(c, "OK")
  PROVE  Requesting(s, t, g)
<1> DEFINE q == <<o>>
<1>1. Queues(b, t, q)
  BY QueuesOne DEF Prepared
<1>2. Chain(q) /\ Len(q) = 1 /\ q[1] = o
  BY ChainTuples, TupleSeq
<1> HIDE DEF q
<1>3. ~Resuming(q)
  BY <1>2 DEF Resuming, ResumeOps
<1> QED BY <1>1, <1>2, <1>3, RequestFrom

LEMMA RequestTwo ==
  ASSUME NEW s, NEW g, NEW b, Prepared(s, b, g), NEW o, NEW r, IsOp(o), o.step = 0,
         IsOp(r), r.step = 0,
         \/ /\ o.op = "collect" /\ r.op \in {"mread", "mwrite"} /\ r.addr = o.addr
            /\ g.pending \notin {"c", "s"}
         \/ /\ o.op = "stselect" /\ r.op \in {"hwinsert", "hwremove"}
            /\ g.pending \notin {"c", "s"}
         \/ o.op = "rtselect" /\ r.op = "continue" /\ g.pending = "s",
         NEW t, LET c == add_operation(add_operation(b, o), r)
                IN  t = c \/ t = send_packet(c, "OK")
  PROVE  Requesting(s, t, g)
<1> DEFINE q == <<o, r>>
<1>1. Queues(b, t, q)
  BY QueuesTwo DEF Prepared
<1>2. Follow(o, r)
  BY DEF Follow
<1>3. Chain(q) /\ Len(q) = 2 /\ q[1] = o /\ q[2] = r
  BY <1>2, ChainTuples, TupleSeq
<1> HIDE DEF q
<1>4. Resuming(q) <=> g.pending \in {"c", "s"}
  BY <1>3 DEF Resuming, ResumeOps
<1>5. \A i \in 1 .. Len(q) : q[i].op # "halt"
  <2>1. \A i \in 1 .. 2 : i = 1 \/ i = 2
    OBVIOUS
  <2> QED BY <1>3, <2>1
<1> QED BY <1>1, <1>3, <1>4, <1>5, RequestFrom

LEMMA RequestThree ==
  ASSUME NEW s, NEW g, NEW b, Prepared(s, b, g), NEW o, NEW r, NEW n,
         IsOp(o), o.step = 0, IsOp(r), r.step = 0, IsOp(n), n.step = 0,
         \/ /\ o.op = "collect" /\ r.op = "mread" /\ n.op = "mwrite"
            /\ r.addr = o.addr /\ n.addr = o.addr /\ g.pending \notin {"c", "s"}
         \/ o.op = "rtselect" /\ r.op = "rmstatus" /\ n.op = "continue" /\ g.pending = "c",
         NEW t, LET c == add_operation(add_operation(add_operation(b, o), r), n)
                IN  t = c \/ t = send_packet(c, "OK")
  PROVE  Requesting(s, t, g)
<1> DEFINE q == <<o, r, n>>
<1>1. Queues(b, t, q)
  BY QueuesThree DEF Prepared
<1>2. Follow(o, r) /\ Follow(r, n)
  BY DEF Follow
<1>3. Chain(q) /\ Len(q) = 3 /\ q[1] = o /\ q[2] = r /\ q[3] = n
  BY <1>2, ChainTuples, TupleSeq
<1> HIDE DEF q
<1>4. Resuming(q) <=> g.pending \in {"c", "s"}
  BY <1>3 DEF Resuming, ResumeOps
<1>5. \A i \in 1 .. Len(q) : q[i].op # "halt"
  <2>1. \A i \in 1 .. 3 : i = 1 \/ i = 2 \/ i = 3
    OBVIOUS
  <2> QED BY <1>3, <2>1
<1> QED BY <1>1, <1>3, <1>4, <1>5, RequestFrom

LEMMA TakenAcked ==
  ASSUME NEW s, NEW h, NEW g, NEW w, Idling(s, h, g, w), NEW b, Taken(s, b),
         NEW c, c = send_packet(b, "+")
  PROVE  /\ Acked(c) /\ c.gs = s.gs /\ c.software_breakpoints = s.software_breakpoints
         /\ Same(s, c, {"recv", "queue", "send"}) /\ c.recv = <<>>
<1> DEFINE p == <<"+">>
<1>1. b.send = <<>> /\ b.gs = s.gs /\ b.software_breakpoints = s.software_breakpoints
  BY DEF Taken, Same, SrvFields, Idling
<1>2. Sent(b, p, c)
  BY SendFields DEF Taken
<1> HIDE DEF p
<1>3. /\ c.send = <<p>> /\ c.queue = <<>> /\ SrvShape(c) /\ c.gs = s.gs
      /\ c.software_breakpoints = s.software_breakpoints /\ c.recv = <<>>
  BY <1>1, <1>2, AppendTuples DEF Sent, Same, SrvFields, Taken
<1>4. Same(s, c, {"recv", "queue", "send"})
  BY <1>2 DEF Sent, Same, Taken
<1> QED BY <1>3, <1>4 DEF Acked, p

(* What is known of the packet.                                           *)
PacketOk(s, g, p) ==
    /\ g.pending = p.k
    /\ p.k = "P" => p.val \in Nat
    /\ DOMAIN s.gs.mstatus = MStatusFields /\ SrvShape(s)
    /\ \A a : <<"sw", a>> \in g.bps =>
         \/ a \in DOMAIN s.software_breakpoints
         \/ p.k = "Z" /\ p.type = "sw" /\ p.addr = a
    /\ p.k = "z" /\ p.type = "sw" =>
         p.addr \in DOMAIN s.software_breakpoints /\ <<"sw", p.addr>> \notin g.bps

LEMMA PacketFacts ==
  ASSUME NEW s, NEW h, NEW g, NEW w, Idling(s, h, g, w), Packet(s),
         NEW p, p = s.recv[1]
  PROVE  PacketOk(s, g, p)
<1>1. p \in Packets /\ g.pending = p.k
  BY DEF Idling, Core, Wire
<1>2. p.k = "P" => p.val \in Nat
  BY <1>1, GdbConstants
<1>3. DOMAIN s.gs.mstatus = MStatusFields /\ SrvShape(s)
  BY DEF Idling, Core, Modes
<1>4. Inserted(s, g)
  BY DEF Idling, Core
<1> QED BY <1>1, <1>2, <1>3, <1>4 DEF Inserted, PacketOk

LEMMA BreakpointKinds ==
  ASSUME NEW c, NEW p
  PROVE  /\ p.k = "Z" /\ p.type = "sw" =>
              handle_breakpoint(c, p) = send_packet(software_breakpoint_insert(c, p.addr), "OK")
         /\ p.k = "z" /\ p.type = "sw" =>
              handle_breakpoint(c, p) = send_packet(software_breakpoint_remove(c, p.addr), "OK")
         /\ p.k = "Z" /\ p.type # "sw" =>
              handle_breakpoint(c, p) = hardware_breakpoint_insert(c, p.addr)
         /\ p.k = "z" /\ p.type # "sw" =>
              handle_breakpoint(c, p) = send_packet(hardware_breakpoint_remove(c, p.addr), "OK")
<1> DEFINE i == send_packet(software_breakpoint_insert(c, p.addr), "OK")
           r == send_packet(software_breakpoint_remove(c, p.addr), "OK")
           j == hardware_breakpoint_insert(c, p.addr)
           q == send_packet(hardware_breakpoint_remove(c, p.addr), "OK")
           Z == p.k = "Z"  z == p.k = "z"  sw == p.type = "sw"
<1>1. handle_breakpoint(c, p) = CASE Z /\ sw -> i [] z /\ sw -> r [] Z /\ ~sw -> j [] OTHER -> q
  BY DEF handle_breakpoint
<1>2. ~(Z /\ z)
  OBVIOUS
<1> HIDE DEF i, r, j, q, Z, z, sw
<1>3. CASE Z /\ sw
  BY <1>1, <1>2, <1>3 DEF i, Z, z, sw
<1>4. CASE z /\ sw
  BY <1>1, <1>2, <1>4 DEF r, Z, z, sw
<1>5. CASE Z /\ ~sw
  BY <1>1, <1>2, <1>5 DEF j, Z, z, sw
<1>6. CASE z /\ ~sw
  BY <1>1, <1>2, <1>6 DEF q, Z, z, sw
<1> QED BY <1>3, <1>4, <1>5, <1>6 DEF Z, z, sw, i, r, j, q

LEMMA BreakpointRequest ==
  ASSUME NEW s, NEW h, NEW g, NEW w, Idling(s, h, g, w), Packet(s),
         NEW p, p = s.recv[1], p.k \in {"Z", "z"},
         NEW c, Acked(c), c.gs = s.gs, c.software_breakpoints = s.software_breakpoints,
         Same(s, c, {"recv", "queue", "send"}), c.recv = <<>>,
         NEW t, t = handle_breakpoint(c, p)
  PROVE  Requesting(s, t, g)
<1> DEFINE a == p.addr
           Z == [op |-> "hwinsert", step |-> 0, state |-> "START", addr |-> a, index |-> 0]
           z == [op |-> "hwremove", step |-> 0, index |-> c.hardware_breakpoints[a]]
           D == Op("stselect")
           C == CollectOp(a)
           M == ReadOp(a, 1, a)
           E == WriteOp(a, <<EBREAK>>, FALSE)
           R == WriteOp(a, <<c.software_breakpoints[a]>>, FALSE)
           j == [c EXCEPT !.gs.fence_i_required = TRUE,
                          !.software_breakpoints =
                             [b \in DOMAIN @ \cup {a} |-> IF b = a THEN 0 ELSE @[b]]]
           k == [c EXCEPT !.gs.fence_i_required = TRUE,
                          !.software_breakpoints = [b \in DOMAIN @ \ {a} |-> @[b]]]
<1>p. PacketOk(s, g, p)
  BY PacketFacts
<1>0. /\ SrvShape(s) /\ SrvShape(c) /\ DOMAIN s.gs.mstatus = MStatusFields
  BY <1>p DEF PacketOk, Acked
<1>j. /\ Acked(j) /\ Same(s, j, {"recv", "queue", "gs", "software_breakpoints", "send"})
      /\ j.recv = <<>> /\ SameGs(s, j) /\ DOMAIN j.gs.mstatus = MStatusFields
      /\ DOMAIN j.software_breakpoints = DOMAIN s.software_breakpoints \cup {a}
  BY <1>0 DEF Acked, SrvShape, Same, SrvFields, GsFields, SameGs, Target
<1>k. /\ Acked(k) /\ Same(s, k, {"recv", "queue", "gs", "software_breakpoints", "send"})
      /\ k.recv = <<>> /\ SameGs(s, k) /\ DOMAIN k.gs.mstatus = MStatusFields
      /\ DOMAIN k.software_breakpoints = DOMAIN s.software_breakpoints \ {a}
  BY <1>0 DEF Acked, SrvShape, Same, SrvFields, GsFields, SameGs, Target
<1>f. /\ g.pending = p.k
      /\ \A b : <<"sw", b>> \in g.bps =>
              \/ b \in DOMAIN s.software_breakpoints
              \/ p.k = "Z" /\ p.type = "sw" /\ p.addr = b
      /\ p.k = "z" /\ p.type = "sw" =>
              p.addr \in DOMAIN s.software_breakpoints /\ <<"sw", p.addr>> \notin g.bps
  BY <1>p DEF PacketOk
<1>a. /\ IsOp(Z) /\ Z.op = "hwinsert" /\ Z.step = 0
      /\ IsOp(z) /\ z.op = "hwremove" /\ z.step = 0
  BY MoreRequestOps
<1>b. IsOp(D) /\ D.op = "stselect" /\ D.step = 0
  BY RequestOps
<1>c. /\ IsOp(C) /\ C.op = "collect" /\ C.step = 0 /\ C.addr = a
      /\ IsOp(M) /\ M.op = "mread" /\ M.step = 0 /\ M.addr = a
  BY RequestOps
<1>d. /\ IsOp(E) /\ E.op = "mwrite" /\ E.step = 0 /\ E.addr = a
      /\ IsOp(R) /\ R.op = "mwrite" /\ R.step = 0 /\ R.addr = a
  <2> DEFINE e == <<EBREAK>>  r == <<c.software_breakpoints[a]>>
  <2> HIDE DEF e, r
  <2>1. LET o == WriteOp(a, e, FALSE)
        IN  IsOp(o) /\ o.op = "mwrite" /\ o.step = 0 /\ o.addr = a
    BY DEF WriteOp, IsOp, OpFields, OpNames
  <2>2. LET o == WriteOp(a, r, FALSE)
        IN  IsOp(o) /\ o.op = "mwrite" /\ o.step = 0 /\ o.addr = a
    BY DEF WriteOp, IsOp, OpFields, OpNames
  <2> QED BY <2>1, <2>2 DEF e, r
<1>t. /\ p.k = "Z" /\ p.type = "sw" =>
           t = send_packet(add_operation(add_operation(add_operation(j, C), M), E), "OK")
      /\ p.k = "z" /\ p.type = "sw" /\ a \in DOMAIN c.software_breakpoints =>
           t = send_packet(add_operation(add_operation(k, C), R), "OK")
      /\ p.k = "Z" /\ p.type # "sw" => t = add_operation(add_operation(c, D), Z)
      /\ p.k = "z" /\ p.type # "sw" =>
           t = send_packet(add_operation(add_operation(c, D), z), "OK")
  <2>1. CASE p.k = "Z" /\ p.type = "sw"
    <3>1. t = send_packet(software_breakpoint_insert(c, a), "OK")
      BY <2>1, BreakpointKinds
    <3>2. software_breakpoint_insert(c, a)
            = add_operation(add_operation(add_operation(j, C), M), E)
      BY DEF software_breakpoint_insert
    <3> HIDE DEF j, C, M, E
    <3> QED BY <2>1, <3>1, <3>2
  <2>2. CASE p.k = "z" /\ p.type = "sw"
    BY <2>2, BreakpointKinds DEF software_breakpoint_remove
  <2>3. CASE p.k = "Z" /\ p.type # "sw"
    BY <2>3, BreakpointKinds DEF hardware_breakpoint_insert
  <2>4. CASE p.k = "z" /\ p.type # "sw"
    BY <2>4, BreakpointKinds DEF hardware_breakpoint_remove
  <2> QED BY <2>1, <2>2, <2>3, <2>4
<1> HIDE DEF Z, z, D, C, M, E, R, j, k
<1>1. CASE p.k = "Z" /\ p.type = "sw"
  <2>1. Prepared(s, j, g)
    BY <1>f, <1>j DEF Prepared
  <2> QED BY <1>1, <1>t, <1>f, <1>c, <1>d, <2>1, RequestThree
<1>2. CASE p.k = "z" /\ p.type = "sw"
  <2>1. Prepared(s, k, g) /\ a \in DOMAIN c.software_breakpoints
    BY <1>2, <1>f, <1>k DEF Prepared
  <2> QED BY <1>2, <1>t, <1>c, <1>d, <1>f, <2>1, RequestTwo
<1>3. CASE p.type # "sw"
  <2>1. Prepared(s, c, g)
    BY <1>0, <1>3, <1>f DEF Prepared, Same, SameGs, Target
  <2> QED BY <1>3, <1>t, <1>a, <1>b, <1>f, <2>1, RequestTwo
<1> QED BY <1>1, <1>2, <1>3

LEMMA PacketRequest ==
  ASSUME NEW s, NEW h, NEW g, NEW w, Idling(s, h, g, w), Packet(s),
         NEW p, p = s.recv[1], NEW b, Taken(s, b), NEW t, t = handle_packet(b, p)
  PROVE  Requesting(s, t, g)
<1> DEFINE c == send_packet(b, "+")
<1>1. /\ Acked(c) /\ c.gs = s.gs /\ c.software_breakpoints = s.software_breakpoints
      /\ Same(s, c, {"recv", "queue", "send"}) /\ c.recv = <<>>
  BY TakenAcked
<1> HIDE DEF c
<1>2. t = CASE p.k = "badsum" -> send_packet(b, "-")
            [] p.k = "!" -> handle_extended(c)
            [] p.k = "?" -> handle_halt_reason(c)
            [] p.k = "g" -> handle_general_registers_read(c)
            [] p.k = "m" -> handle_memory_read(c, p)
            [] p.k = "X" -> handle_memory_binary_write(c, p)
            [] p.k = "p" -> handle_register_read(c, p)
            [] p.k = "P" -> handle_register_write(c, p)
            [] p.k = "c" -> handle_continue(c, p)
            [] p.k = "s" -> handle_step(c)
            [] p.k \in {"Z", "z"} -> handle_breakpoint(c, p)
            [] p.k = "q" -> handle_query(c)
            [] OTHER -> send_packet(c, "")
  BY DEF handle_packet, c
<1>3. /\ g.pending = p.k
      /\ p.k = "P" => p.val \in Nat
      /\ DOMAIN s.gs.mstatus = MStatusFields /\ SrvShape(s)
      /\ p.k # "Z" => \A a : <<"sw", a>> \in g.bps => a \in DOMAIN s.software_breakpoints
  <2>1. PacketOk(s, g, p)
    BY PacketFacts
  <2> QED BY <2>1 DEF PacketOk
<1>4. p.k \notin {"Z", "c"} => Prepared(s, c, g)
  BY <1>1, <1>3 DEF Prepared, Same, SameGs, Target
<1>5. CASE p.k = "badsum"
  <2> DEFINE n == <<"-">>
  <2>1. Sent(b, n, t)
    BY <1>2, <1>5, SendFields DEF Taken
  <2> HIDE DEF n
  <2>2. /\ SrvShape(t) /\ t.send = <<n>> /\ t.queue = <<>> /\ t.recv = <<>>
        /\ t.gs = s.gs /\ t.software_breakpoints = s.software_breakpoints
    BY <2>1, AppendTuples DEF Sent, Taken, Same, SrvFields, Idling
  <2>3. Same(s, t, {"queue", "recv", "send", "gs", "software_breakpoints"})
    BY <2>1 DEF Sent, Taken, Same
  <2>4. Acknowledged(t, g)
    BY <1>3, <1>5, <2>2 DEF Acknowledged, n
  <2>5. Inserted(t, g)
    BY <1>3, <1>5, <2>2 DEF Inserted, Packet
  <2>6. Chain(t.queue) /\ ~Resuming(t.queue) /\ Len(t.queue) = 0
    BY <2>2, EmptyChain, TupleSeq DEF Resuming
  <2>7. SameGs(s, t)
    BY <1>5, <2>2 DEF SameGs, Target
  <2> QED BY <1>3, <1>5, <2>2, <2>3, <2>4, <2>5, <2>6, <2>7 DEF Requesting
<1>6. CASE p.k = "!"
  <2>1. t = send_packet(c, "OK")
    BY <1>2, <1>6 DEF handle_extended
  <2> QED BY <1>3, <1>4, <1>6, <2>1, RequestNone
<1>7. CASE p.k = "?"
  <2>1. t = send_packet(c, "S00")
    BY <1>2, <1>7 DEF handle_halt_reason
  <2> QED BY <1>3, <1>4, <1>7, <2>1, RequestNone
<1>8. CASE p.k = "q"
  <2>1. t = send_packet(c, "features")
    BY <1>2, <1>8 DEF handle_query
  <2> QED BY <1>3, <1>4, <1>8, <2>1, RequestNone
<1>9. CASE p.k \notin {"badsum", "!", "?", "g", "m", "X", "p", "P", "c", "s", "Z", "z", "q"}
  <2>1. t = send_packet(c, "")
    BY <1>2, <1>9
  <2> QED BY <1>3, <1>4, <1>9, <2>1, RequestNone
<1>10. CASE p.k = "g"
  <2> DEFINE o == [op |-> "gread", step |-> 0, got |-> <<>>]
  <2>1. t = add_operation(c, o)
    BY <1>2, <1>10 DEF handle_general_registers_read
  <2>2. IsOp(o) /\ o.op = "gread" /\ o.step = 0
    BY MoreRequestOps
  <2> HIDE DEF o
  <2> QED BY <1>3, <1>4, <1>10, <2>1, <2>2, RequestOne
<1>11. CASE p.k = "p"
  <2> DEFINE o == [op |-> "rread", step |-> 0, reg |-> p.reg]
  <2>1. t = add_operation(c, o)
    BY <1>2, <1>11 DEF handle_register_read
  <2>2. IsOp(o) /\ o.op = "rread" /\ o.step = 0
    BY MoreRequestOps
  <2> HIDE DEF o
  <2> QED BY <1>3, <1>4, <1>11, <2>1, <2>2, RequestOne
<1>12. CASE p.k = "P"
  <2> DEFINE o == [op |-> "rwrite", step |-> 0, reg |-> p.reg, val |-> p.val]
  <2>1. t = send_packet(add_operation(c, o), "OK")
    BY <1>2, <1>12 DEF handle_register_write
  <2>2. IsOp(o) /\ o.op = "rwrite" /\ o.step = 0
    BY <1>3, <1>12, MoreRequestOps
  <2> HIDE DEF o
  <2> QED BY <1>3, <1>4, <1>12, <2>1, <2>2, RequestOne
<1>13. CASE p.k = "m"
  <2> DEFINE o == CollectOp(p.addr)  r == ReadOp(p.addr, p.len, NoBp)
  <2>1. t = add_operation(add_operation(c, o), r)
    BY <1>2, <1>13 DEF handle_memory_read
  <2>2. /\ IsOp(o) /\ o.op = "collect" /\ o.step = 0 /\ o.addr = p.addr
        /\ IsOp(r) /\ r.op = "mread" /\ r.step = 0 /\ r.addr = p.addr
    BY RequestOps
  <2> HIDE DEF o, r
  <2> QED BY <1>3, <1>4, <1>13, <2>1, <2>2, RequestTwo
<1>14. CASE p.k = "X"
  <2> DEFINE o == CollectOp(p.addr)  r == WriteOp(p.addr, p.data, TRUE)
  <2>1. t = send_packet(c, "OK") \/ t = add_operation(add_operation(c, o), r)
    BY <1>2, <1>14 DEF handle_memory_binary_write
  <2>2. IsOp(o) /\ o.op = "collect" /\ o.step = 0 /\ o.addr = p.addr
    BY RequestOps
  <2>3. IsOp(r) /\ r.op = "mwrite" /\ r.step = 0 /\ r.addr = p.addr
    BY DEF WriteOp, IsOp, OpFields, OpNames
  <2> HIDE DEF o, r
  <2>4. CASE t = send_packet(c, "OK")
    BY <1>3, <1>4, <1>14, <2>4, RequestNone
  <2>5. CASE t = add_operation(add_operation(c, o), r)
    BY <1>3, <1>4, <1>14, <2>2, <2>3, <2>5, RequestTwo
  <2> QED BY <2>1, <2>4, <2>5
<1>15. CASE p.k = "s"
  <2> DEFINE o == Op("rtselect")  r == ContinueOp(TRUE)
  <2>1. t = add_operation(add_operation(c, o), r)
    BY <1>2, <1>15 DEF handle_step
  <2>2. IsOp(o) /\ o.op = "rtselect" /\ o.step = 0
    BY RequestOps
  <2>3. IsOp(r) /\ r.op = "continue" /\ r.step = 0
    BY DEF ContinueOp, IsOp, OpFields, OpNames, ResumeOps
  <2> HIDE DEF o, r
  <2> QED BY <1>3, <1>4, <1>15, <2>1, <2>2, <2>3, RequestTwo
<1>16. CASE p.k = "c"
  <2> DEFINE o == Op("rtselect")  r == Op("rmstatus")  n == ContinueOp(FALSE)
             d == IF p.addr = NoBp THEN c ELSE [c EXCEPT !.gs.dpc = p.addr]
  <2>1. t = add_operation(add_operation(add_operation(d, o), r), n)
    BY <1>2, <1>16 DEF handle_continue
  <2>2. /\ IsOp(o) /\ o.op = "rtselect" /\ o.step = 0
        /\ IsOp(r) /\ r.op = "rmstatus" /\ r.step = 0
    BY RequestOps
  <2>3. IsOp(n) /\ n.op = "continue" /\ n.step = 0
    BY DEF ContinueOp, IsOp, OpFields, OpNames, ResumeOps
  <2>4. Prepared(s, d, g)
    <3>1. SrvShape(c)
      BY <1>1 DEF Acked
    <3>2. CASE p.addr # NoBp
      <4>1. d = [c EXCEPT !.gs.dpc = p.addr]
        BY <3>2
      <4>2. SameGs(s, d)
        BY <1>1, <1>16, <3>1, <3>2, <4>1 DEF SameGs, Target, SrvShape, SrvFields, GsFields
      <4>3. /\ Acked(d) /\ Same(s, d, {"recv", "queue", "gs", "software_breakpoints", "send"})
            /\ d.recv = <<>> /\ DOMAIN d.gs.mstatus = MStatusFields
            /\ d.software_breakpoints = s.software_breakpoints
        BY <1>1, <1>3, <3>1, <4>1 DEF Acked, SrvShape, Same, SrvFields, GsFields
      <4> QED BY <1>3, <1>16, <4>2, <4>3 DEF Prepared
    <3>3. CASE p.addr = NoBp
      <4>1. d = c
        BY <3>3
      <4> QED BY <1>1, <1>3, <1>16, <3>3, <4>1 DEF Prepared, Same, SameGs, Target
    <3> QED BY <3>2, <3>3
  <2> HIDE DEF o, r, n, d
  <2> QED BY <1>3, <1>16, <2>1, <2>2, <2>3, <2>4, RequestThree
<1>17. CASE p.k \in {"Z", "z"}
  <2>1. t = handle_breakpoint(c, p)
    BY <1>2, <1>17
  <2> QED BY <1>1, <1>17, <2>1, BreakpointRequest
<1> QED BY <1>5, <1>6, <1>7, <1>8, <1>9, <1>10, <1>11, <1>12, <1>13, <1>14, <1>15, <1>16, <1>17

LEMMA Repeat ==
  ASSUME NEW x
  PROVE  /\ <<>> \o [i \in 1 .. 0 |-> x] = <<>>
         /\ <<>> \o [i \in 1 .. 1 |-> x] = <<x>>
<1> DEFINE a == [i \in 1 .. 0 |-> x]  b == [i \in 1 .. 1 |-> x]  c == <<x>>
<1>1. a \in Seq({x}) /\ b \in Seq({x}) /\ Len(a) = 0 /\ Len(b) = 1 /\ b[1] = x
  OBVIOUS
<1>2. c \in Seq({x}) /\ Len(c) = 1 /\ c[1] = x
  OBVIOUS
<1> HIDE DEF a, b, c
<1>3. <<>> \o a = a /\ <<>> \o b = b
  BY <1>1, ConcatEmptySeq
<1>4. a = <<>>
  BY <1>1, EmptySeq
<1>5. b = c
  BY <1>1, <1>2, SeqEqual
<1> QED BY <1>3, <1>4, <1>5 DEF a, b, c

(* No packet was read: nothing is queued, or a halt.                       *)
Unasked(s, t) ==
    /\ SrvShape(t) /\ Same(s, t, {"queue", "recv"}) /\ t.recv = <<>>
    /\ t.queue = <<>> \/ (t.queue = <<HaltOp(TRUE)>> /\ s.recv # <<>>)

LEMMA NoPacketCore ==
  ASSUME NEW s, NEW h, NEW g, NEW w, Idling(s, h, g, w), ~Packet(s), NEW t, Unasked(s, t)
  PROVE  Core(t, h, g, w) /\ Quiet(t)
<1> USE DEF Unasked
<1>0. /\ t.gs = s.gs /\ t.ram = s.ram /\ (t.client <=> s.client) /\ t.send = s.send
      /\ (t.intr <=> s.intr) /\ (t.dead <=> s.dead) /\ (t.haltnot <=> s.haltnot)
      /\ t.software_breakpoints = s.software_breakpoints
  BY DEF Same, SrvFields
<1>1. Modes(t, h) /\ Kept(t, h, w)
  BY <1>0 DEF Idling, Core, Modes, Kept
<1> DEFINE o == HaltOp(TRUE)  q == t.queue
<1>o. IsOp(o) /\ o.op = "halt" /\ o.step = 0
  BY DEF HaltOp, IsOp, OpFields, OpNames
<1> HIDE DEF o
<1>2. /\ Chain(q)
      /\ q = <<>> \/ HaltComing(q)
      /\ q # <<>> => q[1] = o
  <2>1. CASE q = <<>>
    BY <2>1, EmptyChain
  <2>2. CASE q = <<o>>
    <3>1. Chain(<<o>>)
      BY <1>o, ChainTuples
    <3>2. Len(q) = 1 /\ q[1] = o /\ q # <<>>
      BY <2>2, TupleSeq
    <3> QED BY <1>o, <2>2, <3>1, <3>2 DEF HaltComing
  <2> QED BY <2>1, <2>2 DEF o
<1> HIDE DEF q
<1>3. Posted(t, h)
  BY <1>0, <1>o, <1>2 DEF Idling, Core, Posted, release, q
<1>4. Fetched(t, h, w) /\ Known(t) /\ Held(t, h)
  BY <1>o, <1>2 DEF Fetched, FetchedBy, Known, Held, Requested, q
<1>5. IsSeq(t.recv) /\ Len(t.recv) = 0 /\ IsSeq(t.send) /\ Len(t.send) = 0 /\ ~Packet(t)
  BY <1>0, TupleSeq DEF Idling, Packet
<1>6. Wire(t, g)
  BY <1>0, <1>5 DEF Idling, Core, Wire
<1>7. Flight(t, g) = Flight(s, g)
  BY <1>0 DEF Flight
<1>8. Acks(t, g)
  BY <1>5, <1>7 DEF Idling, Core, Acks
<1>9. (Stopped(t, g) <=> Stopped(s, g)) /\ (Consumed(t, g) <=> Consumed(s, g))
  BY <1>5, <1>7 DEF Stopped, Consumed
<1>10. Settled(s, h) => Settled(t, h)
  BY <1>0, <1>2 DEF Idling, Settled, HaltComing, Resuming, release, q
<1>11. Attended(t, h, g)
  BY <1>0, <1>9, <1>10 DEF Idling, Core, Attended
<1>12. Inserted(t, g)
  BY <1>0, <1>5 DEF Idling, Core, Inserted
<1>13. Quiet(t)
  BY <1>5 DEF Quiet
<1> QED BY <1>1, <1>2, <1>3, <1>4, <1>6, <1>8, <1>11, <1>12, <1>13 DEF Idling, Core, q

LEMMA ProcessValue ==
  ASSUME NEW s, NEW h, NEW g, NEW w, Idling(s, h, g, w), NEW t, t = process_requests(s)
  PROVE  IF Packet(s) THEN Requesting(s, t, g) ELSE Unasked(s, t)
<1> DEFINE n == Interrupts(s)
           Q == s.queue \o [i \in 1 .. n |-> handle_interrupt]
           c == [s EXCEPT !.queue = Q]
           b == [c EXCEPT !.recv = SubSeq(c.recv, n + 2, Len(c.recv))]
<1>0. /\ SrvShape(s) /\ s.queue = <<>> /\ s.send = <<>>
      /\ IsSeq(s.recv) /\ Len(s.recv) <= 1
  BY DEF Idling, Core, Wire
<1>1. t = IF n = Len(s.recv) THEN [c EXCEPT !.recv = <<>>] ELSE handle_packet(b, s.recv[n + 1])
  BY DEF process_requests
<1>2. /\ s.recv = <<>> => n = 0 /\ Len(s.recv) = 0
      /\ s.recv # <<>> => Len(s.recv) = 1
      /\ s.recv # <<>> /\ ~Packet(s) => n = 1
      /\ Packet(s) => n = 0
  BY <1>0, InterruptsValue
<1>3. Packet(s) => s.recv # <<>>
  BY DEF Packet
<1>4. /\ n = 0 => Q = <<>>
      /\ n = 1 => Q = <<HaltOp(TRUE)>>
  BY <1>0, Repeat DEF handle_interrupt
<1> HIDE DEF n, Q
<1>5. CASE ~Packet(s)
  <2>1. n = Len(s.recv) /\ (Q = <<>> \/ (Q = <<HaltOp(TRUE)>> /\ s.recv # <<>>))
    BY <1>2, <1>4, <1>5
  <2>2. t = [c EXCEPT !.recv = <<>>]
    BY <1>1, <2>1
  <2> DEFINE r == <<>>
  <2> HIDE DEF r
  <2>3. t = [c EXCEPT !.recv = r]
    BY <2>2 DEF r
  <2>4. SrvShape(t) /\ Same(s, t, {"queue", "recv"}) /\ t.recv = r /\ t.queue = Q
    BY <1>0, <2>3 DEF SrvShape, Same, SrvFields
  <2> QED BY <1>5, <2>1, <2>4 DEF Unasked, r
<1>6. CASE Packet(s)
  <2>1. n = 0 /\ Len(s.recv) = 1 /\ Q = <<>>
    BY <1>2, <1>3, <1>4, <1>6
  <2>2. t = handle_packet(b, s.recv[1])
    <3>1. n # Len(s.recv) /\ n + 1 = 1
      BY <2>1
    <3> HIDE DEF b
    <3> QED BY <1>1, <3>1
  <2>3. Taken(s, b)
    <3> DEFINE r == SubSeq(s.recv, 2, 1)
    <3>1. r = <<>>
      BY SubSeqEmpty
    <3> HIDE DEF r
    <3>2. b = [c EXCEPT !.recv = r]
      <4>1. c.recv = s.recv
        BY <1>0 DEF SrvShape, SrvFields
      <4>2. n + 2 = 2 /\ Len(c.recv) = 1
        BY <2>1, <4>1
      <4>3. SubSeq(c.recv, n + 2, Len(c.recv)) = r
        BY <4>1, <4>2 DEF r
      <4> HIDE DEF c, r
      <4> QED BY <4>3
    <3> HIDE DEF b
    <3> QED BY <1>0, <2>1, <3>1, <3>2 DEF Taken, SrvShape, Same, SrvFields
  <2> HIDE DEF b
  <2>4. Requesting(s, t, g)
    BY <1>6, <2>2, <2>3, PacketRequest
  <2> QED BY <1>6, <2>4
<1> QED BY <1>5, <1>6

LEMMA ProcessCore ==
  ASSUME NEW s, NEW h, NEW g, NEW w, Idling(s, h, g, w), NEW t, t = process_requests(s)
  PROVE  Core(t, h, g, w) /\ Quiet(t) /\ t.ram = s.ram
<1>1. IF Packet(s) THEN Requesting(s, t, g) ELSE Unasked(s, t)
  BY ProcessValue
<1>2. t.ram = s.ram
  BY <1>1 DEF Requesting, Unasked, Same, SrvFields
<1> QED BY <1>1, <1>2, RequestCore, NoPacketCore

-----------------------------------------------------------------------------
(* handle() as a whole.                                                    *)

LEMMA PromiseServerRegs ==
  ASSUME WantShape(want)
  PROVE  SameRegs(want, PromiseServer(srv))
<1> DEFINE o == Head(srv.queue)
           d == srv.ram.d0
           a == [want EXCEPT !.pc = d]
           b == [want EXCEPT !.mstatus = d]
           c == [want EXCEPT !.prv = d.prv]
           i == [want EXCEPT !.pc = o.val]
           j == [want EXCEPT !.mstatus.fs = (o.val # 0)]
           k == [want EXCEPT !.prv = IF o.val = 0 THEN "U" ELSE "M"]
           g1 == o.op = "halt" /\ o.step = 2 /\ ~o.status
           g2 == o.op = "halt" /\ o.step = 3 /\ ~o.status
           g3 == o.op = "halt" /\ o.step = 4 /\ ~o.status
           g4 == o.op = "rwrite" /\ o.step = 0 /\ o.reg = "pc"
           g5 == o.op = "rwrite" /\ o.step = 0 /\ o.reg = "mstatus"
           g6 == o.op = "rwrite" /\ o.step = 0 /\ o.reg = "priv"
<1>0. SameRegs(want, want)
  BY DEF SameRegs
<1>1. SameRegs(want, a) /\ SameRegs(want, i)
  BY DEF SameRegs, WantShape, WantFields
<1>2. SameRegs(want, b) /\ SameRegs(want, j)
  BY DEF SameRegs, WantShape, WantFields
<1>3. SameRegs(want, c) /\ SameRegs(want, k)
  BY DEF SameRegs, WantShape, WantFields
<1>4. PromiseServer(srv) = IF ~srv.client \/ srv.intr \/ srv.queue = <<>> THEN want
                           ELSE CASE g1 -> a [] g2 -> b [] g3 -> c [] g4 -> i [] g5 -> j [] g6 -> k
                                  [] OTHER -> want
  BY DEF PromiseServer
<1> HIDE DEF a, b, c, i, j, k, g1, g2, g3, g4, g5, g6
<1> QED BY <1>0, <1>1, <1>2, <1>3, <1>4

(* What handle() leaves when it is done with the queue and the socket:      *)
(* the server s, the debugger k, the promise w.                            *)
Served(s, h, k, w) ==
    /\ Core(s, h, k, w) /\ Quiet(s)
    /\ s.send = <<>>
    /\ s.recv # <<>> /\ s.queue = <<>> => ~s.haltnot

Told(g, k, h, w) ==
    \A i \in (Len(g.replies) + 1) .. Len(k.replies) : TrueReply(k.replies[i], h, w)

(* The socket is found closed, or what was to be sent is.                   *)
Socket(s, g, t, k) ==
    \/ /\ ~g.link /\ k = g
       /\ Same(s, t, {"client", "recv", "send"}) /\ ~t.client /\ t.recv = <<>>
    \/ Flushed(s, t, g, k)

LEMMA ServedClient ==
  ASSUME Invariant, srv.client,
         NEW a, a = OpStep(srv), NEW b, b = Notify(a), NEW c, c = ReadSocket(b),
         NEW s, s = [c EXCEPT !.send = <<>>],
         NEW k, k = IF c.client THEN [gdb EXCEPT !.replies = @ \o c.send] ELSE gdb
  PROVE  /\ Served(s, hart, k, PromiseServer(srv)) /\ Told(gdb, k, hart, want)
         /\ Core(b, hart, gdb, PromiseServer(srv)) /\ Socket(b, gdb, s, k)
<1> DEFINE v == PromiseServer(srv)
<1>0. Core(srv, hart, gdb, want) /\ Quiet(srv) /\ SameRegs(want, v)
  BY PromiseServerRegs DEF Invariant, Inv, Core
<1> HIDE DEF v
<1>1. Truthful(srv, a, hart, gdb, want, v)
  BY <1>0, OpStepCore
<1>2. Core(a, hart, gdb, v) /\ a.client
  BY <1>1 DEF Truthful
<1>3. /\ Core(b, hart, gdb, v) /\ b.client /\ b.send = a.send
      /\ b.haltnot => b.queue # <<>>
  BY <1>2, NotifyCore
<1>4. Len(b.recv) < RECV_CAP - 1
  <2>1. Len(b.recv) <= 1 /\ Len(b.recv) \in Nat
    BY <1>3, IsSeqEmpty DEF Core, Wire
  <2> QED BY <2>1, GdbConstants
<1>5. SrvShape(b) /\ GdbShape(gdb)
  BY <1>3 DEF Core
<1> DEFINE e == <<>>
<1> HIDE DEF e
<1>6. CASE ~gdb.link
  <2>1. c = [b EXCEPT !.client = FALSE, !.recv = e, !.send = e]
    BY <1>6 DEF ReadSocket, e
  <2>2. s = [c EXCEPT !.send = e]
    BY DEF e
  <2>3. /\ SrvShape(s) /\ Same(b, s, {"client", "recv", "send"})
        /\ ~s.client /\ s.recv = e /\ s.send = e /\ ~c.client
    <3>1. /\ SrvShape(c) /\ Same(b, c, {"client", "recv", "send"})
          /\ ~c.client /\ c.recv = e
      BY <1>5, <2>1 DEF SrvShape, Same, SrvFields
    <3> QED BY <2>2, <3>1 DEF SrvShape, Same, SrvFields
  <2>4. Core(s, hart, gdb, v) /\ Quiet(s)
    BY <1>3, <1>6, <2>3, DropCore DEF e
  <2>5. k = gdb
    BY <2>3
  <2>6. Socket(b, gdb, s, k)
    BY <1>6, <2>3, <2>5 DEF Socket, e
  <2> QED BY <1>3, <2>3, <2>4, <2>5, <2>6 DEF Served, Told, v, e
<1>7. CASE gdb.link
  <2>1. c = b
    <3>1. ~(~gdb.link \/ Len(b.recv) >= RECV_CAP - 1)
      <4>1. Len(b.recv) \in Nat /\ RECV_CAP \in Nat
        BY <1>3, IsSeqEmpty, GdbConstants DEF Core, Wire
      <4> QED BY <1>4, <1>7, <4>1
    <3> QED BY <3>1 DEF ReadSocket
  <2>2. s = [b EXCEPT !.send = e] /\ k = [gdb EXCEPT !.replies = gdb.replies \o b.send]
    BY <1>3, <2>1 DEF e
  <2>3. SrvShape(s) /\ Same(b, s, {"send"}) /\ s.send = e
    BY <1>5, <2>2 DEF SrvShape, Same, SrvFields
  <2> DEFINE r == gdb.replies \o b.send
  <2> HIDE DEF r
  <2>4. k = [gdb EXCEPT !.replies = r]
    BY <2>2 DEF r
  <2>5. GdbShape(k) /\ k.replies = r /\ \A f \in GdbFields \ {"replies"} : k[f] = gdb[f]
    BY <1>5, <2>4 DEF GdbShape, GdbFields
  <2>6. Core(s, hart, k, v) /\ Quiet(s) /\ Socket(b, gdb, s, k)
    <3>1. s.send = <<>> /\ k.replies = gdb.replies \o b.send
      BY <2>3, <2>5 DEF e, r
    <3>2. Flushed(b, s, gdb, k)
      BY <2>3, <2>5, <3>1 DEF Flushed
    <3>3. Core(b, hart, gdb, v)
      BY <1>3
    <3> QED BY <3>2, <3>3, FlushCore DEF Socket
  <2>7. s.recv = b.recv /\ s.queue = b.queue /\ (s.haltnot <=> b.haltnot)
    BY <2>3 DEF Same, SrvFields
  <2>8. Served(s, hart, k, v)
    BY <1>3, <2>3, <2>6, <2>7 DEF Served, e
  <2>9. Told(gdb, k, hart, want)
    <3> DEFINE p == gdb.replies  d == b.send
    <3>1. IsSeq(p) /\ IsSeq(d) /\ r = p \o d
      BY <1>3 DEF Core, Wire, r
    <3> HIDE DEF p, d
    <3>2. Joined(p, d, p \o d)
      BY <3>1, IsSeqConcat
    <3>3. \A i \in 1 .. Len(d) : TrueReply(d[i], hart, want)
      <4> DEFINE q == srv.send
      <4>1. \A i \in 1 .. Len(q) : TrueReply(q[i], hart, want)
        BY <1>0 DEF Quiet, TrueReply
      <4>2. IsSeq(q)
        BY <1>0 DEF Core, Wire
      <4>3. d = q \/ \E x : d = Append(q, x) /\ TrueReply(x, hart, want)
        BY <1>1, <1>3 DEF Truthful, d
      <4> HIDE DEF q
      <4>4. ASSUME NEW x, d = Append(q, x), TrueReply(x, hart, want)
            PROVE  \A i \in 1 .. Len(d) : TrueReply(d[i], hart, want)
        <5>1. /\ Len(q) \in Nat /\ Len(d) = Len(q) + 1
              /\ \A i \in 1 .. Len(q) : d[i] = q[i]
              /\ d[Len(q) + 1] = x
          BY <4>2, <4>4, IsSeqAppend
        <5>2. \A i \in 1 .. Len(d) : i \in 1 .. Len(q) \/ i = Len(q) + 1
          BY <5>1
        <5> QED BY <4>1, <4>4, <5>1, <5>2
      <4> QED BY <4>1, <4>3, <4>4
    <3> SUFFICES ASSUME NEW i \in (Len(p) + 1) .. Len(r)
                 PROVE  TrueReply(r[i], hart, want)
      BY <2>5 DEF Told, p
    <3>4. Len(p) \in Nat /\ Len(d) \in Nat /\ Len(r) = Len(p) + Len(d)
      BY <3>1, <3>2 DEF Joined
    <3> DEFINE j == i - Len(p)
    <3>5. j \in 1 .. Len(d) /\ i = Len(p) + j
      BY <3>4
    <3> HIDE DEF j
    <3>6. r[i] = d[j]
      BY <3>1, <3>2, <3>5 DEF Joined
    <3> QED BY <3>3, <3>5, <3>6
  <2> QED BY <1>3, <2>6, <2>8, <2>9 DEF v
<1> QED BY <1>6, <1>7

(* A client that connects has its halt queued before anything is read.      *)
LEMMA ServedAccept ==
  ASSUME Invariant, ~srv.client, NEW s, s = accept(srv)
  PROVE  Served(s, hart, gdb, PromiseServer(srv)) /\ Told(gdb, gdb, hart, want)
<1>1. Core(srv, hart, gdb, want)
  BY DEF Invariant, Inv
<1>2. Core(s, hart, gdb, want) /\ s.send = <<>> /\ (s.client => s.queue # <<>>)
  BY <1>1, AcceptCore
<1>3. PromiseServer(srv) = want
  BY DEF PromiseServer
<1>4. Quiet(s)
  <2>1. Len(s.send) = 0
    BY <1>2, TupleSeq
  <2> QED BY <2>1 DEF Quiet
<1>5. ~s.client => s.recv = <<>>
  BY <1>2 DEF Core, Wire
<1>6. Told(gdb, gdb, hart, want)
  <2>1. Len(gdb.replies) \in Nat
    BY <1>1, IsSeqEmpty DEF Core, Wire
  <2> QED BY <2>1 DEF Told
<1> QED BY <1>2, <1>3, <1>4, <1>5, <1>6 DEF Served

LEMMA HandleStep ==
  ASSUME Invariant, Handle
  PROVE  Invariant' /\ Told(gdb, gdb', hart, want)
<1> DEFINE a == OpStep(srv)  b == Notify(a)  c == ReadSocket(b)
           e == [c EXCEPT !.send = <<>>]  f == accept(srv)
           k == IF c.client THEN [gdb EXCEPT !.replies = @ \o c.send] ELSE gdb
           s == IF srv.client THEN e ELSE f
           t == IF s.queue = <<>> THEN process_requests(s) ELSE s
           v == PromiseServer(srv)
<1>1. /\ srv' = t /\ hart' = hart
      /\ gdb' = IF srv.client THEN k ELSE gdb
  BY DEF Handle
<1>2. \E pc : want' = v \/ want' = [v EXCEPT !.pc = pc]
  <2> DEFINE n == Interrupts(s) + 1
             X == s.queue = <<>> /\ n <= Len(s.recv) /\ s.recv[n].k = "c"
                    /\ s.recv[n].addr # NoBp
             d == s.recv[n].addr
  <2>1. want' = IF X THEN [v EXCEPT !.pc = d] ELSE v
    BY DEF Handle
  <2> HIDE DEF X, d, v
  <2> QED BY <2>1
<1>3. srv.client => Served(e, hart, k, v) /\ Told(gdb, k, hart, want)
  BY ServedClient
<1>4. ~srv.client => Served(f, hart, gdb, v) /\ Told(gdb, gdb, hart, want)
  BY ServedAccept
<1> HIDE DEF a, b, c, e, f, k, v
<1>5. Served(s, hart, gdb', v) /\ Told(gdb, gdb', hart, want)
  BY <1>1, <1>3, <1>4
<1> HIDE DEF s
<1>6. Core(t, hart, gdb', v) /\ Quiet(t)
  <2>1. CASE s.queue = <<>>
    <3>1. Idling(s, hart, gdb', v)
      BY <1>5, <2>1 DEF Served, Idling
    <3> QED BY <2>1, <3>1, ProcessCore
  <2>2. CASE s.queue # <<>>
    BY <1>5, <2>2 DEF Served
  <2> QED BY <2>1, <2>2
<1> HIDE DEF t
<1>7. SameRegs(v, want')
  <2>1. WantShape(v)
    BY <1>6 DEF Core
  <2> QED BY <1>2, <2>1 DEF SameRegs, WantShape, WantFields
<1>8. Core(t, hart, gdb', want')
  BY <1>6, <1>7, CoreRegs
<1>9. Inv(srv', hart', gdb', want')
  BY <1>1, <1>6, <1>8 DEF Inv
<1> QED BY <1>5, <1>9 DEF Invariant

-----------------------------------------------------------------------------
(* The hart.                                                               *)

(* A step of the hart outside Debug RAM: the server is not at work for a    *)
(* hart that is not halted, and it finds a halted one as it left it.       *)
SameRam(s, t) == \A f \in RamFields \ {"last"} : t.ram[f] = s.ram[f]
Moves(s, h, t, k) ==
    /\ SrvShape(t) /\ Same(s, t, {"ram", "haltnot"}) /\ SameRam(s, t)
    /\ HartShape(k)
    /\ \/ ~Halted(h)
       \/ /\ Halted(k) /\ k.dpc = h.dpc /\ k.mstatus = h.mstatus
          /\ get_csr(k, "dcsr") = get_csr(h, "dcsr")
          /\ t.haltnot <=> s.haltnot

LEMMA HartMove ==
  ASSUME NEW s, NEW h, NEW g, NEW w, Core(s, h, g, w), NEW t, NEW k, Moves(s, h, t, k),
         NEW v, WantShape(v), Halted(h) => v = w,
         Modes(t, k), Kept(t, k, v)
  PROVE  Core(t, k, g, v) /\ t.send = s.send
<1>0. /\ t.queue = s.queue /\ t.gs = s.gs /\ t.recv = s.recv /\ t.send = s.send
      /\ (t.intr <=> s.intr) /\ (t.dead <=> s.dead)
      /\ (t.client <=> s.client) /\ t.software_breakpoints = s.software_breakpoints
  BY DEF Moves, Same, SrvFields
<1>r. /\ t.ram.prog = s.ram.prog /\ t.ram.d0 = s.ram.d0 /\ t.ram.d1 = s.ram.d1
  BY DEF Moves, SameRam, RamFields
<1>1. /\ Wire(t, g) /\ Acks(t, g) /\ Inserted(t, g)
      /\ (Stopped(t, g) <=> Stopped(s, g)) /\ (Consumed(t, g) <=> Consumed(s, g))
  <2>1. DOMAIN t.software_breakpoints = DOMAIN s.software_breakpoints
    BY <1>0
  <2> QED BY <1>0, <2>1, ConnectionSame DEF Core
<1>2. release(t) <=> release(s)
  BY <1>0, <1>r DEF release
<1>3. Known(t)
  BY <1>0 DEF Core, Known, Uncollected, virtual_memory
<1>4. CASE ~Halted(h)
  <2>1. ~Requested(s.queue)
    BY <1>4 DEF Core, Held
  <2>2. s.intr => s.queue # <<>> /\ s.queue[1].step > 0
    BY <1>4 DEF Core, Posted
  <2>3. Posted(t, k)
    BY <1>0, <1>r, <2>2 DEF Core, Posted, PostedBy
  <2>4. Fetched(t, k, v)
    <3> DEFINE o == s.queue[1]
    <3> SUFFICES ASSUME s.queue # <<>> PROVE FetchedBy(t, k, v, o)
      BY <1>0 DEF Fetched
    <3>1. FetchedBy(s, h, w, o) /\ o.op = "halt"
      BY <2>1 DEF Core, Fetched, Requested
    <3> HIDE DEF o
    <3>2. ~(o.step > 2) /\ ~(o.step = 2 /\ ~s.intr)
      BY <1>4, <3>1 DEF FetchedBy
    <3>3. o.step # 3 /\ o.step # 4
      BY <3>2
    <3> QED BY <1>0, <3>1, <3>2, <3>3 DEF FetchedBy
  <2>5. Held(t, k)
    BY <1>0, <2>1 DEF Held
  <2>6. Settled(s, h) => Settled(t, k)
    BY <1>0, <1>2, <1>4 DEF Settled
  <2>7. Attended(t, k, g)
    BY <1>0, <1>1, <2>6 DEF Core, Attended
  <2> QED BY <1>0, <1>1, <1>3, <2>3, <2>4, <2>5, <2>7 DEF Core, Moves
<1>5. CASE Halted(h)
  <2>1. /\ Halted(k) /\ k.dpc = h.dpc /\ k.mstatus = h.mstatus
        /\ get_csr(k, "dcsr") = get_csr(h, "dcsr")
        /\ (t.haltnot <=> s.haltnot) /\ v = w
    BY <1>5 DEF Moves
  <2>2. Posted(t, k)
    BY <1>0, <1>r, <1>2, <2>1 DEF Core, Posted, PostedBy
  <2>3. Fetched(t, k, v)
    BY <1>0, <1>r, <2>1 DEF Core, Fetched, FetchedBy
  <2>4. Held(t, k)
    BY <1>0, <1>2, <2>1 DEF Core, Held
  <2>5. Settled(s, h) => Settled(t, k)
    BY <1>0, <1>2, <2>1 DEF Settled
  <2>6. Attended(t, k, g)
    BY <1>0, <1>1, <2>5 DEF Core, Attended
  <2> QED BY <1>0, <1>1, <1>3, <2>2, <2>3, <2>4, <2>6 DEF Core, Moves
<1> QED BY <1>4, <1>5

LEMMA HartInv ==
  ASSUME Invariant, Moves(srv, hart, srv', hart'), WantShape(want'),
         Halted(hart) => want' = want, Modes(srv', hart'), Kept(srv', hart', want'),
         gdb' = gdb
  PROVE  Invariant'
<1>1. Core(srv, hart, gdb, want)
  BY DEF Invariant, Inv
<1>2. Core(srv', hart', gdb, want') /\ srv'.send = srv.send
  BY <1>1, HartMove
<1>3. Quiet(srv')
  BY <1>2 DEF Invariant, Inv, Quiet
<1>4. Inv(srv', hart', gdb', want')
  BY <1>2, <1>3 DEF Inv
<1> QED BY <1>4 DEF Invariant

LEMMA MovesSame ==
  ASSUME NEW s, SrvShape(s), NEW h, NEW k, HartShape(k), ~Halted(h)
  PROVE  Moves(s, h, s, k)
  BY DEF Moves, Same, SameRam

LEMMA InvariantFacts ==
  ASSUME Invariant
  PROVE  /\ SrvShape(srv) /\ HartShape(hart) /\ GdbShape(gdb) /\ WantShape(want)
         /\ Modes(srv, hart) /\ Kept(srv, hart, want)
  BY DEF Invariant, Inv, Core

LEMMA EnterFields ==
  ASSUME NEW h, HartShape(h), NEW c, NEW k, k = enter_debug_mode(h, c)
  PROVE  /\ HartShape(k) /\ k.mode = "entry" /\ k.cause = c
         /\ \A f \in {"s0", "s1", "x", "f", "mstatus", "halt", "single_step"} : k[f] = h[f]
         /\ k.dpc = h.pc /\ k.dprv = h.prv
  BY DEF enter_debug_mode, HartShape, HartFields

LEMMA PromiseFields ==
  ASSUME WantShape(want), NEW h
  PROVE  /\ WantShape(Promise(h))
         /\ \A f \in {"s0", "s1", "x", "f"} : Promise(h)[f] = h[f]
         /\ Promise(h).pc = h.pc /\ Promise(h).mstatus = h.mstatus /\ Promise(h).prv = h.prv
  BY DEF Promise, WantShape, WantFields

LEMMA EnterDebugStep ==
  ASSUME Invariant, EnterDebug
  PROVE  Invariant'
<1>1. PICK c \in {"debugint", "halt"} : /\ hart' = enter_debug_mode(hart, c)
                                        /\ c = "debugint" => srv.intr
  BY DEF EnterDebug
<1>2. hart.mode = "run" /\ srv' = srv /\ gdb' = gdb /\ want' = Promise(hart)
  BY DEF EnterDebug
<1>3. /\ HartShape(hart') /\ hart'.mode = "entry" /\ hart'.cause = c
      /\ \A f \in {"s0", "s1", "x", "f", "mstatus", "halt", "single_step"} : hart'[f] = hart[f]
  BY <1>1, InvariantFacts, EnterFields
<1>4. ~Halted(hart)
  BY <1>2 DEF Halted
<1>5. Moves(srv, hart, srv', hart')
  BY <1>2, <1>3, <1>4, MovesSame, InvariantFacts
<1>6. Modes(srv', hart')
  BY <1>1, <1>2, <1>3, InvariantFacts DEF Modes, Causes, NoCause
<1>7. Kept(srv', hart', want')
  BY <1>2, <1>3, InvariantFacts, PromiseFields DEF Kept
<1>8. WantShape(want')
  BY <1>2, InvariantFacts, PromiseFields
<1> QED BY <1>2, <1>4, <1>5, <1>6, <1>7, <1>8, HartInv

LEMMA EntryStep ==
  ASSUME Invariant, Entry
  PROVE  Invariant'
<1>0. hart.mode = "entry" /\ gdb' = gdb /\ want' = want
  BY DEF Entry
<1>1. ~Halted(hart) /\ WantShape(want')
  BY <1>0, InvariantFacts DEF Halted
<1>2. CASE hart.single_step = "stepped"
  <2> DEFINE k == enter_debug_mode(hart, "step")
  <2>1. hart' = [k EXCEPT !.single_step = "none"] /\ srv' = srv
    BY <1>2 DEF Entry
  <2>2. /\ HartShape(k) /\ k.mode = "entry" /\ k.cause = "step"
        /\ \A f \in {"s0", "s1", "x", "f", "mstatus", "halt", "single_step"} : k[f] = hart[f]
    BY InvariantFacts, EnterFields
  <2> HIDE DEF k
  <2>3. /\ HartShape(hart') /\ hart'.mode = "entry" /\ hart'.cause = "step"
        /\ \A f \in {"s0", "s1", "x", "f", "mstatus", "halt"} : hart'[f] = hart[f]
    BY <2>1, <2>2 DEF HartShape, HartFields
  <2>4. Moves(srv, hart, srv', hart')
    BY <1>1, <2>1, <2>3, MovesSame, InvariantFacts
  <2>5. Modes(srv', hart')
    BY <2>1, <2>3, InvariantFacts DEF Modes, Causes, NoCause
  <2>6. Kept(srv', hart', want')
    BY <1>0, <2>1, <2>3, InvariantFacts DEF Kept
  <2> QED BY <1>0, <1>1, <2>4, <2>5, <2>6, HartInv
<1>3. CASE hart.single_step # "stepped" /\ hart.cause = "debugint"
  <2>1. /\ hart' = [hart EXCEPT !.dscratch = hart.s0, !.s0 = Junk, !.mode = "ram"]
        /\ srv' = [srv EXCEPT !.ram.last = hart.s1]
    BY <1>3 DEF Entry
  <2>2. /\ HartShape(hart') /\ hart'.mode = "ram" /\ hart'.dscratch = hart.s0
        /\ \A f \in {"s1", "x", "f", "mstatus", "halt", "cause"} : hart'[f] = hart[f]
    BY <2>1, InvariantFacts DEF HartShape, HartFields
  <2>3. /\ SrvShape(srv') /\ Same(srv, srv', {"ram"}) /\ SameRam(srv, srv')
        /\ srv'.ram.last = hart.s1
    BY <2>1, InvariantFacts DEF SrvShape, Same, SrvFields, SameRam, RamFields
  <2>4. Moves(srv, hart, srv', hart')
    BY <1>1, <2>2, <2>3 DEF Moves, Same
  <2>5. srv'.ram.w0 = srv.ram.w0 /\ srv'.gs = srv.gs /\ (srv'.dead <=> srv.dead)
        /\ (srv'.intr <=> srv.intr)
    BY <2>3 DEF Same, SameRam, SrvFields, RamFields
  <2>6. Modes(srv', hart')
    BY <1>0, <1>3, <2>2, <2>5, InvariantFacts DEF Modes
  <2>7. Kept(srv', hart', want')
    BY <1>0, <2>2, <2>3, InvariantFacts DEF Kept
  <2> QED BY <1>0, <1>1, <2>4, <2>6, <2>7, HartInv
<1>4. CASE hart.single_step # "stepped" /\ hart.cause # "debugint"
  <2>1. /\ hart' = [hart EXCEPT !.dscratch = hart.s0, !.s0 = Junk, !.halt = TRUE, !.mode = "wait"]
        /\ srv' = [srv EXCEPT !.haltnot = TRUE]
    BY <1>4 DEF Entry
  <2>2. /\ HartShape(hart') /\ hart'.mode = "wait" /\ hart'.dscratch = hart.s0 /\ hart'.halt
        /\ \A f \in {"s1", "x", "f", "mstatus", "cause"} : hart'[f] = hart[f]
    BY <2>1, InvariantFacts DEF HartShape, HartFields
  <2>3. /\ SrvShape(srv') /\ Same(srv, srv', {"haltnot"}) /\ SameRam(srv, srv')
    BY <2>1, InvariantFacts DEF SrvShape, Same, SrvFields, SameRam
  <2>4. Moves(srv, hart, srv', hart')
    BY <1>1, <2>2, <2>3 DEF Moves, Same
  <2>5. srv'.ram = srv.ram /\ srv'.gs = srv.gs /\ (srv'.dead <=> srv.dead)
        /\ (srv'.intr <=> srv.intr)
    BY <2>3 DEF Same, SrvFields
  <2>6. Modes(srv', hart')
    BY <1>0, <2>2, <2>5, InvariantFacts DEF Modes
  <2>7. Kept(srv', hart', want')
    BY <1>0, <2>2, InvariantFacts DEF Kept
  <2> QED BY <1>0, <1>1, <2>4, <2>6, <2>7, HartInv
<1> QED BY <1>2, <1>3, <1>4

LEMMA WaitForInterruptStep ==
  ASSUME Invariant, WaitForInterrupt
  PROVE  Invariant'
<1>1. /\ hart.mode = "wait" /\ srv.intr /\ gdb' = gdb /\ want' = want
      /\ hart' = [hart EXCEPT !.s0 = Junk, !.mode = "ram"]
      /\ srv' = [srv EXCEPT !.ram.last = hart.s1]
  BY DEF WaitForInterrupt
<1>2. /\ HartShape(hart') /\ hart'.mode = "ram"
      /\ \A f \in HartFields \ {"s0", "mode"} : hart'[f] = hart[f]
  BY <1>1, InvariantFacts DEF HartShape, HartFields
<1>3. /\ SrvShape(srv') /\ Same(srv, srv', {"ram"}) /\ SameRam(srv, srv')
      /\ srv'.ram.last = hart.s1
  BY <1>1, InvariantFacts DEF SrvShape, Same, SrvFields, SameRam, RamFields
<1>4. Halted(hart') /\ hart'.dpc = hart.dpc /\ hart'.mstatus = hart.mstatus
      /\ get_csr(hart', "dcsr") = get_csr(hart, "dcsr")
  <2>1. hart.halt
    BY <1>1, InvariantFacts DEF Modes
  <2> QED BY <1>2, <2>1 DEF Halted, get_csr, HartFields
<1>5. srv'.ram.w0 = srv.ram.w0 /\ srv'.gs = srv.gs /\ (srv'.dead <=> srv.dead)
      /\ (srv'.intr <=> srv.intr) /\ (srv'.haltnot <=> srv.haltnot)
  BY <1>3 DEF Same, SameRam, SrvFields, RamFields
<1>6. Moves(srv, hart, srv', hart')
  BY <1>2, <1>3, <1>4, <1>5 DEF Moves, Same
<1>7. Modes(srv', hart')
  BY <1>1, <1>2, <1>5, InvariantFacts DEF Modes, HartFields
<1>8. Kept(srv', hart', want')
  BY <1>1, <1>2, <1>3, InvariantFacts DEF Kept, HartFields
<1> QED BY <1>1, <1>6, <1>7, <1>8, HartInv, InvariantFacts

LEMMA CheckHaltStep ==
  ASSUME Invariant, CheckHalt
  PROVE  Invariant'
<1>1. hart.mode = "check" /\ srv' = srv /\ gdb' = gdb /\ want' = want
  BY DEF CheckHalt
<1>2. CASE hart.halt
  <2>1. hart' = [hart EXCEPT !.mode = "wait"]
    BY <1>2 DEF CheckHalt
  <2>2. /\ HartShape(hart') /\ hart'.mode = "wait"
        /\ \A f \in HartFields \ {"mode"} : hart'[f] = hart[f]
    BY <2>1, InvariantFacts DEF HartShape, HartFields
  <2>3. Halted(hart') /\ hart'.dpc = hart.dpc /\ hart'.mstatus = hart.mstatus
        /\ get_csr(hart', "dcsr") = get_csr(hart, "dcsr")
    BY <1>2, <2>2 DEF Halted, get_csr, HartFields
  <2>4. Moves(srv, hart, srv', hart')
    BY <1>1, <2>2, <2>3, InvariantFacts DEF Moves, Same, SameRam
  <2>5. Modes(srv', hart')
    BY <1>1, <1>2, <2>2, InvariantFacts DEF Modes, HartFields
  <2>6. Kept(srv', hart', want')
    BY <1>1, <2>2, InvariantFacts DEF Kept, HartFields
  <2> QED BY <1>1, <2>4, <2>5, <2>6, HartInv, InvariantFacts
<1>3. CASE ~hart.halt
  <2> DEFINE ss == IF hart.step THEN "stepping" ELSE hart.single_step
  <2>1. hart' = [hart EXCEPT !.s0 = hart.dscratch, !.pc = hart.dpc,
                             !.prv = hart.dprv, !.cause = NoCause,
                             !.mode = "run", !.itlb = FALSE, !.icache = {},
                             !.single_step = ss]
    BY <1>3 DEF CheckHalt
  <2> HIDE DEF ss
  <2>2. /\ HartShape(hart') /\ hart'.mode = "run" /\ hart'.cause = NoCause
        /\ hart'.mstatus = hart.mstatus
    BY <2>1, InvariantFacts DEF HartShape, HartFields
  <2>3. ~Halted(hart)
    BY <1>3 DEF Halted
  <2>4. Moves(srv, hart, srv', hart')
    BY <1>1, <2>2, <2>3, MovesSame, InvariantFacts
  <2>5. Modes(srv', hart')
    BY <1>1, <2>2, InvariantFacts DEF Modes, Causes
  <2>6. Kept(srv', hart', want')
    BY <2>2 DEF Kept
  <2> QED BY <1>1, <2>4, <2>5, <2>6, HartInv, InvariantFacts
<1> QED BY <1>2, <1>3

(* An instruction of the program under debug, or what stops it.            *)
RunInsnHart(k) ==
    /\ HartShape(k) /\ DOMAIN k.mstatus = MStatusFields
    /\ \/ k.mode = "run" /\ k.cause = NoCause
       \/ k.mode = "entry" /\ k.cause \in {"hwbp", "swbp", "step"}

LEMMA RunInsnShape ==
  ASSUME Invariant, RunInsn
  PROVE  RunInsnHart(hart')
<1> DEFINE ic == IF hart.single_step = "none" THEN hart.icache \cup {hart.pc} ELSE hart.icache
           ss == IF hart.single_step = "stepping" THEN "stepped" ELSE hart.single_step
           h == [hart EXCEPT !.itlb = TRUE, !.icache = ic, !.single_step = ss]
           n == [h EXCEPT !.s0 = 1 - h.s0, !.s1 = h.s0, !.pc = Successor(hart.pc)]
           m == [n EXCEPT !.single_step = "none"]
           X == mem[FetchCell] = EBREAK /\ hart.ebreak
           Y == n.single_step = "stepped"
<1>0. hart.mode = "run" /\ hart.cause = NoCause /\ DOMAIN hart.mstatus = MStatusFields
  BY InvariantFacts DEF RunInsn, Modes
<1>1. hart' = IF Triggered THEN enter_debug_mode(h, "hwbp")
              ELSE IF X THEN enter_debug_mode(h, "swbp")
              ELSE IF Y THEN enter_debug_mode(m, "step") ELSE n
  BY DEF RunInsn
<1> HIDE DEF ic, ss, X, Y
<1>2. HartShape(h) /\ h.mode = "run" /\ h.cause = NoCause /\ h.mstatus = hart.mstatus
  BY <1>0, InvariantFacts DEF HartShape, HartFields
<1> HIDE DEF h
<1>3. HartShape(n) /\ n.mode = "run" /\ n.cause = NoCause /\ n.mstatus = h.mstatus
  BY <1>2 DEF HartShape, HartFields
<1> HIDE DEF n
<1>4. HartShape(m) /\ m.mstatus = h.mstatus
  BY <1>3 DEF HartShape, HartFields
<1> HIDE DEF m
<1>5. ASSUME NEW j, HartShape(j), j.mstatus = hart.mstatus, NEW c \in {"hwbp", "swbp", "step"}
      PROVE  RunInsnHart(enter_debug_mode(j, c))
  BY <1>0, <1>5, EnterFields DEF RunInsnHart
<1>6. RunInsnHart(n)
  BY <1>0, <1>2, <1>3 DEF RunInsnHart
<1> QED BY <1>1, <1>2, <1>4, <1>5, <1>6

LEMMA RunInsnStep ==
  ASSUME Invariant, RunInsn
  PROVE  Invariant'
<1>1. hart.mode = "run" /\ srv' = srv /\ gdb' = gdb
  BY DEF RunInsn
<1>2. RunInsnHart(hart')
  BY RunInsnShape
<1> DEFINE p == [hart' EXCEPT !.pc = hart'.dpc, !.prv = hart'.dprv]
<1>3. want' = IF hart'.mode = "run" THEN want ELSE Promise(p)
  BY DEF RunInsn
<1>4. \A f \in {"s0", "s1", "x", "f"} : p[f] = hart'[f]
  BY <1>2 DEF RunInsnHart, HartShape, HartFields
<1> HIDE DEF p
<1>5. /\ WantShape(want')
      /\ hart'.mode # "run" => \A f \in {"s0", "s1", "x", "f"} : want'[f] = hart'[f]
  BY <1>3, <1>4, InvariantFacts, PromiseFields
<1>6. ~Halted(hart)
  BY <1>1 DEF Halted
<1>7. Moves(srv, hart, srv', hart')
  BY <1>1, <1>2, <1>6, MovesSame, InvariantFacts DEF RunInsnHart
<1>8. Modes(srv', hart')
  BY <1>1, <1>2, InvariantFacts DEF RunInsnHart, Modes, Causes, NoCause
<1>9. Kept(srv', hart', want')
  BY <1>2, <1>5 DEF RunInsnHart, Kept
<1> QED BY <1>1, <1>5, <1>6, <1>7, <1>8, <1>9, HartInv

LEMMA SwitchSpaceStep ==
  ASSUME Invariant, SwitchSpace
  PROVE  Invariant'
<1>1. hart.mode = "run" /\ srv' = srv /\ gdb' = gdb /\ want' = want
  BY DEF SwitchSpace
<1>2. PICK root \in Roots : hart' = [hart EXCEPT !.sptbr = root, !.itlb = FALSE, !.icache = {}]
  BY DEF SwitchSpace
<1>3. /\ HartShape(hart') /\ hart'.mode = "run" /\ hart'.cause = hart.cause
      /\ hart'.mstatus = hart.mstatus
  BY <1>1, <1>2, InvariantFacts DEF HartShape, HartFields
<1>4. ~Halted(hart)
  BY <1>1 DEF Halted
<1>5. Moves(srv, hart, srv', hart')
  BY <1>1, <1>3, <1>4, MovesSame, InvariantFacts
<1>6. Modes(srv', hart')
  BY <1>1, <1>3, InvariantFacts DEF Modes
<1>7. Kept(srv', hart', want')
  BY <1>3 DEF Kept
<1> QED BY <1>1, <1>5, <1>6, <1>7, HartInv, InvariantFacts

-----------------------------------------------------------------------------
(* The debugger.                                                           *)

LEMMA DebuggerInv ==
  ASSUME Invariant, SrvShape(srv'), Same(srv, srv', {"recv"}), hart' = hart, want' = want,
         GdbShape(gdb'), Wire(srv', gdb'), Acks(srv', gdb'), Inserted(srv', gdb'),
         srv.client /\ gdb'.link /\ (Consumed(srv', gdb') => Stopped(srv', gdb'))
           => Settled(srv, hart)
  PROVE  Invariant'
<1> DEFINE t == srv'
<1>1. Core(srv, hart, gdb, want) /\ Quiet(srv)
  BY DEF Invariant, Inv
<1>2. /\ SrvShape(t) /\ t.queue = srv.queue /\ t.gs = srv.gs /\ t.ram = srv.ram
      /\ t.send = srv.send /\ t.intr = srv.intr /\ (t.dead <=> srv.dead)
      /\ (t.haltnot <=> srv.haltnot) /\ (t.client <=> srv.client)
  BY DEF Same, SrvFields
<1>3. Wire(t, gdb') /\ Acks(t, gdb') /\ Inserted(t, gdb')
  OBVIOUS
<1>4. Attended(t, hart, gdb')
  <2>1. Settled(srv, hart) => Settled(t, hart)
    BY <1>2 DEF Settled, release
  <2> QED BY <1>2, <2>1 DEF Attended
<1> HIDE DEF t
<1>5. Modes(t, hart) /\ Kept(t, hart, want) /\ Chain(t.queue)
  BY <1>1, <1>2 DEF Core, Modes, Kept
<1>6. Posted(t, hart)
  BY <1>1, <1>2 DEF Core, Posted, PostedBy, release
<1>7. Fetched(t, hart, want)
  BY <1>1, <1>2 DEF Core, Fetched, FetchedBy
<1>8. Known(t) /\ Held(t, hart)
  BY <1>1, <1>2 DEF Core, Known, Uncollected, virtual_memory, Held, release
<1>9. Core(t, hart, gdb', want)
  BY <1>1, <1>2, <1>3, <1>4, <1>5, <1>6, <1>7, <1>8 DEF Core
<1>10. Quiet(t)
  BY <1>1, <1>2 DEF Quiet
<1>11. Inv(srv', hart', gdb', want')
  BY <1>9, <1>10 DEF Inv, t
<1> QED BY <1>11 DEF Invariant

LEMMA WireFacts ==
  ASSUME Invariant
  PROVE  Wire(srv, gdb) /\ Acks(srv, gdb) /\ Inserted(srv, gdb) /\ Attended(srv, hart, gdb)
  BY DEF Invariant, Inv, Core

LEMMA SameSelf ==
  ASSUME NEW s, NEW F
  PROVE  Same(s, s, F)
  BY DEF Same

LEMMA ConnectStep ==
  ASSUME Invariant, Connect
  PROVE  Invariant'
<1> DEFINE n == gdb.left - 1  e == <<>>
<1>1. /\ ~gdb.link /\ ~srv.client /\ srv' = srv /\ hart' = hart /\ want' = want
      /\ gdb' = [gdb EXCEPT !.link = TRUE, !.left = n, !.replies = e]
  BY DEF Connect
<1>2. srv.recv = <<>> /\ srv.send = <<>> /\ gdb.pending = "none"
  BY <1>1, WireFacts DEF Wire
<1> HIDE DEF n, e
<1>3. GdbShape(gdb') /\ gdb'.replies = e /\ gdb'.pending = gdb.pending /\ gdb'.bps = gdb.bps
  BY <1>1, InvariantFacts DEF GdbShape, GdbFields
<1>4. ~Packet(srv)
  BY <1>2 DEF Packet
<1>5. IsSeq(e) /\ Len(e) = 0
  BY TupleSeq DEF e
<1>6. Wire(srv', gdb')
  BY <1>1, <1>2, <1>3, <1>4, <1>5, WireFacts DEF Wire
<1>7. Flight(srv', gdb') = <<>>
  BY <1>1, <1>2, <1>3 DEF Flight, e
<1>8. Acks(srv', gdb')
  <2>1. Len(Flight(srv', gdb')) = 0
    BY <1>5, <1>7 DEF e
  <2> QED BY <2>1 DEF Acks
<1>9. Inserted(srv', gdb')
  BY <1>1, <1>3, <1>4, WireFacts DEF Inserted
<1>10. SrvShape(srv') /\ Same(srv, srv', {"recv"})
  BY <1>1, InvariantFacts, SameSelf
<1> QED BY <1>1, <1>3, <1>6, <1>8, <1>9, <1>10, DebuggerInv

LEMMA DisconnectStep ==
  ASSUME Invariant, Disconnect
  PROVE  Invariant'
<1>1. /\ gdb.pending = "none" \/ Resumed
      /\ srv' = srv /\ hart' = hart /\ want' = want
      /\ gdb' = [gdb EXCEPT !.link = FALSE, !.pending = "none", !.stop = FALSE]
  BY DEF Disconnect
<1>2. ~Packet(srv)
  BY <1>1, WireFacts DEF Wire, Resumed
<1>3. /\ GdbShape(gdb') /\ ~gdb'.link /\ gdb'.pending = "none"
      /\ gdb'.replies = gdb.replies /\ gdb'.bps = gdb.bps
  BY <1>1, InvariantFacts DEF GdbShape, GdbFields
<1>4. Wire(srv', gdb')
  BY <1>1, <1>2, <1>3, WireFacts DEF Wire
<1>5. Acks(srv', gdb')
  BY <1>3 DEF Acks
<1>6. Inserted(srv', gdb')
  BY <1>1, <1>2, <1>3, WireFacts DEF Inserted
<1>7. SrvShape(srv') /\ Same(srv, srv', {"recv"})
  BY <1>1, InvariantFacts, SameSelf
<1> QED BY <1>1, <1>3, <1>4, <1>5, <1>6, <1>7, DebuggerInv

(* The server has one more packet to read, and no other.                   *)
LEMMA OneMore ==
  ASSUME NEW p, srv.recv = <<>>, Invariant, srv' = [srv EXCEPT !.recv = Append(@, p)]
  PROVE  /\ SrvShape(srv') /\ Same(srv, srv', {"recv"})
         /\ srv'.recv # <<>> /\ srv'.recv[1] = p /\ IsSeq(srv'.recv) /\ Len(srv'.recv) = 1
<1> DEFINE r == Append(<<>>, p)
<1>1. r = <<p>>
  BY AppendTuples
<1>2. IsSeq(<<p>>) /\ Len(<<p>>) = 1 /\ <<p>>[1] = p
  BY TupleSeq
<1> HIDE DEF r
<1>3. srv' = [srv EXCEPT !.recv = r]
  BY DEF r
<1>4. SrvShape(srv') /\ Same(srv, srv', {"recv"}) /\ srv'.recv = r
  BY <1>3, InvariantFacts DEF SrvShape, Same, SrvFields
<1>5. r # <<>>
  BY <1>1
<1> QED BY <1>1, <1>2, <1>4, <1>5

(* The stop reply of a request to resume, if it is on its way, was before.  *)
Hears(s, g, t, k) ==
    /\ SrvShape(t) /\ Same(s, t, {"recv"})
    /\ Consumed(t, k) => Consumed(s, g) /\ (Stopped(t, k) => Stopped(s, g))
    /\ Consumed(s, g) => Stopped(s, g) \/ Consumed(t, k)

LEMMA InterruptStep ==
  ASSUME Invariant, Interrupt
  PROVE  Invariant' /\ Hears(srv, gdb, srv', gdb')
<1> DEFINE p == [k |-> "ctrl_c"]
<1>1. /\ gdb.link /\ srv.client /\ gdb.pending = "c" /\ gdb.acked /\ ~gdb.stop
      /\ srv' = [srv EXCEPT !.recv = Append(@, p)] /\ hart' = hart /\ want' = want
      /\ gdb' = [gdb EXCEPT !.stop = TRUE]
  BY DEF Interrupt, Resumed
<1>2. ~Packet(srv) /\ srv.recv = <<>>
  BY <1>1, WireFacts DEF Wire
<1>p. p.k = "ctrl_c"
  OBVIOUS
<1> HIDE DEF p
<1>3. /\ SrvShape(srv') /\ Same(srv, srv', {"recv"})
      /\ srv'.recv # <<>> /\ srv'.recv[1] = p /\ IsSeq(srv'.recv) /\ Len(srv'.recv) = 1
  BY <1>1, <1>2, OneMore
<1>4. /\ GdbShape(gdb') /\ gdb'.stop
      /\ \A f \in GdbFields \ {"stop"} : gdb'[f] = gdb[f]
  BY <1>1, InvariantFacts DEF GdbShape, GdbFields
<1>5. ~Packet(srv')
  BY <1>3, <1>p DEF Packet
<1>6. srv'.client /\ srv'.send = srv.send /\ srv'.software_breakpoints = srv.software_breakpoints
  BY <1>1, <1>3 DEF Same, SrvFields
<1>7. /\ gdb'.link /\ gdb'.pending = gdb.pending /\ gdb'.acked /\ gdb'.replies = gdb.replies
      /\ gdb'.bps = gdb.bps
  BY <1>1, <1>4 DEF GdbFields
<1>8. Wire(srv', gdb')
  BY <1>3, <1>4, <1>5, <1>6, <1>7, WireFacts DEF Wire
<1>9. Flight(srv', gdb') = Flight(srv, gdb)
  BY <1>6, <1>7 DEF Flight
<1>10. Acks(srv', gdb')
  BY <1>1, <1>2, <1>5, <1>7, <1>9, WireFacts DEF Acks
<1>11. Inserted(srv', gdb')
  BY <1>2, <1>5, <1>6, <1>7, WireFacts DEF Inserted
<1>12. Consumed(srv', gdb') /\ Consumed(srv, gdb) /\ (Stopped(srv', gdb') => Stopped(srv, gdb))
  BY <1>1, <1>2, <1>5, <1>7, <1>9 DEF Consumed, Stopped
<1>13. Stopped(srv', gdb') => Settled(srv, hart)
  BY <1>1, <1>12, WireFacts DEF Attended
<1>14. Invariant'
  BY <1>1, <1>3, <1>4, <1>8, <1>10, <1>11, <1>12, <1>13, DebuggerInv
<1> QED BY <1>3, <1>12, <1>14 DEF Hears

(* What gdb believes to be inserted once it has sent p.                     *)
NewBps(p) == CASE p.k = "Z" -> gdb.bps \cup {<<p.type, p.addr>>}
               [] p.k = "z" -> gdb.bps \ {<<p.type, p.addr>>}
               [] OTHER -> gdb.bps

LEMMA SendRequestStep ==
  ASSUME Invariant, SendRequest
  PROVE  Invariant' /\ Hears(srv, gdb, srv', gdb') /\ Packet(srv')
<1> DEFINE n == gdb.left - 1
<1>0. PICK p \in Packets :
        /\ Allowed(p)
        /\ srv' = [srv EXCEPT !.recv = Append(@, p)]
        /\ gdb' = [gdb EXCEPT !.left = n, !.pending = p.k, !.acked = FALSE,
                              !.bps = NewBps(p)]
  BY DEF SendRequest, NewBps
<1>1. /\ gdb.link /\ srv.client /\ gdb.pending = "none" /\ hart' = hart /\ want' = want
      /\ \A i \in 1 .. Len(srv.recv) : srv.recv[i].k # "ctrl_c"
  BY DEF SendRequest
<1>k. p.k \notin {"ctrl_c", "none"}
  BY GdbConstants
<1>2. ~Packet(srv) /\ srv.recv = <<>>
  <2>1. ~Packet(srv) /\ IsSeq(srv.recv) /\ Len(srv.recv) <= 1
    BY <1>1, WireFacts DEF Wire
  <2>2. Len(srv.recv) \in Nat /\ (srv.recv = <<>> <=> Len(srv.recv) = 0)
    BY <2>1, IsSeqEmpty
  <2>3. CASE Len(srv.recv) = 1
    <3>1. 1 \in 1 .. Len(srv.recv)
      BY <2>3
    <3>2. srv.recv[1].k # "ctrl_c"
      BY <1>1, <3>1
    <3> QED BY <2>1, <2>2, <2>3, <3>2 DEF Packet
  <2>4. CASE Len(srv.recv) = 0
    BY <2>1, <2>2, <2>4
  <2> DEFINE l == Len(srv.recv)
  <2>5. l = 0 \/ l = 1
    <3>1. l \in Nat /\ l <= 1
      BY <2>1, <2>2
    <3> HIDE DEF l
    <3> QED BY <3>1
  <2> QED BY <2>3, <2>4, <2>5
<1> DEFINE b == NewBps(p)
<1> HIDE DEF n, b
<1>3. /\ SrvShape(srv') /\ Same(srv, srv', {"recv"})
      /\ srv'.recv # <<>> /\ srv'.recv[1] = p /\ IsSeq(srv'.recv) /\ Len(srv'.recv) = 1
  BY <1>0, <1>2, OneMore
<1>4. /\ GdbShape(gdb') /\ gdb'.link /\ gdb'.pending = p.k /\ ~gdb'.acked
      /\ gdb'.replies = gdb.replies /\ gdb'.bps = b
  <2>1. gdb' = [gdb EXCEPT !.left = n, !.pending = p.k, !.acked = FALSE, !.bps = b]
    BY <1>0 DEF b
  <2> QED BY <1>1, <2>1, InvariantFacts DEF GdbShape, GdbFields
<1>5. Packet(srv')
  BY <1>3, <1>k DEF Packet
<1>6. srv'.client /\ srv'.send = srv.send /\ srv'.software_breakpoints = srv.software_breakpoints
  BY <1>1, <1>3 DEF Same, SrvFields
<1>7. Wire(srv', gdb')
  BY <1>3, <1>4, <1>5, <1>6, <1>k, WireFacts DEF Wire
<1>8. Flight(srv', gdb') = Flight(srv, gdb)
  BY <1>4, <1>6 DEF Flight
<1>9. Acks(srv', gdb')
  <2>1. \A i \in 1 .. Len(Flight(srv, gdb)) : ~IsAck(Flight(srv, gdb)[i])
    BY <1>1, WireFacts DEF Acks
  <2> QED BY <1>8, <2>1 DEF Acks
<1>10. Inserted(srv', gdb')
  <2>1. \A a : <<"sw", a>> \in gdb.bps => a \in DOMAIN srv.software_breakpoints
    BY <1>2, WireFacts DEF Inserted
  <2>2. ASSUME NEW a, <<"sw", a>> \in b
        PROVE  \/ a \in DOMAIN srv.software_breakpoints
               \/ p.k = "Z" /\ p.type = "sw" /\ p.addr = a
    <3>1. <<"sw", a>> \in gdb.bps \/ (p.k = "Z" /\ <<"sw", a>> = <<p.type, p.addr>>)
      BY <2>2 DEF b, NewBps
    <3>2. <<"sw", a>> = <<p.type, p.addr>> => p.type = "sw" /\ p.addr = a
      OBVIOUS
    <3> QED BY <2>1, <3>1, <3>2
  <2>3. p.k = "z" /\ p.type = "sw" =>
          p.addr \in DOMAIN srv.software_breakpoints /\ <<"sw", p.addr>> \notin b
    <3> SUFFICES ASSUME p.k = "z", p.type = "sw"
                 PROVE  p.addr \in DOMAIN srv.software_breakpoints /\ <<"sw", p.addr>> \notin b
      OBVIOUS
    <3>1. <<p.type, p.addr>> \in gdb.bps
      BY <1>0 DEF Allowed
    <3>2. b = gdb.bps \ {<<p.type, p.addr>>}
      BY DEF b, NewBps
    <3> QED BY <2>1, <3>1, <3>2
  <2> QED BY <1>3, <1>4, <1>5, <1>6, <2>2, <2>3 DEF Inserted
<1>11. Settled(srv, hart)
  <2>1. ~Consumed(srv, gdb)
    BY <1>1 DEF Consumed
  <2> QED BY <1>1, <2>1, WireFacts DEF Attended
<1>12. Invariant'
  BY <1>1, <1>3, <1>4, <1>7, <1>9, <1>10, <1>11, DebuggerInv
<1> QED BY <1>1, <1>3, <1>5, <1>12 DEF Hears, Consumed

(* f is e without its first reply.                                         *)
Shorter(e, f) == /\ Len(e) \in Nat \ {0} /\ Len(f) = Len(e) - 1
                 /\ \A i \in 1 .. Len(f) : i + 1 \in 1 .. Len(e) /\ f[i] = e[i + 1]

LEMMA FlightTail ==
  ASSUME NEW a, NEW b, IsSeq(a), IsSeq(b), a # <<>>
  PROVE  Shorter(a \o b, Tail(a) \o b) /\ IsSeq(Tail(a)) /\ (a \o b)[1] = Head(a)
<1> DEFINE e == a \o b  c == Tail(a)  f == c \o b
<1>1. /\ IsSeq(c) /\ Len(a) \in Nat \ {0} /\ Len(c) = Len(a) - 1
      /\ \A i \in 1 .. Len(a) - 1 : c[i] = a[i + 1]
      /\ Head(a) = a[1]
  BY IsSeqTail
<1> HIDE DEF c
<1>2. Joined(a, b, e) /\ Joined(c, b, f)
  BY <1>1, IsSeqConcat
<1> HIDE DEF e, f
<1>3. Len(e) \in Nat \ {0} /\ Len(f) = Len(e) - 1
  BY <1>1, <1>2 DEF Joined
<1>4. ASSUME NEW i \in 1 .. Len(f) PROVE i + 1 \in 1 .. Len(e) /\ f[i] = e[i + 1]
  <2>1. i + 1 \in 1 .. Len(e)
    BY <1>3
  <2>2. CASE i <= Len(c)
    <3>1. i \in 1 .. Len(c) /\ i + 1 \in 1 .. Len(a) /\ i \in 1 .. Len(a) - 1
      BY <1>1, <2>2
    <3>2. f[i] = c[i] /\ e[i + 1] = a[i + 1]
      BY <1>2, <3>1 DEF Joined
    <3> QED BY <1>1, <2>1, <3>1, <3>2
  <2>3. CASE ~(i <= Len(c))
    <3> DEFINE j == i - Len(c)
    <3>1. j \in 1 .. Len(b) /\ i = Len(c) + j /\ i + 1 = Len(a) + j
      BY <1>1, <1>2, <2>3 DEF Joined
    <3> HIDE DEF j
    <3>2. f[i] = b[j] /\ e[i + 1] = b[j]
      BY <1>2, <3>1 DEF Joined
    <3> QED BY <2>1, <3>2
  <2> QED BY <2>2, <2>3
<1>5. e[1] = a[1]
  BY <1>1, <1>2 DEF Joined
<1> QED BY <1>1, <1>3, <1>4, <1>5 DEF Shorter, e, f, c

LEMMA ReceiveReplyStep ==
  ASSUME Invariant, ReceiveReply
  PROVE  Invariant' /\ Hears(srv, gdb, srv', gdb')
<1> DEFINE r == Head(gdb.replies)[1]
           resumed == gdb.pending \in {"c", "s"} /\ gdb.acked
           answer == IF resumed THEN r \in StopReplies ELSE gdb.acked \/ r = "-"
           k == Hear(gdb, Head(gdb.replies))
           q == Tail(gdb.replies)
           e == Flight(srv, gdb)
           f == Flight(srv', gdb')
<1>2. k = [gdb EXCEPT !.acked = gdb.acked \/ r = "+",
                      !.pending = IF answer THEN "none" ELSE gdb.pending,
                      !.stop = gdb.stop /\ ~answer]
  BY DEF Hear
<1>0. k.replies = gdb.replies
  <2> HIDE DEF k, r, answer
  <2> QED BY <1>2, InvariantFacts DEF GdbShape, GdbFields
<1>1. /\ gdb.link /\ gdb.replies # <<>> /\ srv' = srv /\ hart' = hart /\ want' = want
      /\ gdb' = [k EXCEPT !.replies = q]
  <2>1. /\ gdb.link /\ gdb.replies # <<>> /\ srv' = srv /\ hart' = hart /\ want' = want
        /\ gdb' = [k EXCEPT !.replies = Tail(k.replies)]
    BY DEF ReceiveReply
  <2> HIDE DEF k
  <2> QED BY <1>0, <2>1
<1> HIDE DEF k, q, answer
<1>3. /\ GdbShape(k) /\ (k.acked <=> gdb.acked \/ r = "+")
      /\ k.pending = (IF answer THEN "none" ELSE gdb.pending)
      /\ (k.stop <=> gdb.stop /\ ~answer)
      /\ (k.link <=> gdb.link) /\ k.bps = gdb.bps
  BY <1>2, InvariantFacts DEF GdbShape, GdbFields
<1>4. /\ GdbShape(gdb') /\ (gdb'.acked <=> gdb.acked \/ r = "+")
      /\ gdb'.pending = (IF answer THEN "none" ELSE gdb.pending)
      /\ (gdb'.stop <=> gdb.stop /\ ~answer)
      /\ gdb'.link /\ gdb'.bps = gdb.bps /\ gdb'.replies = q
  BY <1>1, <1>3 DEF GdbShape, GdbFields
<1>5. Shorter(e, f) /\ IsSeq(q) /\ e[1][1] = r
  <2>1. IsSeq(gdb.replies) /\ IsSeq(srv.send)
    BY WireFacts DEF Wire
  <2>2. f = q \o srv.send
    BY <1>1, <1>4 DEF Flight
  <2>3. e = gdb.replies \o srv.send
    BY DEF Flight
  <2> QED BY <1>1, <2>1, <2>2, <2>3, FlightTail DEF q
<1> HIDE DEF e, f, r
<1>6. /\ \A i \in 1 .. Len(e) : IsAck(e[i]) =>
           /\ ~gdb.acked /\ gdb.pending # "none" /\ ~Packet(srv)
           /\ e[i][1] = "-" => gdb.pending = "badsum"
           /\ \A j \in 1 .. Len(e) : IsAck(e[j]) => i = j
      /\ 1 \in 1 .. Len(e)
  BY <1>1, <1>5, WireFacts DEF Acks, e, Shorter
<1>7. r \in {"+", "-"} => /\ IsAck(e[1]) /\ ~gdb.acked /\ ~Packet(srv)
                          /\ r = "-" => gdb.pending = "badsum"
  BY <1>5, <1>6 DEF IsAck
<1>8. Wire(srv', gdb')
  <2>1. Packet(srv) => ~gdb.acked /\ r \notin {"+", "-"}
    BY <1>7, WireFacts DEF Wire
  <2>2. Packet(srv) => ~answer
    BY <2>1 DEF answer
  <2>3. Packet(srv) => ~gdb'.acked /\ gdb'.pending = gdb.pending
    BY <1>4, <2>1, <2>2
  <2> QED BY <1>1, <1>4, <1>5, <2>3, WireFacts DEF Wire
<1>9. Acks(srv', gdb')
  <2> SUFFICES ASSUME NEW i \in 1 .. Len(f), IsAck(f[i])
               PROVE  /\ ~gdb'.acked /\ gdb'.pending # "none" /\ ~Packet(srv)
                      /\ f[i][1] = "-" => gdb'.pending = "badsum"
                      /\ \A j \in 1 .. Len(f) : IsAck(f[j]) => i = j
    BY <1>1 DEF Acks, f
  <2>1. i + 1 \in 1 .. Len(e) /\ f[i] = e[i + 1] /\ i + 1 # 1
    BY <1>5 DEF Shorter
  <2>2. ~gdb.acked /\ gdb.pending # "none" /\ ~Packet(srv)
    BY <1>6, <2>1
  <2>3. r \notin {"+", "-"}
    BY <1>6, <1>7, <2>1
  <2>4. ~answer
    BY <2>2, <2>3 DEF answer
  <2>5. ~gdb'.acked /\ gdb'.pending = gdb.pending
    BY <1>4, <2>2, <2>3, <2>4
  <2>6. ASSUME NEW j \in 1 .. Len(f), IsAck(f[j]) PROVE i = j
    <3>1. j + 1 \in 1 .. Len(e) /\ IsAck(e[j + 1])
      BY <1>5, <2>6 DEF Shorter
    <3>2. i + 1 = j + 1
      BY <1>6, <2>1, <3>1
    <3> QED BY <3>2
  <2> QED BY <1>6, <2>1, <2>2, <2>5, <2>6
<1>10. Inserted(srv', gdb')
  BY <1>1, <1>4, WireFacts DEF Inserted
<1>11. ASSUME Consumed(srv, gdb), Consumed(srv', gdb') => Stopped(srv', gdb')
       PROVE  Stopped(srv, gdb)
  <2>1. gdb.pending \in {"c", "s"} /\ ~Packet(srv)
    BY <1>11 DEF Consumed
  <2>2. CASE answer
    <3>1. gdb.acked /\ r \in StopReplies
      BY <1>7, <2>1, <2>2 DEF answer
    <3> QED BY <1>5, <1>6, <3>1 DEF Stopped, e
  <2>3. CASE ~answer
    <3>1. Stopped(srv', gdb')
      BY <1>1, <1>4, <1>11, <2>1, <2>3 DEF Consumed
    <3>2. PICK i \in 1 .. Len(f) : /\ f[i][1] \in StopReplies
                                   /\ gdb'.acked \/ \E j \in 1 .. i - 1 : f[j][1] = "+"
      BY <3>1 DEF Stopped, f
    <3>3. i + 1 \in 1 .. Len(e) /\ e[i + 1][1] \in StopReplies
      BY <1>5, <3>2 DEF Shorter
    <3>4. gdb.acked \/ \E j \in 1 .. (i + 1) - 1 : e[j][1] = "+"
      <4>1. CASE gdb'.acked
        <5>1. gdb.acked \/ e[1][1] = "+"
          BY <1>4, <1>5, <4>1
        <5>2. 1 \in 1 .. (i + 1) - 1
          OBVIOUS
        <5> QED BY <5>1, <5>2
      <4>2. CASE ~gdb'.acked
        <5>1. PICK j \in 1 .. i - 1 : f[j][1] = "+"
          BY <3>2, <4>2
        <5>2. j \in 1 .. Len(f) /\ j + 1 \in 1 .. (i + 1) - 1
          BY <1>5 DEF Shorter
        <5>3. e[j + 1][1] = "+"
          BY <1>5, <5>1, <5>2 DEF Shorter
        <5> QED BY <5>2, <5>3
      <4> QED BY <4>1, <4>2
    <3> QED BY <3>3, <3>4 DEF Stopped, e
  <2> QED BY <2>2, <2>3
<1>12. SrvShape(srv') /\ Same(srv, srv', {"recv"})
  BY <1>1, InvariantFacts, SameSelf
<1>13. Invariant'
  <2>1. srv.client /\ (Consumed(srv', gdb') => Stopped(srv', gdb')) => Settled(srv, hart)
    BY <1>1, <1>11, WireFacts DEF Attended
  <2> QED BY <1>1, <1>4, <1>8, <1>9, <1>10, <1>12, <2>1, DebuggerInv
<1>14. Consumed(srv', gdb') => Consumed(srv, gdb)
  BY <1>1, <1>4 DEF Consumed
<1> QED BY <1>11, <1>12, <1>13, <1>14 DEF Hears

-----------------------------------------------------------------------------
(* The execution of the program in Debug RAM.                              *)

InRam(s, h, w) ==
    /\ SrvShape(s) /\ HartShape(h) /\ DOMAIN h.mstatus = MStatusFields
    /\ s.ram.w0 \in {0, XLEN}
    /\ h.x = w.x /\ h.f = w.f /\ h.dscratch = w.s0 /\ s.ram.last = w.s1
Starts(s, h, m) == MShape(m) /\ m.ok /\ m.h = h /\ m.ram = s.ram

(* The program has left the state of the program under debug as v has it,   *)
(* and the hart halted, unless it was there to release it.                 *)
Ran(s, h, v, m) ==
    /\ MShape(m) /\ m.ram.prog = s.ram.prog /\ m.ram.w0 \in {0, XLEN}
    /\ m.h.cause = h.cause /\ DOMAIN m.h.mstatus = MStatusFields
    /\ m.h.single_step = h.single_step
    /\ m.h.dscratch = v.s0 /\ m.ram.last = v.s1 /\ m.h.x = v.x /\ m.h.f = v.f
    /\ h.halt /\ ~release(s) => m.h.halt

LEMMA RanCalm ==
  ASSUME NEW s, NEW h, NEW w, InRam(s, h, w), NEW m, Starts(s, h, m), NEW v, SameRegs(w, v),
         NEW p, AllCalm(p), NEW n, n = RunProgram(m, p)
  PROVE  Ran(s, h, v, n)
<1>1. Undisturbed(m, n)
  BY CalmRun DEF Starts
<1> QED BY <1>1 DEF Undisturbed, SameHart, Starts, InRam, Ran, SameRegs

(* Nothing but the fields in F is changed, and nothing in Debug RAM that    *)
(* matters here.                                                           *)
Touches(m, n, F) ==
    /\ MShape(n) /\ Others(m.h, n.h, F)
    /\ n.ram.prog = m.ram.prog /\ n.ram.w0 = m.ram.w0

LEMMA RanTouches ==
  ASSUME NEW s, NEW h, NEW w, InRam(s, h, w), NEW m, Starts(s, h, m), NEW v,
         NEW n, NEW F \in {{"s0", "mstatus"}, {"s0", "dpc"}, {"s0", "dscratch"}, {"s0"},
                           {"s0", "x"}, {"s0", "mstatus", "f"},
                           {"s0", "dprv", "step", "ebreak", "halt"}}, Touches(m, n, F),
         "mstatus" \in F => DOMAIN n.h.mstatus = MStatusFields,
         "halt" \in F => release(s),
         v.s0 = (IF "dscratch" \in F THEN n.h.dscratch ELSE w.s0),
         v.x = (IF "x" \in F THEN n.h.x ELSE w.x),
         v.f = (IF "f" \in F THEN n.h.f ELSE w.f),
         v.s1 = n.ram.last
  PROVE  Ran(s, h, v, n)
<1>1. MShape(n) /\ n.ram.prog = s.ram.prog /\ n.ram.w0 \in {0, XLEN}
  BY DEF Touches, Starts, InRam
<1>2. \A f \in HartFields \ F : n.h[f] = h[f]
  BY DEF Touches, Starts, Others
<1>3. n.h.cause = h.cause /\ n.h.single_step = h.single_step
  BY <1>2 DEF HartFields
<1>4. DOMAIN n.h.mstatus = MStatusFields
  <2>1. "mstatus" \notin F => n.h.mstatus = h.mstatus
    BY <1>2 DEF HartFields
  <2> QED BY <2>1 DEF InRam
<1>5. n.h.dscratch = v.s0
  <2>1. "dscratch" \notin F => n.h.dscratch = h.dscratch
    BY <1>2 DEF HartFields
  <2> QED BY <2>1 DEF InRam
<1>6. n.h.x = v.x
  <2>1. "x" \notin F => n.h.x = h.x
    BY <1>2 DEF HartFields
  <2> QED BY <2>1 DEF InRam
<1>7. n.h.f = v.f
  <2>1. "f" \notin F => n.h.f = h.f
    BY <1>2 DEF HartFields
  <2> QED BY <2>1 DEF InRam
<1>8. h.halt /\ ~release(s) => n.h.halt
  <2>1. "halt" \notin F => n.h.halt = h.halt
    BY <1>2 DEF HartFields
  <2> QED BY <2>1
<1> QED BY <1>1, <1>3, <1>4, <1>5, <1>6, <1>7, <1>8 DEF Ran

(* One more calm instruction after the first two.                          *)
LEMMA TouchesCalm ==
  ASSUME NEW m, NEW n, NEW F, Touches(m, n, F), "s0" \in F, NEW i, NEW k, k = Execute(n, i),
         i = fence_i \/ \E r : \E slot \in {"d0", "d1"} : i = fsd(r, slot)
  PROVE  Touches(m, k, F) /\ k.ram.last = n.ram.last
<1>1. MShape(n)
  BY DEF Touches
<1>2. CASE i = fence_i
  <2>1. ~Faults(n, i) /\ Effect(n, i) = n
    BY <1>2 DEF Faults, Effect, Name, fence_i
  <2>2. k = n
    BY <2>1 DEF Execute
  <2> QED BY <2>2
<1>3. CASE \E r : \E slot \in {"d0", "d1"} : i = fsd(r, slot)
  <2>1. PICK r : \E slot \in {"d0", "d1"} : i = fsd(r, slot)
    BY <1>3
  <2>a. PICK slot \in {"d0", "d1"} : i = fsd(r, slot)
    BY <2>1
  <2>2. Name(i) = "fsd" /\ B(i) = slot
    BY <2>a DEF fsd, Name, B
  <2> DEFINE d == SetFault(n)  e == SetSlot(n, slot, RegValue(n, "f"))
  <2>3. Effect(n, i) = e
    BY <2>2 DEF Effect
  <2>4. k \in {n, d, e}
    BY <2>3 DEF Execute
  <2>5. MShape(d) /\ d.h = n.h /\ d.ram = n.ram
    BY <1>1 DEF SetFault, MShape
  <2>6. SlotSet(n, slot, RegValue(n, "f"), e)
    BY <1>1, SetSlotFields
  <2>7. MShape(e) /\ e.h = n.h /\ \A f \in RamFields \ {slot} : e.ram[f] = n.ram[f]
    BY <2>6 DEF SlotSet
  <2> HIDE DEF d, e
  <2>8. e.ram.prog = n.ram.prog /\ e.ram.w0 = n.ram.w0 /\ e.ram.last = n.ram.last
    BY <2>7 DEF RamFields
  <2> QED BY <2>4, <2>5, <2>7, <2>8 DEF Touches
<1> QED BY <1>2, <1>3

LEMMA TouchesLoadCsrw ==
  ASSUME NEW s, NEW h, NEW m, Starts(s, h, m), NEW slot \in {"d0", "d1"},
         NEW c \in {"dpc", "mstatus", "dscratch", "dcsr"}, NEW k,
         k = Execute(Execute(m, dr_load("s0", slot)), csrw("s0", c))
  PROVE  /\ c # "dcsr" => Touches(m, k, {"s0", c}) /\ k.h[c] = s.ram[slot]
         /\ c = "dcsr" => Touches(m, k, {"s0", "dprv", "step", "ebreak", "halt"})
         /\ k.ram = s.ram /\ k.ok /\ MShape(k)
<1>1. MShape(m) /\ m.ok /\ m.ram = s.ram
  BY DEF Starts
<1>2. /\ MShape(k) /\ k.ok /\ k.ram = m.ram
      /\ c # "dcsr" => k.h[c] = m.ram[slot] /\ Others(m.h, k.h, {"s0", c})
      /\ c = "dcsr" => Others(m.h, k.h, {"s0", "dprv", "step", "ebreak", "halt"})
  <2>1. Loaded(m, slot, c, k)
    BY <1>1, LoadCsrw
  <2> QED BY <2>1 DEF Loaded
<1>3. k.ram = s.ram /\ k.ok /\ MShape(k)
  BY <1>1, <1>2
<1>4. k.ram.prog = m.ram.prog /\ k.ram.w0 = m.ram.w0
  BY <1>2
<1>5. ASSUME NEW F, Others(m.h, k.h, F) PROVE Touches(m, k, F)
  BY <1>3, <1>4, <1>5 DEF Touches
<1>6. k.ram[slot] = s.ram[slot] /\ m.ram[slot] = s.ram[slot]
  BY <1>1, <1>3
<1>7. CASE c = "dcsr"
  BY <1>2, <1>3, <1>5, <1>7
<1>8. CASE c # "dcsr"
  BY <1>2, <1>3, <1>5, <1>6, <1>8
<1> QED BY <1>7, <1>8

LEMMA RanRelease ==
  ASSUME NEW s, NEW h, NEW w, InRam(s, h, w), NEW m, Starts(s, h, m), release(s),
         NEW n, n = RunProgram(m, dcsr_program)
  PROVE  Ran(s, h, w, n)
<1>1. n = Execute(Execute(m, dr_load("s0", "d0")), csrw("s0", "dcsr"))
  BY RunShort DEF dcsr_program
<1>2. Touches(m, n, {"s0", "dprv", "step", "ebreak", "halt"}) /\ n.ram = s.ram
  BY <1>1, TouchesLoadCsrw
<1> DEFINE F == {"s0", "dprv", "step", "ebreak", "halt"}
<1>3. w.s1 = n.ram.last
  BY <1>2 DEF InRam
<1>4. {"mstatus", "dscratch", "x", "f"} \cap F = {}
  OBVIOUS
<1> QED BY <1>2, <1>3, <1>4, RanTouches

LEMMA RanDpc ==
  ASSUME NEW s, NEW h, NEW w, InRam(s, h, w), NEW m, Starts(s, h, m),
         NEW p \in DpcPrograms, NEW n, n = RunProgram(m, p)
  PROVE  Ran(s, h, w, n)
<1> DEFINE k == Execute(Execute(m, dr_load("s0", "d0")), csrw("s0", "dpc"))  F == {"s0", "dpc"}
<1>1. n = k \/ n = Execute(k, fence_i)
  BY RunShort DEF DpcPrograms
<1>2. Touches(m, k, F) /\ k.ram = s.ram
  BY TouchesLoadCsrw
<1> HIDE DEF k
<1>3. Touches(m, n, F) /\ n.ram.last = s.ram.last
  BY <1>1, <1>2, TouchesCalm
<1>4. w.s1 = n.ram.last
  BY <1>3 DEF InRam
<1> QED BY <1>3, <1>4, RanTouches

LEMMA RanMstatus ==
  ASSUME NEW s, NEW h, NEW w, InRam(s, h, w), NEW m, Starts(s, h, m),
         DOMAIN s.ram.d0 = MStatusFields, NEW n, n = RunProgram(m, mstatus_program)
  PROVE  Ran(s, h, w, n)
<1> DEFINE F == {"s0", "mstatus"}
<1>1. n = Execute(Execute(m, dr_load("s0", "d0")), csrw("s0", "mstatus"))
  BY RunShort DEF mstatus_program
<1>2. Touches(m, n, F) /\ n.ram = s.ram /\ n.h.mstatus = s.ram.d0
  BY <1>1, TouchesLoadCsrw
<1>3. w.s1 = n.ram.last
  BY <1>2 DEF InRam
<1> QED BY <1>2, <1>3, RanTouches

LEMMA RanFread ==
  ASSUME NEW s, NEW h, NEW w, InRam(s, h, w), NEW m, Starts(s, h, m),
         FsValue(s.ram.d1), NEW n, n = RunProgram(m, FReadProgram)
  PROVE  Ran(s, h, w, n)
<1> DEFINE F == {"s0", "mstatus"}
           k == Execute(Execute(m, dr_load("s0", "d1")), csrw("s0", "mstatus"))
<1>1. n = Execute(k, fsd("f", "d0"))
  BY RunShort DEF FReadProgram
<1>2. Touches(m, k, F) /\ k.ram = s.ram /\ k.h.mstatus = s.ram.d1
  BY TouchesLoadCsrw
<1>3. Touches(m, n, F) /\ n.ram.last = k.ram.last
  <2> DEFINE i == fsd("f", "d0")
  <2>1. \E r : \E slot \in {"d0", "d1"} : i = fsd(r, slot)
    OBVIOUS
  <2>2. n = Execute(k, i)
    BY <1>1
  <2> HIDE DEF i, k
  <2> QED BY <1>2, <2>1, <2>2, TouchesCalm
<1>4. n.h.mstatus = k.h.mstatus
  <2>1. MShape(k)
    BY <1>2 DEF Touches
  <2> HIDE DEF k
  <2> DEFINE i == fsd("f", "d0")
  <2>2. Name(i) = "fsd" /\ B(i) = "d0"
    BY DEF fsd, Name, B
  <2> HIDE DEF i
  <2> DEFINE d == SetFault(k)  e == SetSlot(k, "d0", RegValue(k, "f"))
  <2>3. Effect(k, i) = e
    BY <2>2 DEF Effect
  <2>4. n \in {k, d, e}
    BY <1>1, <2>3 DEF Execute, i
  <2>5. d.h = k.h
    BY <2>1 DEF SetFault, MShape
  <2>6. SlotSet(k, "d0", RegValue(k, "f"), e)
    BY <2>1, SetSlotFields
  <2>7. e.h = k.h
    BY <2>6 DEF SlotSet
  <2> HIDE DEF d, e
  <2> QED BY <2>4, <2>5, <2>7
<1>5. w.s1 = n.ram.last /\ DOMAIN n.h.mstatus = MStatusFields
  BY <1>2, <1>3, <1>4 DEF InRam, FsValue
<1> HIDE DEF k
<1> QED BY <1>3, <1>5, RanTouches

(* A register is written, and no other register of the program under debug. *)
Written(w, r, v, u) ==
    /\ WantShape(u) /\ u[r] = v
    /\ \A f \in {"s0", "s1", "x", "f"} \ {r} : u[f] = w[f]

TouchesReg(m, k, F, r, v, n) ==
    /\ Touches(m, n, F \cup {r}) /\ n.ram = k.ram /\ n.h[r] = v
    /\ n.h.mstatus = k.h.mstatus

LEMMA RegTouches ==
  ASSUME NEW m, NEW k, NEW F, Touches(m, k, F), NEW r \in {"x", "f"}, NEW v,
         NEW n, n = SetReg(k, r, v)
  PROVE  TouchesReg(m, k, F, r, v, n)
<1>1. RegSet(k, r, v, n)
  BY SetRegFields DEF Touches
<1>2. MShape(n) /\ n.ram = k.ram /\ n.h[r] = v /\ \A f \in HartFields \ {r} : n.h[f] = k.h[f]
  BY <1>1 DEF RegSet
<1>3. n.h.mstatus = k.h.mstatus
  BY <1>2 DEF HartFields
<1>4. Others(m.h, n.h, F \cup {r})
  BY <1>2 DEF Touches, Others
<1>5. Touches(m, n, F \cup {r})
  BY <1>2, <1>4 DEF Touches
<1> QED BY <1>2, <1>3, <1>5 DEF TouchesReg

LEMMA RanWriteS0 ==
  ASSUME NEW s, NEW h, NEW w, InRam(s, h, w), NEW m, Starts(s, h, m),
         NEW u, Written(w, "s0", s.ram.d0, u), NEW n, n = RunProgram(m, WriteProgram("s0"))
  PROVE  Ran(s, h, u, n)
<1> DEFINE F == {"s0", "dscratch"}
<1>1. n = Execute(Execute(m, dr_load("s0", "d0")), csrw("s0", "dscratch"))
  BY RunShort DEF WriteProgram
<1>2. Touches(m, n, F) /\ n.ram = s.ram /\ n.h.dscratch = s.ram.d0
  BY <1>1, TouchesLoadCsrw
<1>3. u.s0 = n.h.dscratch /\ u.s1 = n.ram.last /\ u.x = w.x /\ u.f = w.f
  BY <1>2 DEF InRam, Written
<1> QED BY <1>2, <1>3, RanTouches

LEMMA RanWriteS1 ==
  ASSUME NEW s, NEW h, NEW w, InRam(s, h, w), NEW m, Starts(s, h, m),
         NEW u, Written(w, "s1", s.ram.d0, u), NEW n, n = RunProgram(m, WriteProgram("s1"))
  PROVE  Ran(s, h, u, n)
<1> DEFINE d == s.ram.d0  k == SetReg(m, "s0", d)  j == SetSlot(k, "last", k.h.s0)
<1>0. MShape(m) /\ m.ok /\ m.ram = s.ram
  BY DEF Starts
<1>1. n = Execute(Execute(m, dr_load("s0", "d0")), dr_store("s0", "last"))
  BY RunShort DEF WriteProgram
<1>2. Execute(m, dr_load("s0", "d0")) = k
  BY <1>0, ExecLoad
<1> HIDE DEF d
<1>3. RegSet(m, "s0", d, k)
  BY <1>0, SetRegFields
<1> HIDE DEF k
<1>4. MShape(k) /\ k.ok /\ k.ram = m.ram /\ k.h.s0 = d /\ Others(m.h, k.h, {"s0"})
  BY <1>0, <1>3 DEF RegSet, Others
<1>5. n = j
  BY <1>1, <1>2, <1>4, ExecStore
<1>6. SlotSet(k, "last", k.h.s0, j)
  BY <1>4, SetSlotFields
<1> HIDE DEF j
<1>7. MShape(j) /\ j.h = k.h /\ j.ram.last = d /\ j.ram.prog = m.ram.prog /\ j.ram.w0 = m.ram.w0
  BY <1>4, <1>6 DEF SlotSet, RamFields
<1>8. Touches(m, j, {"s0"})
  BY <1>4, <1>7 DEF Touches
<1>9. u.s0 = w.s0 /\ u.s1 = j.ram.last /\ u.x = w.x /\ u.f = w.f
  BY <1>7 DEF Written, d
<1> DEFINE F == {"s0"}
<1>10. {"mstatus", "dscratch", "x", "f", "halt"} \cap F = {}
  OBVIOUS
<1> QED BY <1>5, <1>8, <1>9, <1>10, RanTouches

LEMMA RanWriteX ==
  ASSUME NEW s, NEW h, NEW w, InRam(s, h, w), NEW m, Starts(s, h, m), s.ram.d0 \in Nat,
         NEW u, Written(w, "x", s.ram.d0, u), NEW n, n = RunProgram(m, WriteProgram("x"))
  PROVE  Ran(s, h, u, n)
<1> DEFINE d == s.ram.d0  k == SetReg(m, "s0", d)  j == SetReg(k, "x", k.h.s0 + 0)
<1>0. MShape(m) /\ m.ok /\ m.ram = s.ram
  BY DEF Starts
<1>1. n = Execute(Execute(m, dr_load("s0", "d0")), addi("x", "s0", 0))
  BY RunShort DEF WriteProgram
<1>2. Execute(m, dr_load("s0", "d0")) = k
  BY <1>0, ExecLoad
<1>d. d \in Nat
  OBVIOUS
<1> HIDE DEF d
<1>3. RegSet(m, "s0", d, k)
  BY <1>0, SetRegFields
<1> HIDE DEF k
<1>4. MShape(k) /\ k.ok /\ k.ram = m.ram /\ k.h.s0 = d /\ Others(m.h, k.h, {"s0"})
  BY <1>0, <1>3 DEF RegSet, Others
<1>5. n = j
  BY <1>1, <1>2, <1>4, ExecAddi
<1>6. Touches(m, k, {"s0"})
  BY <1>4 DEF Touches
<1>7. Touches(m, j, {"s0"} \cup {"x"}) /\ j.ram = k.ram /\ j.h.x = k.h.s0 + 0
  <2>1. TouchesReg(m, k, {"s0"}, "x", k.h.s0 + 0, j)
    BY <1>6, RegTouches
  <2> QED BY <2>1 DEF TouchesReg
<1> HIDE DEF j
<1>8. j.h.x = d
  BY <1>4, <1>7, <1>d
<1>9. u.s0 = w.s0 /\ u.s1 = j.ram.last /\ u.x = j.h.x /\ u.f = w.f
  BY <1>0, <1>4, <1>7, <1>8 DEF Written, d, InRam
<1> DEFINE F == {"s0", "x"}
<1>10. "mstatus" \notin F /\ "dscratch" \notin F /\ "f" \notin F /\ "halt" \notin F /\ "x" \in F
  OBVIOUS
<1>11. Touches(m, j, F)
  <2>1. {"s0"} \cup {"x"} = F
    OBVIOUS
  <2> QED BY <1>7, <2>1
<1> HIDE DEF F
<1>12. F = {"s0", "x"}
  BY DEF F
<1> QED BY <1>5, <1>9, <1>10, <1>11, <1>12, RanTouches

LEMMA RanWriteF ==
  ASSUME NEW s, NEW h, NEW w, InRam(s, h, w), NEW m, Starts(s, h, m), FsValue(s.ram.d1),
         NEW u, Written(w, "f", s.ram.d0, u), NEW n, n = RunProgram(m, WriteProgram("f"))
  PROVE  Ran(s, h, u, n)
<1> DEFINE k == Execute(Execute(m, dr_load("s0", "d1")), csrw("s0", "mstatus"))
           j == SetReg(k, "f", k.ram.d0)
<1>1. n = Execute(k, fld("f", "d0"))
  BY RunShort DEF WriteProgram
<1>2. Touches(m, k, {"s0", "mstatus"}) /\ k.ram = s.ram /\ k.h.mstatus = s.ram.d1 /\ k.ok
  BY TouchesLoadCsrw
<1> HIDE DEF k
<1>3. n = j
  BY <1>1, <1>2, ExecFload DEF FsValue
<1>4. Touches(m, j, {"s0", "mstatus"} \cup {"f"}) /\ j.ram = k.ram /\ j.h.f = k.ram.d0
      /\ j.h.mstatus = k.h.mstatus
  <2>1. TouchesReg(m, k, {"s0", "mstatus"}, "f", k.ram.d0, j)
    BY <1>2, RegTouches
  <2> QED BY <2>1 DEF TouchesReg
<1> HIDE DEF j
<1> DEFINE F == {"s0", "mstatus", "f"}
<1>5. Touches(m, j, F)
  <2>1. {"s0", "mstatus"} \cup {"f"} = F
    OBVIOUS
  <2> QED BY <1>4, <2>1
<1>6. u.s0 = w.s0 /\ u.s1 = j.ram.last /\ u.x = w.x /\ u.f = j.h.f
  BY <1>2, <1>4 DEF Written, InRam
<1>7. DOMAIN j.h.mstatus = MStatusFields
  BY <1>2, <1>4 DEF FsValue
<1>8. "dscratch" \notin F /\ "x" \notin F /\ "halt" \notin F /\ "f" \in F
  OBVIOUS
<1> HIDE DEF F
<1>9. F = {"s0", "mstatus", "f"}
  BY DEF F
<1> QED BY <1>3, <1>5, <1>6, <1>7, <1>8, <1>9, RanTouches

(* What the program of an operation that reads has left in Debug RAM.       *)
Reads(o, w, m) ==
    /\ o.op = "halt" =>
         /\ o.step = 2 => m.h.halt /\ m.ram.d0 = m.h.dpc
         /\ o.step = 3 => m.ram.d0 = m.h.mstatus
         /\ o.step = 4 => m.ram.d0 = get_csr(m.h, "dcsr")
    /\ o.op = "gread" =>
         /\ o.step = 1 => m.ram.d0 = w.x
         /\ o.step = 2 => m.ram.d1 = w.s0
         /\ o.step = 3 => m.ram.d0 = w.s1

(* A CSR, or a register of the program under debug, is stored.              *)
LEMMA ReadCsr ==
  ASSUME NEW m, MShape(m), m.ok, NEW c \in {"dpc", "mstatus", "dcsr"}, NEW n,
         n = Execute(Execute(m, csrr("s0", c)), dr_store("s0", "d0"))
  PROVE  /\ n.ram.d0 = get_csr(n.h, c) /\ (n.h.halt <=> m.h.halt)
<1>1. MShape(n) /\ Others(m.h, n.h, {"s0"}) /\ n.ram.d0 = get_csr(m.h, c)
  <2>1. c # "bad"
    OBVIOUS
  <2> DEFINE slot == "d0"
  <2>2. slot \in {"d0", "d1"} /\ n = Execute(Execute(m, csrr("s0", c)), dr_store("s0", slot))
    OBVIOUS
  <2> HIDE DEF slot
  <2>3. StoredCsr(m, c, slot, n)
    BY <2>1, <2>2, CsrrStore
  <2> QED BY <2>3 DEF StoredCsr, slot
<1>2. get_csr(n.h, c) = get_csr(m.h, c)
  BY <1>1 DEF Others, HartFields, get_csr
<1>3. n.h.halt = m.h.halt
  BY <1>1 DEF Others, HartFields
<1> QED BY <1>1, <1>2, <1>3

LEMMA HaltReads ==
  ASSUME NEW s, NEW h, NEW w, InRam(s, h, w), NEW m, Starts(s, h, m),
         NEW o, o.op = "halt", o.step \in 1 .. 4, NEW n, n = RunProgram(m, HaltProgram(o.step))
  PROVE  Reads(o, w, n)
<1>0. MShape(m) /\ m.ok
  BY DEF Starts
<1>1. CASE o.step = 2
  <2> DEFINE i == csrsi("dcsr")  k == SetReg(m, "halt", TRUE)
  <2>1. n = Execute(Execute(Execute(m, i), csrr("s0", "dpc")), dr_store("s0", "d0"))
    BY <1>1, RunShort DEF HaltProgram, dpc_program
  <2>2. Execute(m, i) = k
    <3>1. Name(i) = "csrsi"
      BY DEF csrsi, Name
    <3> HIDE DEF i
    <3>2. Effect(m, i) = SetReg(m, "halt", TRUE)
      BY <3>1 DEF Effect
    <3> HIDE DEF k
    <3>3. Execute(m, i) = Effect(m, i)
      BY <1>0, <3>1 DEF Execute, Faults
    <3> QED BY <3>2, <3>3 DEF k
  <2> HIDE DEF i
  <2>3. MShape(k) /\ k.ok /\ k.h.halt
    BY <1>0 DEF SetReg, MShape, HartShape, HartFields
  <2> HIDE DEF k
  <2>4. n = Execute(Execute(k, csrr("s0", "dpc")), dr_store("s0", "d0"))
    BY <2>1, <2>2
  <2>5. n.ram.d0 = get_csr(n.h, "dpc") /\ n.h.halt
    BY <2>3, <2>4, ReadCsr
  <2> QED BY <1>1, <2>5 DEF Reads, get_csr
<1>2. CASE o.step = 3
  <2>1. n = Execute(Execute(m, csrr("s0", "mstatus")), dr_store("s0", "d0"))
    BY <1>2, RunShort DEF HaltProgram
  <2>2. n.ram.d0 = get_csr(n.h, "mstatus")
    BY <1>0, <2>1, ReadCsr
  <2> QED BY <1>2, <2>2 DEF Reads, get_csr
<1>3. CASE o.step = 4
  <2>1. n = Execute(Execute(m, csrr("s0", "dcsr")), dr_store("s0", "d0"))
    BY <1>3, RunShort DEF HaltProgram
  <2>2. n.ram.d0 = get_csr(n.h, "dcsr")
    BY <1>0, <2>1, ReadCsr
  <2> QED BY <1>3, <2>2 DEF Reads
<1>4. CASE o.step = 1
  BY <1>4 DEF Reads
<1> QED BY <1>1, <1>2, <1>3, <1>4

LEMMA GreadReads ==
  ASSUME NEW s, NEW h, NEW w, InRam(s, h, w), NEW m, Starts(s, h, m),
         NEW o, o.op = "gread", o.step \in 1 .. 3, NEW n, n = RunProgram(m, ReadProgram(o.step))
  PROVE  Reads(o, w, n)
<1>0. MShape(m) /\ m.ok /\ m.h = h /\ m.ram = s.ram
  BY DEF Starts
<1> DEFINE k == SetSlot(m, "d0", m.h.x)
<1>k. Execute(m, dr_store("x", "d0")) = k
  BY <1>0, ExecStore
<1>s. SlotSet(m, "d0", m.h.x, k)
  BY <1>0, SetSlotFields
<1> HIDE DEF k
<1>m. MShape(k) /\ k.ok /\ k.h = h /\ k.ram.d0 = h.x
  BY <1>0, <1>s DEF SlotSet
<1>1. CASE o.step = 1
  <2>1. n = Execute(Execute(m, dr_store("x", "d0")), dr_store("x", "d1"))
    BY <1>1, RunShort DEF ReadProgram
  <2>2. n = SetSlot(k, "d1", k.h.x)
    BY <1>k, <1>m, <2>1, ExecStore
  <2>3. SlotSet(k, "d1", k.h.x, n)
    BY <1>m, <2>2, SetSlotFields
  <2>4. n.ram.d0 = h.x
    BY <1>m, <2>3 DEF SlotSet, RamFields
  <2> QED BY <1>1, <2>4 DEF Reads, InRam
<1>2. CASE o.step = 2
  <2>1. n = Execute(Execute(Execute(m, dr_store("x", "d0")), csrr("s0", "dscratch")),
                    dr_store("s0", "d1"))
    BY <1>2, RunShort DEF ReadProgram
  <2>2. n = Execute(Execute(k, csrr("s0", "dscratch")), dr_store("s0", "d1"))
    BY <1>k, <2>1
  <2>3. n.ram.d1 = get_csr(k.h, "dscratch")
    <3>1. StoredCsr(k, "dscratch", "d1", n)
      BY <1>m, <2>2, CsrrStore
    <3> QED BY <3>1 DEF StoredCsr
  <2> QED BY <1>2, <1>m, <2>3 DEF Reads, InRam, get_csr
<1>3. CASE o.step = 3
  <2> DEFINE d == s.ram.last  j == SetReg(m, "s1", d)  e == SetSlot(j, "d0", j.h.s1)
  <2>1. n = Execute(Execute(Execute(m, dr_load("s1", "last")), dr_store("s1", "d0")),
                    dr_store("x", "d1"))
    BY <1>3, RunShort DEF ReadProgram
  <2>2. Execute(m, dr_load("s1", "last")) = j
    BY <1>0, ExecLoad
  <2> HIDE DEF d
  <2>3. RegSet(m, "s1", d, j)
    BY <1>0, SetRegFields
  <2> HIDE DEF j
  <2>4. MShape(j) /\ j.ok /\ j.h.s1 = d
    BY <1>0, <2>3 DEF RegSet
  <2>5. Execute(j, dr_store("s1", "d0")) = e
    BY <2>4, ExecStore
  <2>6. SlotSet(j, "d0", j.h.s1, e)
    BY <2>4, SetSlotFields
  <2> HIDE DEF e
  <2>7. MShape(e) /\ e.ok /\ e.ram.d0 = d
    BY <2>4, <2>6 DEF SlotSet
  <2>8. n = SetSlot(e, "d1", e.h.x)
    BY <2>1, <2>2, <2>5, <2>7, ExecStore
  <2>9. SlotSet(e, "d1", e.h.x, n)
    BY <2>7, <2>8, SetSlotFields
  <2>10. n.ram.d0 = d
    BY <2>7, <2>9 DEF SlotSet, RamFields
  <2> QED BY <1>3, <2>10 DEF Reads, InRam, d
<1> QED BY <1>1, <1>2, <1>3

LEMMA ReadingCalm ==
  /\ \A k \in 1 .. 4 : AllCalm(HaltProgram(k))
  /\ \A k \in 1 .. 3 : AllCalm(ReadProgram(k))
<1>1. Calm(csrsi("dcsr")) /\ Calm(xlen_probe)
  BY DEF Calm, csrsi, xlen_probe, Name
<1>2. /\ Calm(csrr("s0", "dpc")) /\ Calm(csrr("s0", "mstatus")) /\ Calm(csrr("s0", "dcsr"))
      /\ Calm(csrr("s0", "dscratch")) /\ Calm(dr_load("s1", "last"))
  BY CalmInsns
<1>3. /\ Calm(dr_store("s0", "d0")) /\ Calm(dr_store("s0", "d1")) /\ Calm(dr_store("x", "d0"))
      /\ Calm(dr_store("x", "d1")) /\ Calm(dr_store("s1", "d0"))
  BY CalmInsns
<1>4. ASSUME NEW k \in 1 .. 4 PROVE AllCalm(HaltProgram(k))
  <2>1. CASE k = 1
    BY <1>1, <2>1, CalmTuples DEF HaltProgram
  <2>2. CASE k = 2
    BY <1>1, <1>2, <1>3, <2>2, CalmTuples DEF HaltProgram, dpc_program
  <2>3. CASE k = 3
    BY <1>2, <1>3, <2>3, CalmTuples DEF HaltProgram
  <2>4. CASE k = 4
    BY <1>2, <1>3, <2>4, CalmTuples DEF HaltProgram
  <2> QED BY <2>1, <2>2, <2>3, <2>4
<1>5. ASSUME NEW k \in 1 .. 3 PROVE AllCalm(ReadProgram(k))
  <2>1. CASE k = 1
    BY <1>3, <2>1, CalmTuples DEF ReadProgram
  <2>2. CASE k = 2
    BY <1>2, <1>3, <2>2, CalmTuples DEF ReadProgram
  <2>3. CASE k = 3
    BY <1>2, <1>3, <2>3, CalmTuples DEF ReadProgram
  <2> QED BY <2>1, <2>2, <2>3
<1> QED BY <1>4, <1>5

WritesReg(o) == o.op = "rwrite" /\ o.step = 1 /\ o.reg \in {"s0", "s1", "x", "f"}

LEMMA PromiseHartValue ==
  ASSUME WantShape(want), srv.queue # <<>>, NEW o, o = Head(srv.queue)
  PROVE  /\ WritesReg(o) => Written(want, o.reg, o.val, PromiseHart)
         /\ ~WritesReg(o) => SameRegs(want, PromiseHart)
<1> DEFINE u == o.op = "mwrite" /\ o.step > 0 /\ o.user
           c == TrueCell(o.addr + o.step - 1)
           d == o.data[o.step]
           a == [want EXCEPT ![o.reg] = o.val]
           b == [want EXCEPT !.mem[c] = d]
<1>0. PromiseHart = IF WritesReg(o) THEN a
                    ELSE IF u THEN IF c \in Cell THEN b ELSE want
                    ELSE want
  <2>1. ~(WritesReg(o) /\ u)
    BY DEF WritesReg
  <2> HIDE DEF a, b, c, d
  <2>2. PromiseHart = CASE WritesReg(o) -> a
                        [] u -> IF c \in Cell THEN b ELSE want
                        [] OTHER -> want
    BY DEF PromiseHart, WritesReg, a, b, c, d
  <2> HIDE DEF u
  <2> QED BY <2>1, <2>2
<1> HIDE DEF c, d, u
<1>1. SameRegs(want, b) /\ SameRegs(want, want)
  BY DEF SameRegs, WantShape, WantFields
<1>2. WritesReg(o) => Written(want, o.reg, o.val, a)
  <2> DEFINE r == o.reg  e == o.val
  <2> SUFFICES ASSUME r \in {"s0", "s1", "x", "f"} PROVE Written(want, r, e, a)
    BY DEF WritesReg
  <2>1. a = [want EXCEPT ![r] = e]
    OBVIOUS
  <2> HIDE DEF r, e, a
  <2> QED BY <2>1 DEF Written, WantShape, WantFields
<1> HIDE DEF a, b
<1> QED BY <1>0, <1>1, <1>2

LEMMA InRamFacts ==
  ASSUME NEW s, NEW h, NEW g, NEW w, Core(s, h, g, w), h.mode = "ram"
  PROVE  InRam(s, h, w) /\ s.intr /\ WantShape(w)
  BY DEF InRam, Core, Modes, Kept

(* Every program the server posts does what its operation is for.          *)
LEMMA RanPosted ==
  ASSUME Invariant, hart.mode = "ram", NEW m, Starts(srv, hart, m),
         NEW n, n = RunProgram(m, srv.ram.prog)
  PROVE  /\ Ran(srv, hart, PromiseHart, n)
         /\ srv.queue # <<>> => Reads(srv.queue[1], want, n)
<1> DEFINE v == PromiseHart  p == srv.ram.prog  o == srv.queue[1]
<1>0. Core(srv, hart, gdb, want) /\ WantShape(want) /\ SameRegs(want, want)
  BY DEF Invariant, Inv, Core, SameRegs
<1>i. InRam(srv, hart, want) /\ srv.intr
  BY <1>0, InRamFacts
<1> HIDE DEF v
<1>1. CASE srv.queue = <<>>
  <2>1. v = want
    BY <1>1 DEF PromiseHart, v
  <2>2. release(srv) \/ AllCalm(p)
    BY <1>0, <1>1, <1>i DEF Core, Posted
  <2>3. Ran(srv, hart, want, n)
    BY <1>0, <1>i, <2>2, RanCalm, RanRelease DEF release
  <2> QED BY <1>1, <2>1, <2>3 DEF v
<1>2. CASE srv.queue # <<>>
  <2>0. IsSeq(srv.queue) /\ o = Head(srv.queue) /\ IsOp(o)
    <3>1. Chain(srv.queue)
      BY <1>0 DEF Core
    <3>2. IsSeq(srv.queue) /\ Len(srv.queue) \in Nat \ {0} /\ Head(srv.queue) = o
      BY <1>2, <3>1, IsSeqTail DEF Chain
    <3> QED BY <3>1, <3>2 DEF Chain
  <2>p. /\ WritesReg(o) => Written(want, o.reg, o.val, v)
        /\ ~WritesReg(o) => SameRegs(want, v)
    BY <1>0, <1>2, <2>0, PromiseHartValue DEF v
  <2>s. o.step \in Nat
    BY <2>0 DEF IsOp
  <2>a. AllCalm(p) /\ ~WritesReg(o) => Ran(srv, hart, v, n)
    BY <1>i, <2>p, RanCalm
  <2>b. Ran(srv, hart, want, n) /\ ~WritesReg(o) => Ran(srv, hart, v, n)
    BY <2>p DEF Ran, SameRegs
  <2>1. CASE ~(o.step > 0)
    <3>1. o.step = 0
      BY <2>1, <2>s
    <3>2. release(srv) \/ AllCalm(p)
      BY <1>0, <1>2, <1>i, <2>1 DEF Core, Posted
    <3>3. ~WritesReg(o) /\ Reads(o, want, n)
      BY <3>1 DEF WritesReg, Reads
    <3>4. release(srv) => Ran(srv, hart, want, n)
      BY <1>i, RanRelease DEF release
    <3> QED BY <2>a, <2>b, <3>2, <3>3, <3>4 DEF v
  <2>2. CASE o.step > 0
    <3>0. PostedBy(srv, o)
      BY <1>0, <1>2, <2>2 DEF Core, Posted
    <3>1. CASE o.op = "halt"
      <4>1. o.step \in 1 .. 4 /\ p = HaltProgram(o.step)
        BY <3>0, <3>1 DEF PostedBy
      <4>2. Reads(o, want, n)
        BY <1>i, <3>1, <4>1, HaltReads
      <4>3. AllCalm(p)
        BY <4>1, ReadingCalm
      <4>4. ~WritesReg(o)
        BY <3>1 DEF WritesReg
      <4> QED BY <2>a, <4>2, <4>3, <4>4 DEF v
    <3>2. CASE o.op = "gread"
      <4>1. o.step \in 1 .. 3 /\ p = ReadProgram(o.step)
        BY <3>0, <3>2 DEF PostedBy
      <4>2. Reads(o, want, n)
        BY <1>i, <3>2, <4>1, GreadReads
      <4>3. AllCalm(p)
        BY <4>1, ReadingCalm
      <4>4. ~WritesReg(o)
        BY <3>2 DEF WritesReg
      <4> QED BY <2>a, <4>2, <4>3, <4>4 DEF v
    <3>r. o.op \notin {"halt", "gread"} => Reads(o, want, n)
      BY DEF Reads
    <3>3. CASE o.op = "rwrite" /\ o.reg \in {"s0", "s1", "x", "f"}
      <4>1. /\ o.step = 1 /\ p = WriteProgram(o.reg) /\ srv.ram.d0 = o.val
            /\ o.reg = "f" => FsValue(srv.ram.d1)
        BY <1>i, <3>0, <3>3 DEF PostedBy
      <4>2. Written(want, o.reg, srv.ram.d0, v)
        BY <2>p, <3>3, <4>1 DEF WritesReg
      <4>3. srv.ram.d0 \in Nat
        BY <2>0, <3>3, <4>1 DEF IsOp
      <4>4. CASE o.reg = "s0"
        BY <1>i, <3>3, <3>r, <4>1, <4>2, <4>4, RanWriteS0 DEF v
      <4>5. CASE o.reg = "s1"
        BY <1>i, <3>3, <3>r, <4>1, <4>2, <4>5, RanWriteS1 DEF v
      <4>6. CASE o.reg = "x"
        BY <1>i, <3>3, <3>r, <4>1, <4>2, <4>3, <4>6, RanWriteX DEF v
      <4>7. CASE o.reg = "f"
        BY <1>i, <3>3, <3>r, <4>1, <4>2, <4>7, RanWriteF DEF v
      <4> QED BY <3>3, <4>4, <4>5, <4>6, <4>7
    <3>4. CASE o.op = "rread" /\ o.reg = "f"
      <4>1. p = FReadProgram /\ FsValue(srv.ram.d1) /\ ~WritesReg(o)
        BY <1>i, <3>0, <3>4 DEF PostedBy, WritesReg
      <4>2. Ran(srv, hart, want, n)
        BY <1>i, <4>1, RanFread
      <4> QED BY <2>b, <3>4, <3>r, <4>1, <4>2 DEF v
    <3>5. CASE o.op = "continue"
      <4>1. /\ o.step \in 1 .. 2 /\ ~WritesReg(o)
            /\ o.step = 1 => p \in DpcPrograms
            /\ o.step = 2 => p = mstatus_program /\ DOMAIN srv.ram.d0 = MStatusFields
        BY <1>i, <3>0, <3>5 DEF PostedBy, WritesReg
      <4>2. o.step = 1 => Ran(srv, hart, want, n)
        BY <1>i, <4>1, RanDpc
      <4>3. o.step = 2 => Ran(srv, hart, want, n)
        BY <1>i, <4>1, RanMstatus
      <4>4. Ran(srv, hart, want, n)
        BY <4>1, <4>2, <4>3
      <4> QED BY <2>b, <3>5, <3>r, <4>1, <4>4 DEF v
    <3>6. CASE /\ o.op \notin {"halt", "gread", "continue"}
               /\ ~(o.op = "rwrite" /\ o.reg \in {"s0", "s1", "x", "f"})
               /\ ~(o.op = "rread" /\ o.reg = "f")
      <4>1. AllCalm(p) /\ ~WritesReg(o)
        BY <3>0, <3>6 DEF PostedBy, WritesReg
      <4> QED BY <2>a, <3>6, <3>r, <4>1 DEF v
    <3> QED BY <3>1, <3>2, <3>3, <3>4, <3>5, <3>6
  <2> QED BY <2>1, <2>2
<1> QED BY <1>1, <1>2

(* The hart is back from the program that left m, and the debug interrupt is
   clear.                                                                   *)
Returned(s, m, k, t) ==
    /\ HartShape(k) /\ k.mode = "check" /\ k.s1 = m.ram.last
    /\ \A f \in HartFields \ {"mode", "s0", "s1"} : k[f] = m.h[f]
    /\ SrvShape(t) /\ Same(s, t, {"ram", "intr"}) /\ ~t.intr
    /\ \A f \in RamFields \ {"status"} : t.ram[f] = m.ram[f]

(* What the program read for the operation that posted it                  *)
Collects(s, w, v, m) ==
    s.queue # <<>> => /\ Reads(s.queue[1], w, m)
                      /\ s.queue[1].op = "gread" => SameRegs(w, v)

LEMMA RanCore ==
  ASSUME NEW s, NEW h, NEW g, NEW w, Core(s, h, g, w), h.mode = "ram",
         NEW v, WantShape(v), NEW m, Ran(s, h, v, m), Collects(s, w, v, m),
         NEW k, NEW t, Returned(s, m, k, t)
  PROVE  Core(t, k, g, v) /\ t.send = s.send
<1> USE DEF Returned, Collects
<1>0. /\ t.queue = s.queue /\ t.gs = s.gs /\ t.recv = s.recv /\ t.send = s.send
      /\ (t.dead <=> s.dead) /\ (t.haltnot <=> s.haltnot)
      /\ (t.client <=> s.client) /\ t.software_breakpoints = s.software_breakpoints
  BY DEF Same, SrvFields
<1>r. /\ t.ram.prog = s.ram.prog /\ t.ram.d0 = m.ram.d0 /\ t.ram.d1 = m.ram.d1
      /\ t.ram.w0 = m.ram.w0
  BY DEF Ran, RamFields
<1>k. /\ k.cause = h.cause /\ k.mstatus = m.h.mstatus /\ k.dscratch = v.s0 /\ k.x = v.x
      /\ k.f = v.f /\ k.s1 = v.s1 /\ k.dpc = m.h.dpc /\ k.halt = m.h.halt
      /\ get_csr(k, "dcsr") = get_csr(m.h, "dcsr")
  BY DEF Ran, HartFields, get_csr
<1>m. Modes(s, h) /\ s.intr
  BY DEF Core, Modes
<1>1. Modes(t, k)
  BY <1>0, <1>r, <1>k, <1>m DEF Modes, Ran
<1>2. Kept(t, k, v)
  BY <1>k DEF Kept
<1>h. Halted(h) /\ ~release(s) => Halted(k)
  BY <1>k DEF Halted, Ran
<1>3. Posted(t, k)
  BY <1>0, <1>r DEF Core, Posted, PostedBy
<1>4. Fetched(t, k, v)
  <2> DEFINE o == s.queue[1]
  <2> SUFFICES ASSUME s.queue # <<>> PROVE FetchedBy(t, k, v, o)
    BY <1>0 DEF Fetched
  <2>1. FetchedBy(s, h, w, o) /\ Reads(o, w, m)
    BY DEF Core, Fetched
  <2>p. o.step \in Nat
    <3>1. Chain(s.queue)
      BY DEF Core
    <3>2. 1 \in 1 .. Len(s.queue)
      BY <3>1, IsSeqEmpty DEF Chain
    <3> QED BY <3>1, <3>2 DEF Chain, IsOp
  <2>2. CASE o.op = "halt"
    <3>1. o.step > 0 => o.step \in 1 .. 4 /\ s.ram.prog = HaltProgram(o.step)
      BY <2>2 DEF Core, Posted, PostedBy
    <3>2. o.step > 2 => Halted(k)
      <4>1. o.step > 2 => o.step > 0
        BY <2>p
      <4>2. o.step > 2 => ~release(s)
        BY <3>1, <4>1, NotDcsrProgram DEF release
      <4> QED BY <1>h, <2>1, <2>2, <4>2 DEF FetchedBy
    <3>3. o.step = 2 => Halted(k)
      BY <1>k, <2>1, <2>2 DEF Reads, Halted
    <3>4. /\ o.step = 2 => t.ram.d0 = k.dpc
          /\ o.step = 3 => t.ram.d0 = k.mstatus
          /\ o.step = 4 => t.ram.d0 = get_csr(k, "dcsr")
      BY <1>r, <1>k, <2>1, <2>2 DEF Reads
    <3> HIDE DEF o
    <3> QED BY <2>2, <3>2, <3>3, <3>4 DEF FetchedBy
  <2>3. CASE o.op = "gread"
    <3>1. v.x = w.x /\ v.s0 = w.s0 /\ v.s1 = w.s1
      BY <2>3 DEF SameRegs
    <3>2. /\ o.step = 1 => t.ram.d0 = w.x
          /\ o.step = 2 => t.ram.d1 = w.s0
          /\ o.step = 3 => t.ram.d0 = w.s1
      BY <1>r, <2>1, <2>3 DEF Reads
    <3> HIDE DEF o
    <3> QED BY <2>1, <2>3, <3>1, <3>2 DEF FetchedBy
  <2> QED BY <2>2, <2>3 DEF FetchedBy
<1>5. Held(t, k)
  BY <1>0, <1>h DEF Core, Held, release
<1>6. Known(t)
  BY <1>0 DEF Core, Known, Uncollected, virtual_memory
<1>7. /\ Wire(t, g) /\ Acks(t, g) /\ Inserted(t, g)
      /\ (Stopped(t, g) <=> Stopped(s, g)) /\ (Consumed(t, g) <=> Consumed(s, g))
  <2>1. DOMAIN t.software_breakpoints = DOMAIN s.software_breakpoints
    BY <1>0
  <2> QED BY <1>0, <2>1, ConnectionSame DEF Core
<1>8. Settled(s, h) => Settled(t, k)
  BY <1>0, <1>h DEF Settled, release
<1>9. Attended(t, k, g)
  BY <1>0, <1>7, <1>8 DEF Core, Attended
<1> QED BY <1>0, <1>1, <1>2, <1>3, <1>4, <1>5, <1>6, <1>7, <1>9 DEF Core

LEMMA DebugRamStep ==
  ASSUME Invariant, DebugRam
  PROVE  Invariant' /\ hart'.mode = "check"
<1> DEFINE i == [h |-> hart, ram |-> srv.ram, mem |-> mem, ok |-> TRUE]
           m == RunProgram(i, srv.ram.prog)
           v == PromiseHart
           l == m.ram.last
           c == IF m.ok THEN 0 ELSE 1
           r == [m.ram EXCEPT !.status = c]
<1>1. /\ hart.mode = "ram" /\ gdb' = gdb /\ want' = v
      /\ hart' = [m.h EXCEPT !.s1 = l, !.s0 = Junk, !.mode = "check"]
      /\ srv' = [srv EXCEPT !.ram = r, !.intr = FALSE]
  BY DEF DebugRam
<1>2. Core(srv, hart, gdb, want) /\ SrvShape(srv) /\ HartShape(hart) /\ WantShape(want)
  BY InvariantFacts DEF Invariant, Inv
<1>3. Starts(srv, hart, i)
  <2>1. DOMAIN i = {"h", "ram", "mem", "ok"} /\ i.h = hart /\ i.ram = srv.ram /\ i.ok
    OBVIOUS
  <2> QED BY <1>2, <2>1 DEF Starts, MShape, SrvShape
<1> HIDE DEF i
<1>4. Ran(srv, hart, v, m) /\ (srv.queue # <<>> => Reads(srv.queue[1], want, m))
  BY <1>1, <1>3, RanPosted
<1> HIDE DEF m, l, c
<1>5. /\ WantShape(v)
      /\ srv.queue # <<>> /\ srv.queue[1].op = "gread" => SameRegs(want, v)
  <2>1. CASE srv.queue = <<>>
    BY <1>2, <2>1 DEF PromiseHart
  <2>2. CASE srv.queue # <<>>
    <3> DEFINE o == Head(srv.queue)
    <3>1. o = srv.queue[1]
      BY <1>2, <2>2, IsSeqTail DEF Core, Chain
    <3>2. /\ WritesReg(o) => Written(want, o.reg, o.val, v)
          /\ ~WritesReg(o) => SameRegs(want, v)
      BY <1>2, <2>2, PromiseHartValue
    <3>3. o.op = "gread" => ~WritesReg(o)
      BY DEF WritesReg
    <3> HIDE DEF o, v
    <3> QED BY <3>1, <3>2, <3>3 DEF Written, SameRegs
  <2> QED BY <2>1, <2>2
<1> HIDE DEF v
<1>6. MShape(m)
  BY <1>4 DEF Ran
<1>7. /\ HartShape(hart') /\ hart'.mode = "check" /\ hart'.s1 = l
      /\ \A f \in HartFields \ {"mode", "s0", "s1"} : hart'[f] = m.h[f]
  BY <1>1, <1>6 DEF MShape, HartShape, HartFields
<1>8. DOMAIN r = RamFields /\ \A f \in RamFields \ {"status"} : r[f] = m.ram[f]
  BY <1>6 DEF MShape, RamFields
<1> HIDE DEF r
<1>9. SrvShape(srv') /\ Same(srv, srv', {"ram", "intr"}) /\ ~srv'.intr /\ srv'.ram = r
  BY <1>1, <1>2, <1>8 DEF SrvShape, Same, SrvFields
<1>c. Collects(srv, want, v, m)
  BY <1>4, <1>5 DEF Collects
<1>d. Returned(srv, m, hart', srv')
  BY <1>7, <1>8, <1>9 DEF Returned, l
<1>10. Core(srv', hart', gdb, v) /\ srv'.send = srv.send
  <2> DEFINE hh == hart'  ss == srv'
  <2> SUFFICES Core(ss, hh, gdb, v) /\ ss.send = srv.send
    OBVIOUS
  <2>1. Returned(srv, m, hh, ss)
    BY <1>d
  <2> HIDE DEF hh, ss
  <2> QED BY <1>1, <1>2, <1>4, <1>5, <1>c, <2>1, RanCore
<1>11. Quiet(srv')
  BY <1>10 DEF Invariant, Inv, Quiet
<1>12. Inv(srv', hart', gdb', want')
  BY <1>1, <1>10, <1>11 DEF Inv
<1> QED BY <1>7, <1>12 DEF Invariant

-----------------------------------------------------------------------------
(* The invariant holds of every reachable state.                           *)

LEMMA InitInvariant ==
  ASSUME Init
  PROVE  Invariant
<1>1. /\ SrvShape(srv) /\ srv.queue = <<>> /\ ~srv.client /\ srv.recv = <<>>
      /\ srv.send = <<>> /\ srv.gs.xlen = 0 /\ srv.gs.mstatus = MStatusInit
      /\ ~srv.intr /\ ~srv.dead /\ srv.ram.w0 = 0
  <2>1. PICK g \in InitGs :
           srv = [client |-> FALSE, recv |-> <<>>, send |-> <<>>, queue |-> <<>>,
                  gs |-> g, software_breakpoints |-> <<>>,
                  hardware_breakpoints |-> <<>>, intr |-> FALSE, haltnot |-> FALSE,
                  ram |-> [prog |-> <<>>, d0 |-> 0, d1 |-> 0, last |-> 0,
                           status |-> 0, w0 |-> 0], dead |-> FALSE]
    BY DEF Init
  <2>2. DOMAIN g = GsFields /\ g.xlen = 0 /\ g.mstatus = MStatusInit
    BY DEF InitGs, GsFields
  <2> QED BY <2>1, <2>2 DEF SrvShape, SrvFields, RamFields
<1>2. /\ HartShape(hart) /\ hart.mode = "run" /\ hart.cause = NoCause
      /\ hart.mstatus = MStatusInit
  BY DEF Init, HartShape, HartFields
<1>3. /\ GdbShape(gdb) /\ ~gdb.link /\ gdb.pending = "none" /\ gdb.bps = {}
      /\ gdb.replies = <<>>
  BY DEF Init, GdbShape, GdbFields
<1>4. WantShape(want)
  BY DEF Init, WantShape, WantFields
<1>5. DOMAIN MStatusInit = MStatusFields
  BY GdbConstants DEF GdbConstants, MStatusFields
<1>6. Modes(srv, hart)
  BY <1>1, <1>2, <1>5 DEF Modes, Causes, NoCause
<1>7. Chain(srv.queue)
  BY <1>1, EmptyChain
<1>8. Posted(srv, hart) /\ Fetched(srv, hart, want) /\ Known(srv) /\ Held(srv, hart)
  BY <1>1 DEF Posted, Fetched, Known, Held, Requested
<1>9. Kept(srv, hart, want)
  BY <1>2 DEF Kept
<1>10. Wire(srv, gdb)
  <2>1. IsSeq(<<>>) /\ Len(<<>>) = 0
    BY TupleSeq
  <2> QED BY <1>1, <1>3, <2>1 DEF Wire, Packet
<1>11. Acks(srv, gdb) /\ Attended(srv, hart, gdb)
  BY <1>3 DEF Acks, Attended
<1>12. Inserted(srv, gdb)
  BY <1>1, <1>3 DEF Inserted, Packet
<1>13. Quiet(srv)
  BY <1>1 DEF Quiet
<1> QED
  BY <1>1, <1>2, <1>3, <1>4, <1>6, <1>7, <1>8, <1>9, <1>10, <1>11, <1>12, <1>13
     DEF Invariant, Inv, Core

LEMMA NextInvariant ==
  ASSUME Invariant, [Next]_vars
  PROVE  Invariant'
<1>1. CASE UNCHANGED vars
  <2> DEFINE s == srv'  h == hart'  g == gdb'  w == want'
  <2>1. s = srv /\ h = hart /\ g = gdb /\ w = want
    BY <1>1 DEF vars
  <2> SUFFICES Inv(s, h, g, w)
    BY DEF Invariant
  <2> HIDE DEF s, h, g, w
  <2> QED BY <2>1 DEF Invariant
<1>2. CASE Handle
  BY <1>2, HandleStep
<1>3. CASE HartDebug
  BY <1>3, EnterDebugStep, EntryStep, WaitForInterruptStep, DebugRamStep, CheckHaltStep
     DEF HartDebug
<1>4. CASE HartRun
  BY <1>4, RunInsnStep, SwitchSpaceStep DEF HartRun
<1>5. CASE Debugger
  BY <1>5, ConnectStep, DisconnectStep, SendRequestStep, InterruptStep, ReceiveReplyStep
     DEF Debugger
<1> QED BY <1>1, <1>2, <1>3, <1>4, <1>5 DEF Next

(* Whatever the debugger asks, the server, the debug module and the hart stay
   in agreement: gdbserver_t::handle(), the operations it queues, the Debug
   ROM and the packets under way keep the invariant in every interleaving.  *)
THEOREM InvariantHolds == Spec => []Invariant
<1>1. Init => Invariant
  BY InitInvariant
<1>2. Invariant /\ [Next]_vars => Invariant'
  BY NextInvariant
<1> QED BY <1>1, <1>2, PTL DEF Spec

(* The hart is in Debug Mode exactly when dcsr.cause says so, Debug RAM is
   executed only while the debug interrupt asks for it, and the hart waits
   only after a halt (debug_rom.S, processor_t::enter_debug_mode).          *)
THEOREM TypeCorrect == Spec => []TypeOK
<1>1. Invariant => TypeOK
  BY InvariantFacts DEF TypeOK, Modes
<1> QED BY <1>1, InvariantHolds, PTL

(* No sequence of requests makes the server abort: a halt that finds no
   cause (halt_op_t::perform_step) or a translation whose page table entries
   were not collected (gdbserver_t::translate).                             *)
THEOREM ServerLives == Spec => []NoAbort
<1>1. Invariant => NoAbort
  BY InvariantFacts DEF NoAbort, Modes
<1> QED BY <1>1, InvariantHolds, PTL

LEMMA NothingNew ==
  ASSUME NEW g, NEW k, Len(g.replies) \in Nat, Len(k.replies) \in Nat,
         Len(k.replies) <= Len(g.replies), NEW h, NEW w
  PROVE  Told(g, k, h, w)
<1> DEFINE a == Len(g.replies)  b == Len(k.replies)
<1> SUFFICES (a + 1) .. b = {}
  BY DEF Told
<1> HIDE DEF a, b
<1>1. a \in Nat /\ b \in Nat /\ b <= a
  BY DEF a, b
<1> QED BY <1>1

LEMMA NextTells ==
  ASSUME Invariant, [Next]_vars
  PROVE  Told(gdb, gdb', hart, want)
<1> DEFINE k == gdb'  q == gdb.replies
<1>1. IsSeq(q) /\ Len(q) \in Nat /\ GdbShape(gdb)
  BY InvariantFacts, WireFacts, IsSeqEmpty DEF Wire
<1>2. CASE Handle
  BY <1>2, HandleStep
<1>3. CASE k.replies = q
  <2> HIDE DEF k, q
  <2>1. Told(gdb, k, hart, want)
    BY <1>1, <1>3, NothingNew DEF q
  <2> QED BY <2>1 DEF k
<1>4. CASE Connect
  <2>1. k.replies = <<>>
    BY <1>1, <1>4 DEF Connect, GdbShape, GdbFields
  <2>2. Len(<<>>) = 0
    BY TupleSeq
  <2> HIDE DEF k
  <2>3. Told(gdb, k, hart, want)
    BY <1>1, <2>1, <2>2, NothingNew
  <2> QED BY <2>3 DEF k
<1>5. CASE ReceiveReply
  <2>1. q # <<>> /\ k.replies = Tail(q)
    BY <1>1, <1>5 DEF ReceiveReply, Hear, GdbShape, GdbFields
  <2>2. Len(Tail(q)) \in Nat /\ Len(Tail(q)) <= Len(q)
    <3> HIDE DEF q
    <3>1. Len(Tail(q)) = Len(q) - 1 /\ Len(q) # 0
      BY <1>1, <2>1, IsSeqTail, IsSeqEmpty
    <3> DEFINE l == Len(q)  n == Len(Tail(q))
    <3>2. n = l - 1 /\ l # 0 /\ l \in Nat
      BY <1>1, <3>1
    <3> HIDE DEF l, n
    <3>3. n \in Nat /\ n <= l
      BY <3>2
    <3> QED BY <3>3 DEF l, n
  <2> HIDE DEF k
  <2>3. Told(gdb, k, hart, want)
    BY <1>1, <2>1, <2>2, NothingNew
  <2> QED BY <2>3 DEF k
<1>6. CASE ~Handle /\ ~Connect /\ ~ReceiveReply
  <2>1. CASE UNCHANGED vars
    BY <1>3, <2>1 DEF vars
  <2>2. CASE HartDebug
    BY <1>3, <2>2 DEF HartDebug, EnterDebug, Entry, WaitForInterrupt, DebugRam, CheckHalt
  <2>3. CASE HartRun
    BY <1>3, <2>3 DEF HartRun, RunInsn, SwitchSpace
  <2>4. CASE Disconnect \/ SendRequest \/ Interrupt
    <3>1. k.replies = q
      BY <1>1, <2>4 DEF Disconnect, SendRequest, Interrupt, GdbShape, GdbFields
    <3> QED BY <1>3, <3>1
  <2> QED BY <1>6, <2>1, <2>2, <2>3, <2>4 DEF Next, Debugger
<1> QED BY <1>2, <1>4, <1>5, <1>6

(* What the server tells the debugger is so: a stop reply (halt_op_t,
   gdbserver_t::handle) is sent only while the hart is halted, and the
   answer to "g" (general_registers_read_op_t) holds the registers of the
   program under debug, the borrowed s0 and s1 included.                    *)
THEOREM RepliesAreTrue == Spec => RepliesTrue
<1>1. Invariant /\ [Next]_vars =>
        [\A i \in (Len(gdb.replies) + 1) .. Len(gdb'.replies) :
           LET r == gdb'.replies[i]
           IN  /\ r[1] \in StopReplies => hart.halt /\ hart.mode \in {"check", "wait"}
               /\ r[1] = "regs" => r = <<"regs", want.x, want.s0, want.s1>>]_vars
  BY NextTells DEF Told, TrueReply
<1> QED BY <1>1, InvariantHolds, PTL DEF Spec, RepliesTrue

(* While the hart executes, no step of the server touches Debug RAM.       *)
LEMMA HandleKeepsRam ==
  ASSUME Invariant, Handle, srv.intr
  PROVE  srv'.ram = srv.ram
<1> DEFINE a == OpStep(srv)  b == Notify(a)  c == ReadSocket(b)
           e == [c EXCEPT !.send = <<>>]  f == accept(srv)
           k == IF c.client THEN [gdb EXCEPT !.replies = @ \o c.send] ELSE gdb
           s == IF srv.client THEN e ELSE f
           t == IF s.queue = <<>> THEN process_requests(s) ELSE s
           v == PromiseServer(srv)
<1>0. SrvShape(srv)
  BY InvariantFacts
<1>1. srv' = t
  BY DEF Handle
<1>2. /\ srv.client => Served(e, hart, k, v)
      /\ ~srv.client => Served(f, hart, gdb, v)
  BY ServedClient, ServedAccept
<1>3. a = srv
  BY DEF OpStep
<1> HIDE DEF a
<1>4. SrvShape(b) /\ b.ram = a.ram
  <2> DEFINE o == HaltOp(TRUE)
  <2>1. b = IF a.haltnot THEN add_operation([a EXCEPT !.haltnot = FALSE], o) ELSE a
    BY DEF Notify
  <2> HIDE DEF b, o
  <2> QED BY <1>0, <1>3, <2>1 DEF add_operation, SrvShape, SrvFields
<1> HIDE DEF b
<1>5. SrvShape(c) /\ c.ram = b.ram
  BY <1>4 DEF ReadSocket, SrvShape, SrvFields
<1> HIDE DEF c
<1>6. e.ram = c.ram
  BY <1>5 DEF SrvShape, SrvFields
<1>7. f.ram = srv.ram
  <2> DEFINE o == HaltOp(FALSE)
  <2>1. f = IF gdb.link THEN add_operation([srv EXCEPT !.client = TRUE], o) ELSE srv
    BY DEF accept
  <2> HIDE DEF f, o
  <2> QED BY <1>0, <2>1 DEF add_operation, SrvShape, SrvFields
<1> HIDE DEF e, f, k, v
<1>8. \E g : Served(s, hart, g, v) /\ s.ram = srv.ram
  BY <1>2, <1>3, <1>4, <1>5, <1>6, <1>7
<1> HIDE DEF s
<1>9. PICK g : Served(s, hart, g, v) /\ s.ram = srv.ram
  BY <1>8
<1>10. s.queue = <<>> => Idling(s, hart, g, v)
  BY <1>9 DEF Served, Idling
<1>11. s.queue = <<>> => t.ram = s.ram
  BY <1>10, ProcessCore
<1> QED BY <1>1, <1>9, <1>11

LEMMA NextKeepsProgram ==
  ASSUME Invariant, [Next]_vars, srv.intr, srv'.intr
  PROVE  /\ srv'.ram.prog = srv.ram.prog
         /\ srv'.ram.d0 = srv.ram.d0 /\ srv'.ram.d1 = srv.ram.d1
<1>0. SrvShape(srv)
  BY InvariantFacts
<1>1. CASE Handle
  BY <1>1, HandleKeepsRam
<1>2. ~DebugRam
  BY <1>0 DEF DebugRam, SrvShape, SrvFields
<1>3. CASE Entry \/ WaitForInterrupt
  BY <1>0, <1>3 DEF Entry, WaitForInterrupt, SrvShape, SrvFields, RamFields
<1>4. CASE SendRequest \/ Interrupt
  BY <1>0, <1>4 DEF SendRequest, Interrupt, SrvShape, SrvFields
<1>5. CASE srv' = srv
  BY <1>5
<1>6. CASE EnterDebug \/ CheckHalt \/ HartRun \/ Connect \/ Disconnect \/ ReceiveReply
  BY <1>5, <1>6 DEF EnterDebug, CheckHalt, HartRun, RunInsn, SwitchSpace, Connect,
                    Disconnect, ReceiveReply
<1> QED BY <1>1, <1>2, <1>3, <1>4, <1>5, <1>6 DEF Next, HartDebug, Debugger, vars

(* The hart never executes half a program: while the debug interrupt is
   pending neither the operations (gdbserver_t::handle steps none while
   interrupt is set) nor the debugger nor the Debug ROM changes the program
   in Debug RAM or its operands.                                            *)
THEOREM ProgramIsStable == Spec => ProgramStable
<1>1. Invariant /\ [Next]_vars =>
        [srv.intr /\ srv'.intr =>
           /\ srv'.ram.prog = srv.ram.prog
           /\ srv'.ram.d0 = srv.ram.d0 /\ srv'.ram.d1 = srv.ram.d1]_vars
  BY NextKeepsProgram
<1> QED BY <1>1, InvariantHolds, PTL DEF Spec, ProgramStable

(* A step that leaves Debug Mode is one of check_halt.                     *)
LEMMA Leaving ==
  ASSUME Invariant, [Next]_vars, hart.mode # "run", hart'.mode = "run"
  PROVE  CheckHalt /\ ~hart.halt
<1>0. HartShape(hart) /\ Modes(srv, hart)
  BY InvariantFacts
<1>1. ~(UNCHANGED vars) /\ ~Handle /\ ~Debugger
  BY DEF vars, Handle, Debugger, Connect, Disconnect, SendRequest, Interrupt, ReceiveReply
<1>2. ~HartRun /\ ~EnterDebug
  BY DEF HartRun, RunInsn, SwitchSpace, EnterDebug
<1>3. ~WaitForInterrupt /\ ~DebugRam
  <2>1. CASE WaitForInterrupt
    BY <1>0, <2>1 DEF WaitForInterrupt, HartShape, HartFields
  <2>2. CASE DebugRam
    BY <2>2, DebugRamStep
  <2> QED BY <2>1, <2>2
<1>4. ~Entry
  <2> SUFFICES ASSUME Entry PROVE FALSE
    OBVIOUS
  <2> QED BY <1>0 DEF Entry, enter_debug_mode, HartShape, HartFields
<1>5. CheckHalt
  BY <1>1, <1>2, <1>3, <1>4 DEF Next, HartDebug
<1>6. hart.mode = "check" /\ ~hart.halt
  BY <1>0, <1>5 DEF CheckHalt, HartShape, HartFields
<1> QED BY <1>5, <1>6

(* The registers Debug ROM and the server's programs borrow are given back: a
   program that leaves Debug Mode (debug_rom.S, check_halt) finds s0, s1 and
   every other register as it left them or as the debugger last wrote them,
   whatever was read, written, interrupted or disconnected in between.      *)
RegistersGivenBack ==
    [][hart.mode # "run" /\ hart'.mode = "run" =>
         \A r \in {"s0", "s1", "x", "f"} : hart'[r] = want'[r] /\ want'[r] = want[r]]_vars

LEMMA ResumeRegisters ==
  ASSUME Invariant, [Next]_vars, hart.mode # "run", hart'.mode = "run"
  PROVE  \A r \in {"s0", "s1", "x", "f"} : hart'[r] = want'[r] /\ want'[r] = want[r]
<1>0. HartShape(hart) /\ Kept(srv, hart, want)
  BY InvariantFacts
<1>1. CheckHalt /\ ~hart.halt
  BY Leaving
<1>2. /\ hart.mode = "check" /\ ~hart.halt /\ want' = want
      /\ hart'.s0 = hart.dscratch /\ hart'.s1 = hart.s1 /\ hart'.x = hart.x /\ hart'.f = hart.f
  BY <1>0, <1>1 DEF CheckHalt, HartShape, HartFields
<1> QED BY <1>0, <1>2 DEF Kept

(* The registers Debug ROM and the programs of gdbserver.cc borrow are given
   back when check_halt leaves Debug Mode.                                  *)
THEOREM RegistersAreGivenBack == Spec => RegistersGivenBack
<1>1. Invariant /\ [Next]_vars =>
        [hart.mode # "run" /\ hart'.mode = "run" =>
           \A r \in {"s0", "s1", "x", "f"} : hart'[r] = want'[r] /\ want'[r] = want[r]]_vars
  BY ResumeRegisters
<1> QED BY <1>1, InvariantHolds, PTL DEF Spec, RegistersGivenBack
=============================================================================
