-------------------------- MODULE GdbResumeProofs ---------------------------
(***************************************************************************)
(* ResumeFaithful, for every size of memory, page tables and buffers and   *)
(* every program under debug: where the pc, mstatus and prv of the program *)
(* are while the hart is in Debug Mode.                                    *)
(***************************************************************************)
EXTENDS GdbSessionProofs

(* What is proved of the session in GdbSessionProofs is used throughout, so *)
(* one hypothesis is left: a single step does not start on an ebreak (see   *)
(* README, Observations).                                                   *)
StepsPlainCode ==
    hart.mode = "run" /\ hart.single_step = "stepping" /\ hart.ebreak
      => mem[FetchCell] # EBREAK

(* Nothing is asked of a hart that is not halted but that it halt.          *)
LEMMA Unheld ==
  ASSUME NEW s, NEW h, NEW g, NEW w, Core(s, h, g, w), ~Halted(h)
  PROVE  /\ ~Requested(s.queue) /\ ~Left(s) /\ ~release(s)
         /\ ~(s.client /\ g.link /\ (Consumed(s, g) => Stopped(s, g)) /\ s.queue = <<>>)
         /\ s.queue # <<>> => s.queue[1].op = "halt" /\ ~(s.queue[1].step > 2)
<1>1. ~Requested(s.queue)
  BY DEF Core, Held
<1>2. s.intr => s.queue # <<>> /\ s.queue[1].step > 0 /\ PostedBy(s, s.queue[1])
  BY DEF Core, Posted
<1>3. s.queue # <<>> => s.queue[1].op = "halt"
  BY <1>1 DEF Requested
<1>4. ~Left(s)
  BY <1>2 DEF Left
<1>5. ~release(s)
  <2>1. s.intr => \E k \in 1 .. 4 : s.ram.prog = HaltProgram(k)
    BY <1>2, <1>3 DEF PostedBy
  <2> QED BY <2>1, NotDcsrProgram DEF release
<1>6. ~(s.client /\ g.link /\ (Consumed(s, g) => Stopped(s, g)) /\ s.queue = <<>>)
  BY DEF Core, Attended, Settled, HaltComing
<1>7. s.queue # <<>> => ~(s.queue[1].step > 2)
  BY <1>3 DEF Core, Fetched, FetchedBy
<1> QED BY <1>1, <1>3, <1>4, <1>5, <1>6, <1>7

LEMMA LooseControl ==
  ASSUME NEW s, NEW h, NEW g, NEW w, Core(s, h, g, w), Control(s, h, g, w), ~Halted(h),
         NEW t, SrvShape(t), Same(s, t, {"ram", "haltnot"}), SameRam(s, t),
         NEW k, Stepping(k), NEW v, k.mode # "run" => HartHas(k, v)
  PROVE  Control(t, k, g, v)
<1>0. /\ t.queue = s.queue /\ t.gs = s.gs /\ t.recv = s.recv /\ t.send = s.send
      /\ (t.intr <=> s.intr) /\ (t.client <=> s.client)
  BY DEF Same, SrvFields
<1>r. t.ram.prog = s.ram.prog
  BY DEF SameRam, RamFields
<1>1. /\ ~Requested(s.queue) /\ ~Left(s) /\ ~release(s)
      /\ ~(s.client /\ g.link /\ (Consumed(s, g) => Stopped(s, g)) /\ s.queue = <<>>)
      /\ s.queue # <<>> => s.queue[1].op = "halt" /\ ~(s.queue[1].step > 2)
  BY Unheld
<1>2. (Stopped(t, g) <=> Stopped(s, g)) /\ (Consumed(t, g) <=> Consumed(s, g))
  BY <1>0 DEF Stopped, Consumed, Flight, Packet
<1>3. ~release(t) /\ ~Left(t)
  BY <1>0, <1>r, <1>1 DEF release, Left
<1>4. ServerTrue(t, g, v)
  BY <1>0, <1>1, <1>2, <1>3 DEF ServerTrue
<1>5. Somewhere(t, k, v) /\ Releasing(t, k, v) /\ RunPhase(t, k, v)
  BY <1>0, <1>1, <1>3 DEF Somewhere, Releasing, RunPhase
<1>6. s.queue # <<>> => HeadControl(t, k, v, s.queue[1])
  <2> SUFFICES ASSUME s.queue # <<>> PROVE HeadControl(t, k, v, s.queue[1])
    OBVIOUS
  <2>1. s.queue[1].step > 3 => s.queue[1].step > 2
    <3>1. Chain(s.queue)
      BY DEF Core
    <3>2. 1 \in 1 .. Len(s.queue)
      BY <3>1, IsSeqEmpty DEF Chain
    <3>3. s.queue[1].step \in Nat
      BY <3>1, <3>2 DEF Chain, IsOp
    <3> QED BY <3>3
  <2> QED BY <1>1, <2>1 DEF HeadControl
<1> QED BY <1>0, <1>4, <1>5, <1>6 DEF Control

LEMMA SteadyControl ==
  ASSUME NEW s, NEW h, NEW g, NEW w, Control(s, h, g, w),
         NEW t, SrvShape(t), Same(s, t, {"ram"}), SameRam(s, t),
         NEW k, \A f \in HartFields \ {"mode", "s0"} : k[f] = h[f],
         h.mode \in {"wait", "check", "ram"}, k.mode \in {"wait", "check", "ram"}
  PROVE  Control(t, k, g, w)
<1>0. /\ t.queue = s.queue /\ t.gs = s.gs /\ t.recv = s.recv /\ t.send = s.send
      /\ (t.intr <=> s.intr) /\ (t.client <=> s.client) /\ (t.haltnot <=> s.haltnot)
  BY DEF Same, SrvFields
<1>r. t.ram.prog = s.ram.prog /\ t.ram.d0 = s.ram.d0
  BY DEF SameRam, RamFields
<1>k. /\ k.dpc = h.dpc /\ k.mstatus = h.mstatus /\ k.dprv = h.dprv /\ k.halt = h.halt
      /\ k.single_step = h.single_step
  BY DEF HartFields
<1>2. (Stopped(t, g) <=> Stopped(s, g)) /\ (Consumed(t, g) <=> Consumed(s, g))
      /\ (Packet(t) <=> Packet(s))
  BY <1>0 DEF Stopped, Consumed, Flight, Packet
<1>3. (release(t) <=> release(s)) /\ (Left(t) <=> Left(s))
      /\ (HartHas(k, w) <=> HartHas(h, w)) /\ (SrvHas(t, w) <=> SrvHas(s, w))
      /\ (Halted(k) <=> Halted(h))
  BY <1>0, <1>r, <1>k DEF release, Left, HartHas, SrvHas, Halted
<1>4. ServerTrue(t, g, w)
  BY <1>0, <1>2, <1>3 DEF ServerTrue, Control
<1>5. Somewhere(t, k, w)
  BY <1>3 DEF Somewhere, Control
<1>6. Releasing(t, k, w)
  BY <1>r, <1>k, <1>3 DEF Releasing, Control
<1>7. Stepping(k)
  BY <1>k DEF Stepping, Control
<1>8. Running(t, k, g) => Running(s, h, g)
  BY <1>0, <1>2 DEF Running
<1>9. RunPhase(s, h, w) => RunPhase(t, k, w)
  BY <1>0, <1>3 DEF RunPhase
<1>10. s.queue # <<>> => HeadControl(t, k, w, s.queue[1])
  BY <1>0, <1>r, <1>k DEF HeadControl, Control
<1> QED BY <1>0, <1>4, <1>5, <1>6, <1>7, <1>8, <1>9, <1>10 DEF Control

LEMMA EnterDebugControl ==
  ASSUME Invariant, Control0, EnterDebug
  PROVE  Control(srv', hart', gdb', want')
<1>1. PICK c \in {"debugint", "halt"} : hart' = enter_debug_mode(hart, c)
  BY DEF EnterDebug
<1>2. hart.mode = "run" /\ srv' = srv /\ gdb' = gdb /\ want' = Promise(hart)
  BY DEF EnterDebug
<1>3. /\ hart'.mode = "entry" /\ hart'.single_step = hart.single_step
      /\ hart'.dpc = hart.pc /\ hart'.dprv = hart.prv /\ hart'.mstatus = hart.mstatus
  BY <1>1, InvariantFacts, EnterFields
<1>4. HartHas(hart', want')
  BY <1>2, <1>3, InvariantFacts, PromiseFields DEF HartHas
<1>5. Stepping(hart')
  BY <1>3 DEF Stepping, Control0, Control
<1>6. ~Halted(hart) /\ Core(srv, hart, gdb, want)
  BY <1>2 DEF Halted, Invariant, Inv
<1>7. SrvShape(srv') /\ Same(srv, srv', {"ram", "haltnot"}) /\ SameRam(srv, srv')
  BY <1>2, InvariantFacts DEF Same, SameRam
<1> QED BY <1>2, <1>4, <1>5, <1>6, <1>7, LooseControl DEF Control0

LEMMA EntryControl ==
  ASSUME Invariant, Control0, Entry
  PROVE  Control(srv', hart', gdb', want')
<1>0. hart.mode = "entry" /\ gdb' = gdb /\ want' = want /\ hart.single_step # "stepped"
  BY DEF Entry, Control0, Control, Stepping
<1>1. ~Halted(hart) /\ Core(srv, hart, gdb, want)
  BY <1>0 DEF Halted, Invariant, Inv
<1>2. /\ SrvShape(srv') /\ Same(srv, srv', {"ram", "haltnot"}) /\ SameRam(srv, srv')
      /\ hart'.mode \in {"wait", "ram"} /\ hart'.single_step = hart.single_step
      /\ hart'.dpc = hart.dpc /\ hart'.dprv = hart.dprv /\ hart'.mstatus = hart.mstatus
  <2>1. CASE hart.cause = "debugint"
    <3>1. /\ hart' = [hart EXCEPT !.dscratch = hart.s0, !.s0 = Junk, !.mode = "ram"]
          /\ srv' = [srv EXCEPT !.ram.last = hart.s1]
      BY <1>0, <2>1 DEF Entry
    <3>2. SrvShape(srv') /\ Same(srv, srv', {"ram", "haltnot"}) /\ SameRam(srv, srv')
      BY <3>1, InvariantFacts DEF SrvShape, Same, SrvFields, SameRam, RamFields
    <3> QED BY <3>1, <3>2, InvariantFacts DEF HartShape, HartFields
  <2>2. CASE hart.cause # "debugint"
    <3>1. /\ hart' = [hart EXCEPT !.dscratch = hart.s0, !.s0 = Junk, !.halt = TRUE, !.mode = "wait"]
          /\ srv' = [srv EXCEPT !.haltnot = TRUE]
      BY <1>0, <2>2 DEF Entry
    <3>2. SrvShape(srv') /\ Same(srv, srv', {"ram", "haltnot"}) /\ SameRam(srv, srv')
      BY <3>1, InvariantFacts DEF SrvShape, Same, SrvFields, SameRam
    <3> QED BY <3>1, <3>2, InvariantFacts DEF HartShape, HartFields
  <2> QED BY <2>1, <2>2
<1>3. HartHas(hart, want)
  BY <1>0, <1>1 DEF Control0, Control, Somewhere
<1>4. HartHas(hart', want') /\ Stepping(hart')
  BY <1>0, <1>2, <1>3 DEF HartHas, Stepping, Control0, Control
<1> QED BY <1>0, <1>1, <1>2, <1>4, LooseControl DEF Control0

LEMMA WaitForInterruptControl ==
  ASSUME Invariant, Control0, WaitForInterrupt
  PROVE  Control(srv', hart', gdb', want')
<1>1. /\ hart.mode = "wait" /\ gdb' = gdb /\ want' = want
      /\ hart' = [hart EXCEPT !.s0 = Junk, !.mode = "ram"]
      /\ srv' = [srv EXCEPT !.ram.last = hart.s1]
  BY DEF WaitForInterrupt
<1>2. /\ hart'.mode = "ram"
      /\ \A f \in HartFields \ {"mode", "s0"} : hart'[f] = hart[f]
  BY <1>1, InvariantFacts DEF HartShape, HartFields
<1>3. SrvShape(srv') /\ Same(srv, srv', {"ram"}) /\ SameRam(srv, srv')
  BY <1>1, InvariantFacts DEF SrvShape, Same, SrvFields, SameRam, RamFields
<1> QED BY <1>1, <1>2, <1>3, SteadyControl DEF Control0

(* The program resumes with what it was promised.                           *)
LEMMA CheckHaltControl ==
  ASSUME Invariant, Control0, CheckHalt
  PROVE  /\ Control(srv', hart', gdb', want')
         /\ ~hart.halt => /\ hart'.pc = want.pc /\ hart'.prv = want.prv
                          /\ hart'.mstatus = want.mstatus
<1>1. hart.mode = "check" /\ srv' = srv /\ gdb' = gdb /\ want' = want
  BY DEF CheckHalt
<1>0. SrvShape(srv') /\ Same(srv, srv', {"ram"}) /\ Same(srv, srv', {"ram", "haltnot"})
      /\ SameRam(srv, srv')
  BY <1>1, InvariantFacts DEF Same, SameRam
<1>2. CASE hart.halt
  <2>1. hart' = [hart EXCEPT !.mode = "wait"]
    BY <1>2 DEF CheckHalt
  <2>2. /\ hart'.mode = "wait"
        /\ \A f \in HartFields \ {"mode", "s0"} : hart'[f] = hart[f]
    BY <2>1, InvariantFacts DEF HartShape, HartFields
  <2> QED BY <1>0, <1>1, <1>2, <2>2, SteadyControl DEF Control0
<1>3. CASE ~hart.halt
  <2> DEFINE ss == IF hart.step THEN "stepping" ELSE hart.single_step
  <2>1. hart' = [hart EXCEPT !.s0 = hart.dscratch, !.pc = hart.dpc,
                             !.prv = hart.dprv, !.cause = NoCause,
                             !.mode = "run", !.itlb = FALSE, !.icache = {},
                             !.single_step = ss]
    BY <1>3 DEF CheckHalt
  <2>s. ss \in {"none", "stepping"}
    BY DEF Control0, Control, Stepping
  <2> HIDE DEF ss
  <2>2. /\ hart'.mode = "run" /\ hart'.mstatus = hart.mstatus
        /\ hart'.pc = hart.dpc /\ hart'.prv = hart.dprv /\ ~hart'.itlb /\ hart'.single_step = ss
    BY <2>1, InvariantFacts DEF HartShape, HartFields
  <2>3. ~Halted(hart) /\ Core(srv, hart, gdb, want)
    BY <1>3 DEF Halted, Invariant, Inv
  <2>4. HartHas(hart, want)
    BY <1>1, <2>3 DEF Control0, Control, Somewhere
  <2>5. Stepping(hart')
    BY <2>2, <2>s DEF Stepping
  <2>6. Control(srv', hart', gdb', want')
    BY <1>0, <1>1, <2>2, <2>3, <2>5, LooseControl DEF Control0
  <2> QED BY <2>2, <2>4, <2>6 DEF HartHas
<1> QED BY <1>2, <1>3

LEMMA RunInsnControl ==
  ASSUME Invariant, Control0, RunInsn, StepsPlainCode
  PROVE  Control(srv', hart', gdb', want')
<1> DEFINE ic == IF hart.single_step = "none" THEN hart.icache \cup {hart.pc} ELSE hart.icache
           ss == IF hart.single_step = "stepping" THEN "stepped" ELSE hart.single_step
           h == [hart EXCEPT !.itlb = TRUE, !.icache = ic, !.single_step = ss]
           n == [h EXCEPT !.s0 = 1 - h.s0, !.s1 = h.s0, !.pc = Successor(hart.pc)]
           m == [n EXCEPT !.single_step = "none"]
           X == mem[FetchCell] = EBREAK /\ hart.ebreak
           Y == n.single_step = "stepped"
<1>0. hart.mode = "run" /\ srv' = srv /\ gdb' = gdb
  BY DEF RunInsn
<1>1. hart' = IF Triggered THEN enter_debug_mode(h, "hwbp")
              ELSE IF X THEN enter_debug_mode(h, "swbp")
              ELSE IF Y THEN enter_debug_mode(m, "step") ELSE n
  BY DEF RunInsn
<1>s. Stepping(hart)
  BY DEF Control0, Control
<1>2. Triggered => ss = "none"
  BY <1>0, <1>s DEF Triggered, Stepping
<1>3. X => ss = "none"
  BY <1>0, <1>s DEF StepsPlainCode, Stepping
<1>4. ss \in {"none", "stepped"}
  BY <1>s DEF Stepping
<1> HIDE DEF ic, ss, X, Y
<1>5. HartShape(h) /\ h.single_step = ss
  BY InvariantFacts DEF HartShape, HartFields
<1> HIDE DEF h
<1>6. HartShape(n) /\ n.single_step = ss
  BY <1>5 DEF HartShape, HartFields
<1> HIDE DEF n
<1>7. HartShape(m) /\ m.single_step = "none"
  BY <1>6 DEF HartShape, HartFields
<1> HIDE DEF m
<1>8. hart'.single_step = "none"
  <2>1. CASE Triggered
    BY <1>1, <1>2, <1>5, <2>1, EnterFields
  <2>2. CASE ~Triggered /\ X
    BY <1>1, <1>3, <1>5, <2>2, EnterFields
  <2>3. CASE ~Triggered /\ ~X /\ Y
    BY <1>1, <1>7, <2>3, EnterFields
  <2>4. CASE ~Triggered /\ ~X /\ ~Y
    BY <1>1, <1>4, <1>6, <2>4 DEF Y
  <2> QED BY <2>1, <2>2, <2>3, <2>4
<1>9. HartShape(hart')
  BY RunInsnShape DEF RunInsnHart
<1>10. hart'.mode # "run" => HartHas(hart', want')
  <2> DEFINE e == [hart' EXCEPT !.pc = hart'.dpc, !.prv = hart'.dprv]
  <2>1. hart'.mode # "run" => want' = Promise(e)
    BY DEF RunInsn
  <2>2. e.pc = hart'.dpc /\ e.prv = hart'.dprv /\ e.mstatus = hart'.mstatus
    BY <1>9 DEF HartShape, HartFields
  <2> HIDE DEF e
  <2>3. /\ Promise(e).pc = e.pc /\ Promise(e).mstatus = e.mstatus /\ Promise(e).prv = e.prv
    BY PromiseFields, InvariantFacts
  <2> QED BY <2>1, <2>2, <2>3 DEF HartHas
<1>11. ~Halted(hart) /\ Core(srv, hart, gdb, want)
  BY <1>0 DEF Halted, Invariant, Inv
<1>12. SrvShape(srv') /\ Same(srv, srv', {"ram", "haltnot"}) /\ SameRam(srv, srv')
  BY <1>0, InvariantFacts DEF Same, SameRam
<1>13. Stepping(hart')
  BY <1>8 DEF Stepping
<1> QED BY <1>0, <1>10, <1>11, <1>12, <1>13, LooseControl DEF Control0

LEMMA SwitchSpaceControl ==
  ASSUME Invariant, Control0, SwitchSpace
  PROVE  Control(srv', hart', gdb', want')
<1>1. hart.mode = "run" /\ srv' = srv /\ gdb' = gdb /\ want' = want
  BY DEF SwitchSpace
<1>2. PICK root \in Roots :
        hart' = [hart EXCEPT !.sptbr = root, !.itlb = FALSE, !.icache = {}]
  BY DEF SwitchSpace
<1>3. hart'.mode = "run" /\ hart'.single_step = hart.single_step /\ ~hart'.itlb
  BY <1>1, <1>2, InvariantFacts DEF HartShape, HartFields
<1>4. Stepping(hart')
  BY <1>3 DEF Stepping, Control0, Control
<1>5. ~Halted(hart) /\ Core(srv, hart, gdb, want)
  BY <1>1 DEF Halted, Invariant, Inv
<1>6. SrvShape(srv') /\ Same(srv, srv', {"ram", "haltnot"}) /\ SameRam(srv, srv')
  BY <1>1, InvariantFacts DEF Same, SameRam
<1> QED BY <1>1, <1>3, <1>4, <1>5, <1>6, LooseControl DEF Control0

(* What a program does to the hart's pc, mstatus and prv.                   *)
Resumes(s, k) == s.queue # <<>> /\ s.queue[1].op = "continue" /\ s.queue[1].step = k
Leaves(s, h, m) ==
    /\ release(s) => /\ m.h.dpc = h.dpc /\ m.h.mstatus = h.mstatus
                     /\ m.h.dprv = s.ram.d0.prv
    /\ ~release(s) /\ ~Requested(s.queue) =>
         m.h.dpc = h.dpc /\ m.h.mstatus = h.mstatus /\ m.h.dprv = h.dprv
    /\ Resumes(s, 1) => m.h.dpc = s.ram.d0
    /\ Resumes(s, 2) => m.h.dpc = h.dpc /\ m.h.mstatus = s.ram.d0

LEMMA LeavesPosted ==
  ASSUME NEW s, NEW h, NEW g, NEW w, Core(s, h, g, w), h.mode = "ram",
         NEW m, Starts(s, h, m), NEW n, n = RunProgram(m, s.ram.prog)
  PROVE  Leaves(s, h, n)
<1>0. MShape(m) /\ m.h = h /\ m.ram = s.ram /\ s.intr
  BY DEF Starts, Core, Modes
<1> DEFINE p == s.ram.prog  o == s.queue[1]
<1>1. release(s) => /\ n.h.dpc = h.dpc /\ n.h.mstatus = h.mstatus
                    /\ n.h.dprv = s.ram.d0.prv
  <2> SUFFICES ASSUME release(s) PROVE /\ n.h.dpc = h.dpc /\ n.h.mstatus = h.mstatus
                                       /\ n.h.dprv = s.ram.d0.prv
    OBVIOUS
  <2>1. n = Execute(Execute(m, dr_load("s0", "d0")), csrw("s0", "dcsr"))
    BY RunShort DEF release, dcsr_program
  <2> DEFINE slot == "d0"  c == "dcsr"
  <2>2. slot \in {"d0", "d1"} /\ c \in {"dpc", "mstatus", "dscratch", "dcsr"}
        /\ n = Execute(Execute(m, dr_load("s0", slot)), csrw("s0", c))
    BY <2>1
  <2> HIDE DEF slot, c
  <2>3. Loaded(m, slot, c, n)
    BY <1>0, <2>2, LoadCsrw DEF Starts
  <2> QED BY <1>0, <2>3 DEF Loaded, Others, HartFields, slot, c
<1>2. ~release(s) /\ ~Requested(s.queue) =>
        n.h.dpc = h.dpc /\ n.h.mstatus = h.mstatus /\ n.h.dprv = h.dprv
  <2> SUFFICES ASSUME ~release(s), ~Requested(s.queue)
               PROVE  n.h.dpc = h.dpc /\ n.h.mstatus = h.mstatus /\ n.h.dprv = h.dprv
    OBVIOUS
  <2>1. AllCalm(p)
    <3>1. CASE s.queue # <<>> /\ s.queue[1].step > 0
      <4>1. o.step \in 1 .. 4 /\ p = HaltProgram(o.step)
        BY <3>1 DEF Core, Posted, PostedBy, Requested
      <4> QED BY <4>1, ReadingCalm
    <3>2. CASE ~(s.queue # <<>> /\ s.queue[1].step > 0)
      BY <1>0, <3>2 DEF Core, Posted
    <3> QED BY <3>1, <3>2
  <2>2. Undisturbed(m, n)
    BY <1>0, <2>1, CalmRun
  <2> QED BY <1>0, <2>2 DEF Undisturbed, SameHart
<1>3. Resumes(s, 1) => n.h.dpc = s.ram.d0
  <2> SUFFICES ASSUME Resumes(s, 1) PROVE n.h.dpc = s.ram.d0
    OBVIOUS
  <2>1. p \in DpcPrograms
    BY DEF Resumes, Core, Posted, PostedBy
  <2> DEFINE k == Execute(Execute(m, dr_load("s0", "d0")), csrw("s0", "dpc"))
  <2>2. n = k \/ n = Execute(k, fence_i)
    BY <2>1, RunShort DEF DpcPrograms
  <2>3. k.h.dpc = s.ram.d0 /\ MShape(k)
    BY TouchesLoadCsrw
  <2> HIDE DEF k
  <2>4. Calm(fence_i)
    BY DEF Calm, fence_i, Name
  <2>5. Undisturbed(k, Execute(k, fence_i))
    BY <2>3, <2>4, CalmStep
  <2> QED BY <2>2, <2>3, <2>5 DEF Undisturbed, SameHart
<1>4. Resumes(s, 2) => n.h.dpc = h.dpc /\ n.h.mstatus = s.ram.d0
  <2> SUFFICES ASSUME Resumes(s, 2) PROVE n.h.dpc = h.dpc /\ n.h.mstatus = s.ram.d0
    OBVIOUS
  <2>1. p = mstatus_program
    BY DEF Resumes, Core, Posted, PostedBy
  <2>2. n = Execute(Execute(m, dr_load("s0", "d0")), csrw("s0", "mstatus"))
    BY <2>1, RunShort DEF mstatus_program
  <2> DEFINE F == {"s0", "mstatus"}
  <2>3. Touches(m, n, F) /\ n.h.mstatus = s.ram.d0
    BY <2>2, TouchesLoadCsrw
  <2>4. n.h.dpc = m.h.dpc
    BY <2>3 DEF Touches, Others, HartFields
  <2> QED BY <1>0, <2>3, <2>4
<1> QED BY <1>1, <1>2, <1>3, <1>4 DEF Leaves

(* A promise about the registers and memory, none about pc, mstatus and prv *)
SameControl(w, v) == v.pc = w.pc /\ v.mstatus = w.mstatus /\ v.prv = w.prv

LEMMA RanControl ==
  ASSUME NEW s, NEW h, NEW g, NEW w, Core(s, h, g, w), Control(s, h, g, w), h.mode = "ram",
         NEW v, SameControl(w, v), NEW m, Ran(s, h, v, m), Leaves(s, h, m),
         NEW k, NEW t, Returned(s, m, k, t)
  PROVE  Control(t, k, g, v)
<1> USE DEF Returned
<1>0. /\ t.queue = s.queue /\ t.gs = s.gs /\ t.recv = s.recv /\ t.send = s.send
      /\ (t.client <=> s.client) /\ (t.haltnot <=> s.haltnot) /\ ~t.intr
  BY DEF Same, SrvFields
<1>i. s.intr
  BY DEF Core, Modes
<1>k. /\ k.mode = "check" /\ k.single_step = h.single_step /\ k.dpc = m.h.dpc
      /\ k.mstatus = m.h.mstatus /\ k.dprv = m.h.dprv /\ k.halt = m.h.halt
  BY DEF Ran, HartFields
<1>1. SrvHas(t, v) <=> SrvHas(s, w)
  BY <1>0 DEF SrvHas, SameControl
<1>2. release(s) => HartHas(k, v)
  BY <1>k DEF HartHas, SameControl, Leaves, Control, Releasing
<1>3. ~release(s) /\ ~Requested(s.queue) /\ HartHas(h, w) => HartHas(k, v)
  BY <1>k DEF HartHas, SameControl, Leaves
<1>4. ~release(s) /\ Halted(h) => Halted(k)
  BY <1>k DEF Halted, Ran
<1>5. /\ (Stopped(t, g) <=> Stopped(s, g)) /\ (Consumed(t, g) <=> Consumed(s, g))
      /\ (Packet(t) <=> Packet(s))
  BY <1>0 DEF Stopped, Consumed, Flight, Packet
<1>6. ~release(t) /\ ~Left(t)
  BY <1>0 DEF release, Left
<1>7. ServerTrue(t, g, v)
  BY <1>0, <1>1, <1>5, <1>6 DEF ServerTrue, Control
<1>8. Somewhere(t, k, v)
  <2>1. CASE release(s)
    BY <1>2, <2>1 DEF Somewhere
  <2>2. CASE ~release(s) /\ Requested(s.queue)
    BY <1>1, <1>4, <2>2 DEF Somewhere, Control, ServerTrue, Core, Held
  <2>3. CASE ~release(s) /\ ~Requested(s.queue)
    BY <1>1, <1>3, <1>4, <2>3 DEF Somewhere, Control
  <2> QED BY <2>1, <2>2, <2>3
<1>9. Releasing(t, k, v) /\ Stepping(k)
  BY <1>6, <1>k DEF Releasing, Stepping, Control
<1>10. RunPhase(s, h, w) => RunPhase(t, k, v)
  <2> SUFFICES ASSUME RunPhase(s, h, w) PROVE RunPhase(t, k, v)
    OBVIOUS
  <2>1. CASE release(s)
    BY <1>0, <1>2, <2>1 DEF RunPhase
  <2>2. CASE ~release(s) /\ Resuming(s.queue)
    BY <1>0, <2>2 DEF RunPhase
  <2>3. CASE ~release(s) /\ ~Resuming(s.queue)
    <3>1. ~Requested(s.queue)
      BY <2>3 DEF RunPhase, Resuming, Requested
    <3> QED BY <1>0, <1>3, <2>3, <3>1 DEF RunPhase
  <2> QED BY <2>1, <2>2, <2>3
<1>11. Running(t, k, g) => Running(s, h, g)
  BY <1>0, <1>5, <1>k DEF Running
<1>12. s.queue # <<>> => HeadControl(t, k, v, s.queue[1])
  BY <1>0, <1>i, <1>k DEF HeadControl, Control, SameControl, Leaves, Resumes
<1> QED BY <1>0, <1>7, <1>8, <1>9, <1>10, <1>11, <1>12 DEF Control

LEMMA PromiseHartControl ==
  ASSUME WantShape(want)
  PROVE  SameControl(want, PromiseHart)
<1> DEFINE o == Head(srv.queue)
           E == o.op = "rwrite" /\ o.step = 1 /\ o.reg \in {"s0", "s1", "x", "f"}
           u == o.op = "mwrite" /\ o.step > 0 /\ o.user
           c == TrueCell(o.addr + o.step - 1)
           d == o.data[o.step]
           a == [want EXCEPT ![o.reg] = o.val]
           b == [want EXCEPT !.mem[c] = d]
<1>0. PromiseHart = IF srv.queue = <<>> THEN want
                    ELSE CASE E -> a
                           [] u -> IF c \in Cell THEN b ELSE want
                           [] OTHER -> want
  BY DEF PromiseHart
<1> HIDE DEF c, d, u
<1>1. SameControl(want, b) /\ SameControl(want, want)
  BY DEF SameControl, WantShape, WantFields
<1>2. E => SameControl(want, a)
  <2> DEFINE r == o.reg  e == o.val
  <2> SUFFICES ASSUME r \in {"s0", "s1", "x", "f"} PROVE SameControl(want, a)
    OBVIOUS
  <2>1. a = [want EXCEPT ![r] = e]
    OBVIOUS
  <2> HIDE DEF r, e, a
  <2> QED BY <2>1 DEF SameControl, WantShape, WantFields
<1>3. ~(E /\ u)
  BY DEF u
<1> HIDE DEF a, b, E
<1> QED BY <1>0, <1>1, <1>2, <1>3

LEMMA DebugRamControl ==
  ASSUME Invariant, Control0, DebugRam
  PROVE  Control(srv', hart', gdb', want')
<1> DEFINE i == [h |-> hart, ram |-> srv.ram, mem |-> mem, ok |-> TRUE]
           m == RunProgram(i, srv.ram.prog)
           v == PromiseHart
           l == m.ram.last
           c == IF m.ok THEN 0 ELSE 1
           r == [m.ram EXCEPT !.status = c]
<1>1. /\ hart.mode = "ram" /\ gdb' = gdb /\ want' = v
      /\ hart' = [m.h EXCEPT !.s1 = l, !.s0 = Junk, !.mode = "check"]
      /\ srv' = [srv EXCEPT !.ram = r, !.intr = FALSE]
  BY DEF DebugRam
<1>2. Core(srv, hart, gdb, want) /\ SrvShape(srv) /\ HartShape(hart) /\ WantShape(want)
  BY InvariantFacts DEF Invariant, Inv
<1>3. Starts(srv, hart, i)
  <2>1. DOMAIN i = {"h", "ram", "mem", "ok"} /\ i.h = hart /\ i.ram = srv.ram /\ i.ok
    OBVIOUS
  <2> QED BY <1>2, <2>1 DEF Starts, MShape, SrvShape
<1> HIDE DEF i
<1>4. Ran(srv, hart, v, m)
  BY <1>1, <1>3, RanPosted
<1>5. Leaves(srv, hart, m)
  BY <1>1, <1>2, <1>3, LeavesPosted
<1> HIDE DEF m, l, c
<1>6. MShape(m)
  BY <1>4 DEF Ran
<1>7. /\ HartShape(hart') /\ hart'.mode = "check" /\ hart'.s1 = l
      /\ \A f \in HartFields \ {"mode", "s0", "s1"} : hart'[f] = m.h[f]
  BY <1>1, <1>6 DEF MShape, HartShape, HartFields
<1>8. DOMAIN r = RamFields /\ \A f \in RamFields \ {"status"} : r[f] = m.ram[f]
  BY <1>6 DEF MShape, RamFields
<1> HIDE DEF r
<1>9. SrvShape(srv') /\ Same(srv, srv', {"ram", "intr"}) /\ ~srv'.intr /\ srv'.ram = r
  BY <1>1, <1>2, <1>8 DEF SrvShape, Same, SrvFields
<1>10. Returned(srv, m, hart', srv')
  BY <1>7, <1>8, <1>9 DEF Returned, l
<1>11. SameControl(want, v)
  BY <1>2, PromiseHartControl
<1> HIDE DEF v
<1> DEFINE hh == hart'  ss == srv'
<1> SUFFICES Control(ss, hh, gdb, v)
  BY <1>1
<1>12. Returned(srv, m, hh, ss)
  BY <1>10
<1> HIDE DEF hh, ss
<1> QED BY <1>1, <1>2, <1>4, <1>5, <1>11, <1>12, RanControl DEF Control0

-----------------------------------------------------------------------------
(* The steps of the operations, and where pc, mstatus and prv are.          *)

(* What the step of the operation o at the head promises.                   *)
Promised(s, w, v, o) ==
    /\ o.op \notin {"halt", "rwrite"} => SameControl(w, v)
    /\ o.op = "halt" =>
         /\ v.pc = IF o.step = 2 /\ ~o.status THEN s.ram.d0 ELSE w.pc
         /\ v.mstatus = IF o.step = 3 /\ ~o.status THEN s.ram.d0 ELSE w.mstatus
         /\ v.prv = IF o.step = 4 /\ ~o.status THEN s.ram.d0.prv ELSE w.prv
    /\ o.op = "rwrite" =>
         /\ v.pc = IF o.step = 0 /\ o.reg = "pc" THEN o.val ELSE w.pc
         /\ v.mstatus = IF o.step = 0 /\ o.reg = "mstatus"
                        THEN [w.mstatus EXCEPT !.fs = (o.val # 0)] ELSE w.mstatus
         /\ v.prv = IF o.step = 0 /\ o.reg = "priv"
                    THEN (IF o.val = 0 THEN "U" ELSE "M") ELSE w.prv

LEMMA PromiseServerControl ==
  ASSUME WantShape(want), srv.client, ~srv.intr, srv.queue # <<>>,
         NEW o, o = Head(srv.queue)
  PROVE  Promised(srv, want, PromiseServer(srv), o)
<1> DEFINE d == srv.ram.d0
           a == [want EXCEPT !.pc = d]
           b == [want EXCEPT !.mstatus = d]
           c == [want EXCEPT !.prv = d.prv]
           i == [want EXCEPT !.pc = o.val]
           m == [want.mstatus EXCEPT !.fs = (o.val # 0)]
           j == [want EXCEPT !.mstatus = m]
           p == IF o.val = 0 THEN "U" ELSE "M"
           k == [want EXCEPT !.prv = p]
           v == PromiseServer(srv)
           g1 == o.op = "halt" /\ o.step = 2 /\ ~o.status
           g2 == o.op = "halt" /\ o.step = 3 /\ ~o.status
           g3 == o.op = "halt" /\ o.step = 4 /\ ~o.status
           g4 == o.op = "rwrite" /\ o.step = 0 /\ o.reg = "pc"
           g5 == o.op = "rwrite" /\ o.step = 0 /\ o.reg = "mstatus"
           g6 == o.op = "rwrite" /\ o.step = 0 /\ o.reg = "priv"
<1>1. v = CASE g1 -> a [] g2 -> b [] g3 -> c [] g4 -> i [] g5 -> j [] g6 -> k
            [] OTHER -> want
  BY DEF PromiseServer
<1> SUFFICES Promised(srv, want, v, o)
  OBVIOUS
<1> HIDE DEF v, m, p
<1>a. a.pc = d /\ a.mstatus = want.mstatus /\ a.prv = want.prv
  BY DEF WantShape, WantFields
<1>b. b.pc = want.pc /\ b.mstatus = d /\ b.prv = want.prv
  BY DEF WantShape, WantFields
<1>c. c.pc = want.pc /\ c.mstatus = want.mstatus /\ c.prv = d.prv
  BY DEF WantShape, WantFields
<1>i. i.pc = o.val /\ i.mstatus = want.mstatus /\ i.prv = want.prv
  BY DEF WantShape, WantFields
<1>j. j.pc = want.pc /\ j.mstatus = m /\ j.prv = want.prv
  BY DEF WantShape, WantFields
<1>k. k.pc = want.pc /\ k.mstatus = want.mstatus /\ k.prv = p
  BY DEF WantShape, WantFields
<1> HIDE DEF a, b, c, i, j, k, g1, g2, g3, g4, g5, g6
<1>2. CASE g1
  <2>1. ~g2 /\ ~g3 /\ ~g4 /\ ~g5 /\ ~g6
    BY <1>2 DEF g1, g2, g3, g4, g5, g6
  <2>2. v = a
    BY <1>1, <1>2, <2>1
  <2> QED BY <1>2, <1>a, <2>2 DEF g1, Promised
<1>3. CASE g2
  <2>1. ~g1 /\ ~g3 /\ ~g4 /\ ~g5 /\ ~g6
    BY <1>3 DEF g1, g2, g3, g4, g5, g6
  <2>2. v = b
    BY <1>1, <1>3, <2>1
  <2> QED BY <1>3, <1>b, <2>2 DEF g2, Promised
<1>4. CASE g3
  <2>1. ~g1 /\ ~g2 /\ ~g4 /\ ~g5 /\ ~g6
    BY <1>4 DEF g1, g2, g3, g4, g5, g6
  <2>2. v = c
    BY <1>1, <1>4, <2>1
  <2> QED BY <1>4, <1>c, <2>2 DEF g3, Promised
<1>5. CASE g4
  <2>1. ~g1 /\ ~g2 /\ ~g3 /\ ~g5 /\ ~g6
    BY <1>5 DEF g1, g2, g3, g4, g5, g6
  <2>2. v = i
    BY <1>1, <1>5, <2>1
  <2> QED BY <1>5, <1>i, <2>2 DEF g4, Promised
<1>6. CASE g5
  <2>1. ~g1 /\ ~g2 /\ ~g3 /\ ~g4 /\ ~g6
    BY <1>6 DEF g1, g2, g3, g4, g5, g6
  <2>2. v = j
    BY <1>1, <1>6, <2>1
  <2> QED BY <1>6, <1>j, <2>2 DEF g5, Promised, m
<1>7. CASE g6
  <2>1. ~g1 /\ ~g2 /\ ~g3 /\ ~g4 /\ ~g5
    BY <1>7 DEF g1, g2, g3, g4, g5, g6
  <2>2. v = k
    BY <1>1, <1>7, <2>1
  <2> QED BY <1>7, <1>k, <2>2 DEF g6, Promised, p
<1>8. CASE ~(g1 \/ g2 \/ g3 \/ g4 \/ g5 \/ g6)
  <2>1. v = want
    BY <1>1, <1>8
  <2> QED BY <1>8, <2>1 DEF g1, g2, g3, g4, g5, g6, Promised, SameControl
<1> QED BY <1>2, <1>3, <1>4, <1>5, <1>6, <1>7, <1>8

(* The server's own pc, mstatus and dcsr in t are those of s.               *)
Own(s, t) == /\ DOMAIN t = SrvFields /\ DOMAIN t.gs = GsFields /\ DOMAIN t.ram = RamFields
             /\ t.gs.dpc = s.gs.dpc /\ t.gs.mstatus = s.gs.mstatus /\ t.gs.dcsr = s.gs.dcsr

LEMMA OwnKept ==
  ASSUME NEW s, NEW t, Own(s, t)
  PROVE  /\ \A p : Own(s, Post(t, p))
         /\ \A slot, v : Own(s, Slot(t, slot, v))
         /\ \A o : Own(s, Again(t, o))
         /\ Own(s, Done(t))
         /\ \A r : Own(s, send_packet(t, r)) /\ Own(s, Done(send_packet(t, r)))
         /\ \A x, a, b : Own(s, Done(send_registers(t, x, a, b)))
         /\ Own(s, [t EXCEPT !.intr = TRUE])
<1> USE DEF Own, SrvFields
<1>1. ASSUME NEW p PROVE Own(s, Post(t, p))
  BY DEF Post, RamFields
<1>2. ASSUME NEW slot, NEW v PROVE Own(s, Slot(t, slot, v))
  BY DEF Slot, RamFields
<1>3. ASSUME NEW o PROVE Own(s, Again(t, o))
  BY DEF Again
<1>4. Own(s, Done(t))
  BY DEF Done
<1>5. ASSUME NEW r PROVE Own(s, send_packet(t, r)) /\ Own(s, Done(send_packet(t, r)))
  BY DEF send_packet, Done
<1>6. ASSUME NEW x, NEW a, NEW b PROVE Own(s, Done(send_registers(t, x, a, b)))
  BY DEF send_registers, Done
<1>7. Own(s, [t EXCEPT !.intr = TRUE])
  OBVIOUS
<1> HIDE DEF Own
<1> QED BY <1>1, <1>2, <1>3, <1>4, <1>5, <1>6, <1>7

LEMMA OwnGs ==
  ASSUME NEW s, NEW t, Own(s, t)
  PROVE  /\ Own(s, [t EXCEPT !.gs.fence_i_required = FALSE])
         /\ Own(s, [t EXCEPT !.gs.mstatus_dirty = TRUE])
         /\ \A v : Own(s, [t EXCEPT !.gs.sptbr = v, !.gs.sptbr_valid = TRUE])
         /\ \A v : Own(s, [t EXCEPT !.gs.tselect = v, !.gs.tselect_valid = TRUE])
         /\ \A v : Own(s, [t EXCEPT !.gs.pte_cache = v])
<1> USE DEF Own, SrvFields, GsFields
<1>1. /\ Own(s, [t EXCEPT !.gs.fence_i_required = FALSE])
      /\ Own(s, [t EXCEPT !.gs.mstatus_dirty = TRUE])
  OBVIOUS
<1>2. ASSUME NEW v PROVE Own(s, [t EXCEPT !.gs.sptbr = v, !.gs.sptbr_valid = TRUE])
  OBVIOUS
<1>3. ASSUME NEW v PROVE Own(s, [t EXCEPT !.gs.tselect = v, !.gs.tselect_valid = TRUE])
  OBVIOUS
<1>4. ASSUME NEW v PROVE Own(s, [t EXCEPT !.gs.pte_cache = v])
  OBVIOUS
<1> QED BY <1>1, <1>2, <1>3, <1>4

LEMMA OwnSelf ==
  ASSUME NEW s, SrvShape(s)
  PROVE  Own(s, s)
  BY DEF Own, SrvShape

LEMMA OwnFsOn ==
  ASSUME NEW s, NEW t, Own(s, t)
  PROVE  Own(s, FsOn(t))
<1> DEFINE a == [t.gs.mstatus EXCEPT !.fs = TRUE]
           b == Slot(t, "d1", a)
<1>1. Own(s, b)
  BY OwnKept
<1>2. FsOn(t) = [b EXCEPT !.gs.mstatus_dirty = TRUE]
  BY DEF FsOn
<1> HIDE DEF b
<1>3. Own(s, [b EXCEPT !.gs.mstatus_dirty = TRUE])
  BY <1>1, OwnGs
<1> QED BY <1>2, <1>3

(* Only a halt and the write of pc, mstatus or priv change them.            *)
LEMMA OwnStep ==
  ASSUME NEW s, SrvShape(s), NEW o, o = Head(s.queue),
         o.op \in OpNames \ {"halt", "rwrite"}
  PROVE  Own(s, perform_step(s))
<1>0. Own(s, s)
  BY OwnSelf
<1>1. Own(s, die(s))
  BY <1>0 DEF Own, die, SrvFields
<1>2. CASE o.op = "continue"
  <2> DEFINE u == [s EXCEPT !.gs.fence_i_required = FALSE]
             P == <<dr_load("s0", "d0"), csrw("s0", "dpc")>>
                    \o (IF s.gs.fence_i_required THEN <<fence_i>> ELSE <<>>)
             Q == <<dr_load("s0", "d0"), csrw("s0", "mstatus")>>
             R == <<dr_load("s0", "d0"), csrw("s0", "dcsr")>>
             d == [s.gs.dcsr EXCEPT !.halt = FALSE, !.step = o.single_step, !.ebreak = TRUE]
  <2>1. perform_step(s) \in {Again(Slot(Post(u, P), "d0", s.gs.dpc), o),
                             Again(Slot(Post(s, Q), "d0", s.gs.mstatus), o),
                             Done(Slot(Post(s, R), "d0", d))}
    BY <1>2 DEF perform_step, continue_op
  <2>2. Own(s, u)
    BY <1>0, OwnGs
  <2> HIDE DEF u, P, Q, R, d
  <2>3. Own(s, Post(u, P)) /\ Own(s, Post(s, Q)) /\ Own(s, Post(s, R))
    BY <1>0, <2>2, OwnKept
  <2>4. /\ Own(s, Slot(Post(u, P), "d0", s.gs.dpc)) /\ Own(s, Slot(Post(s, Q), "d0", s.gs.mstatus))
        /\ Own(s, Slot(Post(s, R), "d0", d))
    BY <2>3, OwnKept
  <2>5. /\ Own(s, Again(Slot(Post(u, P), "d0", s.gs.dpc), o))
        /\ Own(s, Again(Slot(Post(s, Q), "d0", s.gs.mstatus), o))
        /\ Own(s, Done(Slot(Post(s, R), "d0", d)))
    BY <2>4, OwnKept
  <2> QED BY <2>1, <2>5
<1>3. CASE o.op = "gread"
  <2> DEFINE got == IF o.step = 0 THEN <<>> ELSE o.got \o <<s.ram.d0, s.ram.d1>>
             pair == RegPairs[o.step + 1]
             P == PairProgram(pair)
             n == [o EXCEPT !.got = got]
             X == o.step = Len(RegPairs)
  <2>1. perform_step(s) = IF X THEN Done(send_registers(s, got[1], got[4], got[5]))
                          ELSE Again(Post(s, P), n)
    BY <1>3 DEF perform_step, general_registers_read_op, PairProgram
  <2> HIDE DEF got, pair, P, n, X
  <2>2. Own(s, Done(send_registers(s, got[1], got[4], got[5]))) /\ Own(s, Post(s, P))
    BY <1>0, OwnKept
  <2>3. Own(s, Again(Post(s, P), n))
    BY <2>2, OwnKept
  <2> QED BY <2>1, <2>2, <2>3
<1>4. CASE o.op = "rread"
  <2>1. PICK P : \/ perform_step(s) \in {Again(Post(s, P), o), Again(Post(FsOn(s), P), o)}
                 \/ \E r : perform_step(s) = Done(send_packet(s, r))
    BY <1>4 DEF perform_step, register_read_op
  <2>2. Own(s, Post(s, P)) /\ \A r : Own(s, Done(send_packet(s, r)))
    BY <1>0, OwnKept
  <2>3. Own(s, FsOn(s))
    BY <1>0, OwnFsOn
  <2>4. Own(s, Post(FsOn(s), P))
    BY <2>3, OwnKept
  <2>5. Own(s, Again(Post(s, P), o)) /\ Own(s, Again(Post(FsOn(s), P), o))
    BY <2>2, <2>4, OwnKept
  <2> QED BY <2>1, <2>2, <2>5
<1>5. CASE o.op = "hwremove"
  <2> DEFINE P == <<addi("s0", "zero", o.index), csrw("s0", "tselect"), csrw("zero", "tdata1")>>
  <2>1. perform_step(s) = Done(Post(s, P))
    BY <1>5 DEF perform_step, hardware_breakpoint_remove_op
  <2> HIDE DEF P
  <2>2. Own(s, Post(s, P))
    BY <1>0, OwnKept
  <2> QED BY <2>1, <2>2, OwnKept
<1>6. CASE o.op = "collect"
  <2> DEFINE b == [s EXCEPT !.gs.sptbr = s.ram.d0, !.gs.sptbr_valid = TRUE]
             C == [a \in DOMAIN s.gs.pte_cache \cup {o.pte_addr} |->
                     IF a = o.pte_addr THEN s.ram.d0 ELSE s.gs.pte_cache[a]]
             c == [s EXCEPT !.gs.pte_cache = C]
             t == CASE o.state = "START" -> s
                    [] o.state = "READ_SPTBR" -> b
                    [] OTHER -> c
             r == Walk(t.gs.pte_cache, t.gs.sptbr, o.addr)
             P == <<csrr("s0", "sptbr"), dr_store("s0", "d0")>>
             Q == <<dr_load("s0", "d0"), ld("s1", "s0"), dr_store("s1", "d0")>>
             n == [o EXCEPT !.state = "READ_SPTBR"]
             m == [o EXCEPT !.state = "READ_PTE", !.pte_addr = r[2]]
  <2>a. c = [s EXCEPT !.gs.pte_cache =
               [a \in DOMAIN @ \cup {o.pte_addr} |->
                  IF a = o.pte_addr THEN s.ram.d0 ELSE @[a]]]
    OBVIOUS
  <2>1. perform_step(s) = IF o.step = 0 /\ ~virtual_memory(s) THEN Done(s)
                          ELSE IF ~t.gs.sptbr_valid THEN Again(Post(t, P), n)
                          ELSE IF r[1] = "missing"
                          THEN Again(Slot(Post(t, Q), "d0", r[2]), m)
                          ELSE Done(t)
    <3> HIDE DEF c, C
    <3>1. perform_step(s) = collect_translation_info_op(s, o)
      BY <1>6 DEF perform_step
    <3>2. collect_translation_info_op(s, o)
            = IF o.step = 0 /\ ~virtual_memory(s) THEN Done(s)
              ELSE IF ~t.gs.sptbr_valid THEN Again(Post(t, P), n)
              ELSE IF r[1] = "missing"
              THEN Again(Slot(Post(t, Q), "d0", r[2]), m)
              ELSE Done(t)
      BY <2>a DEF collect_translation_info_op
    <3> HIDE DEF t, r, P, Q, n, m
    <3> QED BY <3>1, <3>2
  <2>2. Own(s, b) /\ Own(s, c)
    <3> HIDE DEF C
    <3> QED BY <1>0, OwnGs
  <2> HIDE DEF b, c, C
  <2>3. Own(s, t)
    BY <1>0, <2>2
  <2> HIDE DEF t, r, P, Q, n, m
  <2>4. Own(s, Post(t, P)) /\ Own(s, Post(t, Q)) /\ Own(s, Done(t)) /\ Own(s, Done(s))
    BY <1>0, <2>3, OwnKept
  <2>5. Own(s, Again(Post(t, P), n)) /\ Own(s, Slot(Post(t, Q), "d0", r[2]))
    BY <2>4, OwnKept
  <2>6. Own(s, Again(Slot(Post(t, Q), "d0", r[2]), m))
    BY <2>5, OwnKept
  <2> QED BY <2>1, <2>4, <2>5, <2>6
<1>7. CASE o.op = "mread"
  <2> DEFINE pa == translate(s, o.addr)
             P == <<dr_load("s0", "d0"), ld("s1", "s0"), dr_store("s1", "d1")>>
             n == [o EXCEPT !.paddr = pa]
             m == [o EXCEPT !.paddr = @ + 1, !.len = @ - 1]
             b == [s EXCEPT !.software_breakpoints[o.bp] = s.ram.d1]
             t == IF o.bp = NoBp THEN s ELSE b
             i == [t EXCEPT !.intr = TRUE]
             d == o.paddr + 1
  <2>1. perform_step(s) \in {die(s), Again(Slot(Post(s, P), "d0", pa), n),
                             Done(send_packet(s, "E99")), Done(send_packet(t, "data")),
                             Done(t), Again(Slot(i, "d0", d), m)}
    BY <1>7 DEF perform_step, memory_read_op
  <2>2. Own(s, b)
    BY <1>0 DEF Own, SrvFields
  <2>3. Own(s, t)
    <3> HIDE DEF b
    <3> QED BY <1>0, <2>2
  <2> HIDE DEF pa, P, n, m, t, d
  <2>4. /\ Own(s, Post(s, P)) /\ Own(s, Done(send_packet(s, "E99")))
        /\ Own(s, Done(send_packet(t, "data"))) /\ Own(s, Done(t)) /\ Own(s, i)
    BY <1>0, <2>3, OwnKept
  <2> HIDE DEF i
  <2>5. Own(s, Slot(Post(s, P), "d0", pa)) /\ Own(s, Slot(i, "d0", d))
    BY <2>4, OwnKept
  <2>6. Own(s, Again(Slot(Post(s, P), "d0", pa), n)) /\ Own(s, Again(Slot(i, "d0", d), m))
    BY <2>5, OwnKept
  <2> QED BY <1>1, <2>1, <2>4, <2>6
<1>8. CASE o.op = "mwrite"
  <2> DEFINE pa == translate(s, o.addr)
             P == <<dr_load("s0", "d0"), dr_load("s1", "d1"), sd("s1", "s0")>>
             i == [s EXCEPT !.intr = TRUE]
             c == o.data[1]
             d == o.data[o.step + 1]
             e == pa + o.step
  <2>1. perform_step(s) \in {die(s), Again(Slot(Slot(Post(s, P), "d1", c), "d0", pa), o),
                             Done(send_packet(s, "E98")), Done(send_packet(s, "OK")),
                             Again(Slot(Slot(i, "d1", d), "d0", e), o)}
    BY <1>8 DEF perform_step, memory_write_op
  <2> HIDE DEF pa, P, c, d, e
  <2>2. /\ Own(s, Post(s, P)) /\ Own(s, Done(send_packet(s, "E98")))
        /\ Own(s, Done(send_packet(s, "OK"))) /\ Own(s, i)
    BY <1>0, OwnKept
  <2> HIDE DEF i
  <2>3. Own(s, Slot(Post(s, P), "d1", c)) /\ Own(s, Slot(i, "d1", d))
    BY <2>2, OwnKept
  <2>4. Own(s, Slot(Slot(Post(s, P), "d1", c), "d0", pa)) /\ Own(s, Slot(Slot(i, "d1", d), "d0", e))
    BY <2>3, OwnKept
  <2>5. /\ Own(s, Again(Slot(Slot(Post(s, P), "d1", c), "d0", pa), o))
        /\ Own(s, Again(Slot(Slot(i, "d1", d), "d0", e), o))
    BY <2>4, OwnKept
  <2> QED BY <1>1, <2>1, <2>2, <2>5
<1>9. CASE o.op = "hwinsert"
  <2> DEFINE P == index_program
             Q == <<csrr("s0", "tdata1"), dr_store("s0", "d0")>>
             R == <<dr_load("s0", "d1"), csrw("s0", "tdata1")>>
             S == <<dr_load("s0", "d1"), csrw("s0", "tdata2")>>
             m == [o EXCEPT !.state = "CHECK_INDEX", !.index = 0]
             n == [o EXCEPT !.state = "CHECK_MCONTROL"]
             p == [o EXCEPT !.state = "WRITE_ADDRESS"]
             q == [o EXCEPT !.state = "CHECK_INDEX", !.index = @ + 1]
             d == o.index + 1
             H == [a \in DOMAIN s.hardware_breakpoints \cup {o.addr} |->
                     IF a = o.addr THEN o.index ELSE s.hardware_breakpoints[a]]
             b == [s EXCEPT !.hardware_breakpoints = H]
             t == IF o.addr \in DOMAIN s.hardware_breakpoints THEN s ELSE b
  <2>a. b = [s EXCEPT !.hardware_breakpoints =
               [a \in DOMAIN @ \cup {o.addr} |-> IF a = o.addr THEN o.index ELSE @[a]]]
    OBVIOUS
  <2>1. perform_step(s) \in {Again(Slot(Post(s, P), "d1", 0), m), Done(send_packet(s, "E58")),
                             Again(Post(s, Q), n), Again(Slot(Post(s, R), "d1", 1), p),
                             Again(Slot(Post(s, P), "d1", d), q),
                             Done(send_packet(Slot(Post(t, S), "d1", o.addr), "OK"))}
    <3> HIDE DEF b, H
    <3> QED BY <1>9, <2>a DEF perform_step, hardware_breakpoint_insert_op
  <2>2. Own(s, b)
    <3> HIDE DEF H
    <3> QED BY <1>0 DEF Own, SrvFields
  <2> HIDE DEF b, H
  <2>3. Own(s, t)
    BY <1>0, <2>2
  <2> HIDE DEF P, Q, R, S, m, n, p, q, d, t
  <2>4. /\ Own(s, Post(s, P)) /\ Own(s, Done(send_packet(s, "E58"))) /\ Own(s, Post(s, Q))
        /\ Own(s, Post(s, R)) /\ Own(s, Post(t, S))
    BY <1>0, <2>3, OwnKept
  <2>5. /\ Own(s, Slot(Post(s, P), "d1", 0)) /\ Own(s, Slot(Post(s, R), "d1", 1))
        /\ Own(s, Slot(Post(s, P), "d1", d)) /\ Own(s, Slot(Post(t, S), "d1", o.addr))
        /\ Own(s, Again(Post(s, Q), n))
    BY <2>4, OwnKept
  <2>6. /\ Own(s, Again(Slot(Post(s, P), "d1", 0), m)) /\ Own(s, Again(Slot(Post(s, R), "d1", 1), p))
        /\ Own(s, Again(Slot(Post(s, P), "d1", d), q))
        /\ Own(s, Done(send_packet(Slot(Post(t, S), "d1", o.addr), "OK")))
    BY <2>5, OwnKept
  <2> QED BY <2>1, <2>4, <2>5, <2>6
<1>10. CASE o.op = "stselect"
  <2> DEFINE P == <<csrr("s0", "tdata1"), dr_store("s0", "d0")>>
             d == s.ram.d0
             b == [s EXCEPT !.gs.tselect = d, !.gs.tselect_valid = TRUE]
  <2>1. perform_step(s) \in {Done(s), Again(Post(s, P), o), Done(b)}
    BY <1>10 DEF perform_step, maybe_save_tselect_op
  <2> HIDE DEF P, d
  <2>2. Own(s, b)
    BY <1>0, OwnGs
  <2> HIDE DEF b
  <2>3. Own(s, Post(s, P)) /\ Own(s, Done(s)) /\ Own(s, Done(b))
    BY <1>0, <2>2, OwnKept
  <2>4. Own(s, Again(Post(s, P), o))
    BY <2>3, OwnKept
  <2> QED BY <2>1, <2>3, <2>4
<1>11. CASE o.op \in {"rtselect", "rmstatus"}
  <2> DEFINE P == <<dr_load("s0", "d1"), csrw("s0", "tselect")>>
             Q == <<dr_load("s0", "d1"), csrw("s0", "mstatus")>>
             c == Slot(s, "d1", s.gs.tselect)
             d == Slot(s, "d1", s.gs.mstatus)
             a == [c EXCEPT !.ram.prog = P]
             b == [d EXCEPT !.ram.prog = Q]
  <2>1. perform_step(s) \in {Done(s), Done(a), Done(b)}
    BY <1>11 DEF perform_step, maybe_restore_tselect_op, maybe_restore_mstatus_op
  <2>2. Own(s, c) /\ Own(s, d)
    BY <1>0, OwnKept
  <2> HIDE DEF P, Q, c, d
  <2>3. Own(s, a) /\ Own(s, b)
    BY <2>2 DEF Own, SrvFields, RamFields
  <2> HIDE DEF a, b
  <2>4. Own(s, Done(s)) /\ Own(s, Done(a)) /\ Own(s, Done(b))
    BY <1>0, <2>3, OwnKept
  <2> QED BY <2>1, <2>4
<1> QED BY <1>2, <1>3, <1>4, <1>5, <1>6, <1>7, <1>8, <1>9, <1>10, <1>11 DEF OpNames, ResumeOps

(* The queue after the step of an operation.                                *)
LEMMA KinQueue ==
  ASSUME NEW s, Chain(s.queue), s.queue # <<>>, NEW t, Kin(s, t)
  PROVE  /\ t.queue # <<>> => \/ t.queue[1].step = 0 /\ Follow(s.queue[1], t.queue[1])
                                 /\ t.queue = Tail(s.queue)
                              \/ t.queue[1].op = s.queue[1].op /\ t.queue[1].step # 0
         /\ t.queue = <<>> => /\ t.queue = Tail(s.queue)
                              /\ s.queue[1].op \notin {"rtselect", "rmstatus", "collect", "stselect"}
         /\ s.queue[1].op # "halt" /\ HaltTold(t.queue) => HaltTold(s.queue)
<1> DEFINE q == s.queue  r == t.queue  T == Tail(s.queue)  o == s.queue[1]
<1>1. /\ T # <<>> => T[1].step = 0 /\ Follow(o, T[1])
      /\ T = <<>> => o.op \notin {"rtselect", "rmstatus", "collect", "stselect"}
  BY ChainTail
<1>2. /\ IsSeq(T) /\ Len(q) \in Nat \ {0} /\ Len(T) = Len(q) - 1
      /\ \A i \in 1 .. Len(q) - 1 : T[i] = q[i + 1]
  BY IsSeqTail DEF Chain
<1>3. r = T \/ \E p : r = <<p>> \o T /\ p.op = o.op /\ p.step # 0
  BY DEF Kin
<1>4. IsSeq(q) /\ q # <<>> /\ o = q[1]
  BY DEF Chain
<1>5. ASSUME NEW p
      PROVE  LET a == <<p>> \o T
             IN  /\ a # <<>> /\ a[1] = p /\ Len(a) = Len(q)
                 /\ \A i \in 2 .. Len(q) : a[i] = q[i]
  BY <1>4, IsSeqHead
<1> HIDE DEF q, r, T, o
<1>6. HaltTold(T) => HaltTold(q)
  <2> SUFFICES ASSUME NEW i \in 1 .. Len(T), T[i].op = "halt", T[i].status
               PROVE  HaltTold(q)
    BY DEF HaltTold
  <2> DEFINE k == i + 1
  <2>1. k \in 1 .. Len(q) /\ T[i] = q[k]
    BY <1>2
  <2> HIDE DEF k
  <2> QED BY <2>1 DEF HaltTold
<1>7. CASE r = T
  BY <1>1, <1>6, <1>7 DEF q, r, T, o
<1>8. CASE r # T
  <2>1. PICK p : r = <<p>> \o T /\ p.op = o.op /\ p.step # 0
    BY <1>3, <1>8
  <2>2. /\ r # <<>> /\ r[1] = p /\ Len(r) = Len(q)
        /\ \A i \in 2 .. Len(q) : r[i] = q[i]
    BY <1>5, <2>1
  <2>3. o.op # "halt" /\ HaltTold(r) => HaltTold(q)
    <3> SUFFICES ASSUME o.op # "halt", NEW i \in 1 .. Len(r), r[i].op = "halt", r[i].status
                 PROVE  HaltTold(q)
      BY DEF HaltTold
    <3>1. i # 1
      BY <2>1, <2>2
    <3>2. i \in 2 .. Len(q)
      BY <1>2, <2>2, <3>1
    <3>3. i \in 1 .. Len(q)
      BY <1>2, <3>2
    <3> QED BY <2>2, <3>2, <3>3 DEF HaltTold
  <2> QED BY <2>1, <2>2, <2>3 DEF q, r, T, o
<1> QED BY <1>7, <1>8

(* What the resuming operation writes, and in which order.                  *)
Releases(s, t, o) ==
    /\ t.intr
    /\ o.step = 0 => t.queue = <<Stepped(o)>> \o Tail(s.queue) /\ t.ram.d0 = s.gs.dpc
    /\ o.step = 1 => t.queue = <<Stepped(o)>> \o Tail(s.queue) /\ t.ram.d0 = s.gs.mstatus
    /\ o.step = 2 => /\ t.queue = Tail(s.queue) /\ t.ram.prog = dcsr_program
                     /\ DOMAIN t.ram.d0 = DOMAIN s.gs.dcsr
                     /\ t.ram.d0.prv = s.gs.dcsr.prv /\ ~t.ram.d0.halt

LEMMA ContinueReleases ==
  ASSUME NEW s, SrvShape(s), DOMAIN s.gs.dcsr = DcsrFields, NEW o, o.op = "continue",
         o.step \in 0 .. 2, NEW t, t = continue_op(s, o)
  PROVE  Releases(s, t, o)
<1>1. CASE o.step = 0
  <2> DEFINE u == [s EXCEPT !.gs.fence_i_required = FALSE]
             P == <<dr_load("s0", "d0"), csrw("s0", "dpc")>>
                    \o (IF s.gs.fence_i_required THEN <<fence_i>> ELSE <<>>)
  <2>1. t = Again(Slot(Post(u, P), "d0", s.gs.dpc), o)
    BY <1>1 DEF continue_op
  <2>2. SrvShape(u) /\ u.queue = s.queue
    BY DEF SrvShape, SrvFields, GsFields
  <2> HIDE DEF u, P
  <2>3. Advance(u, Stepped(o), P, t) /\ t.ram["d0"] = s.gs.dpc
    BY <2>1, <2>2, AgainSlotPost
  <2> QED BY <1>1, <2>2, <2>3 DEF Releases, Advance
<1>2. CASE o.step = 1
  <2> DEFINE P == mstatus_program
  <2>1. t = Again(Slot(Post(s, P), "d0", s.gs.mstatus), o)
    BY <1>2 DEF continue_op, mstatus_program
  <2> HIDE DEF P
  <2>2. Advance(s, Stepped(o), P, t) /\ t.ram["d0"] = s.gs.mstatus
    BY <2>1, AgainSlotPost
  <2> QED BY <1>2, <2>2 DEF Releases, Advance
<1>3. CASE o.step = 2
  <2> DEFINE d == [s.gs.dcsr EXCEPT !.halt = FALSE, !.step = o.single_step, !.ebreak = TRUE]
             P == dcsr_program
  <2>1. t = Done(Slot(Post(s, P), "d0", d))
    BY <1>3 DEF continue_op, dcsr_program
  <2>2. DOMAIN d = DOMAIN s.gs.dcsr /\ d.prv = s.gs.dcsr.prv /\ ~d.halt
    BY DEF DcsrFields
  <2> HIDE DEF P, d
  <2>3. FinishPost(s, P, t) /\ t.ram.d0 = d
    <3>1. FinishPost(s, P, t)
      BY <2>1, DoneSlotPost
    <3>2. t.ram.d0 = d
      BY <2>1 DEF Done, Slot, Post, SrvShape, SrvFields, RamFields
    <3> QED BY <3>1, <3>2
  <2>4. t.intr /\ t.queue = Tail(s.queue) /\ t.ram.prog = P
    BY <2>3 DEF FinishPost
  <2> QED BY <1>3, <2>2, <2>3, <2>4 DEF Releases, P
<1> QED BY <1>1, <1>2, <1>3

(* An operation other than a halt: the server has what the program is to be *)
(* given back, before and after.                                            *)
LEMMA RequestedControl ==
  ASSUME NEW s, NEW h, NEW g, NEW w, Ready(s, h, g, w), Control(s, h, g, w),
         NEW o, o = s.queue[1], o.op # "halt",
         NEW t, NEW v, Performed(s, t, h, g, w, v),
         SrvHas(t, v), DOMAIN t.gs.dcsr = DcsrFields,
         o.op = "continue" => SameControl(w, v) /\ Releases(s, t, o),
         o.op = "rwrite" => \/ t.queue = Tail(s.queue)
                            \/ t.queue = <<Stepped(o)>> \o Tail(s.queue) /\ o.step = 0
  PROVE  Control(t, h, g, v)
<1>0. /\ Core(s, h, g, w) /\ ~s.intr /\ s.queue # <<>> /\ Chain(s.queue) /\ s.client
  BY DEF Ready, Core
<1>a. Kin(s, t)
  BY DEF Performed
<1>1. IsOp(o) /\ (o.step > 0 => PostedBy(s, o)) /\ Halted(h)
  BY HeadOp
<1>2. o.op = "continue" => o.step \in 0 .. 2
  BY <1>1 DEF PostedBy, IsOp
<1>3. /\ t.queue # <<>> => \/ t.queue[1].step = 0 /\ Follow(o, t.queue[1])
                              /\ t.queue = Tail(s.queue)
                           \/ t.queue[1].op = o.op /\ t.queue[1].step # 0
      /\ t.queue = <<>> => /\ t.queue = Tail(s.queue)
                           /\ o.op \notin {"rtselect", "rmstatus", "collect", "stselect"}
      /\ HaltTold(t.queue) => HaltTold(s.queue)
  BY <1>0, <1>a, KinQueue
<1>4. SrvHas(s, w)
  BY <1>0 DEF Control, ServerTrue, Requested
<1>5. ServerTrue(t, g, v) /\ Somewhere(t, h, v)
  BY <1>1 DEF ServerTrue, Somewhere
<1>6. ASSUME o.op = "continue"
      PROVE  /\ t.intr /\ v.pc = w.pc /\ v.mstatus = w.mstatus /\ v.prv = w.prv
             /\ o.step # 2 => /\ t.queue # <<>> /\ t.queue[1].op = "continue"
                              /\ t.queue[1].step = o.step + 1 /\ t.queue # Tail(s.queue)
             /\ o.step = 2 => t.queue = Tail(s.queue)
  <2>1. t.intr /\ v.pc = w.pc /\ v.mstatus = w.mstatus /\ v.prv = w.prv
    BY <1>6 DEF SameControl, Releases
  <2>2. o.step = 2 => t.queue = Tail(s.queue)
    BY <1>6 DEF Releases
  <2>3. ASSUME o.step # 2 
        PROVE  /\ t.queue # <<>> /\ t.queue[1].op = "continue"
               /\ t.queue[1].step = o.step + 1 /\ t.queue # Tail(s.queue)
    <3> DEFINE q == s.queue  p == Stepped(o)  r == t.queue
    <3>1. r = <<p>> \o Tail(q) /\ IsSeq(q) /\ q # <<>>
      BY <1>0, <1>2, <1>6, <2>3 DEF Releases, Chain
    <3>2. p.op = "continue" /\ p.step = o.step + 1
      BY <1>1, <1>6, SteppedOp
    <3> HIDE DEF q, p, r
    <3>3. /\ r # <<>> /\ r[1] = p /\ Len(r) = Len(q) /\ Len(q) \in Nat \ {0}
      BY <3>1, IsSeqHead
    <3>4. Len(Tail(q)) = Len(q) - 1
      BY <3>1, IsSeqTail
    <3>5. r # Tail(q)
      BY <3>3, <3>4
    <3> QED BY <3>2, <3>3, <3>5 DEF q, r
  <2> QED BY <2>1, <2>2, <2>3
<1>7. Releasing(t, h, v)
  <2> SUFFICES ASSUME release(t)
               PROVE  /\ h.dpc = v.pc /\ h.mstatus = v.mstatus
                      /\ DOMAIN t.ram.d0 = DcsrFields /\ t.ram.d0.prv = v.prv /\ ~t.ram.d0.halt
    BY DEF Releasing
  <2>1. o.op = "continue" /\ t.queue = Tail(s.queue)
    BY <1>a DEF Kin, release
  <2>2. o.step = 2
    BY <1>2, <1>6, <2>1
  <2>3. h.dpc = w.pc /\ h.mstatus = w.mstatus
    BY <1>0, <2>1, <2>2 DEF Control, HeadControl
  <2>4. /\ DOMAIN t.ram.d0 = DOMAIN s.gs.dcsr
        /\ t.ram.d0.prv = s.gs.dcsr.prv /\ ~t.ram.d0.halt
    BY <2>1, <2>2 DEF Releases
  <2> QED BY <1>4, <1>6, <2>1, <2>3, <2>4 DEF Control, SrvHas
<1>8. ASSUME Running(t, h, g) PROVE RunPhase(t, h, v)
  <2>1. Running(s, h, g)
    BY <1>3, <1>8, <1>a DEF Running, Kin, Consumed, Packet
  <2>2. o.op \in ResumeOps
    BY <1>0, <2>1 DEF Control, RunPhase
  <2>3. t.queue # <<>> => t.queue[1].op \in ResumeOps \cup {"halt"}
    BY <1>3, <2>2 DEF Follow, ResumeOps
  <2>4. CASE o.op # "continue"
    <3>1. o.op \in {"rtselect", "rmstatus"}
      BY <2>2, <2>4 DEF ResumeOps
    <3>2. t.queue # <<>>
      BY <1>3, <3>1
    <3>3. Resuming(t.queue)
      BY <1>3, <3>1, <3>2 DEF Resuming, Follow, ResumeOps
    <3> QED BY <2>3, <3>3 DEF RunPhase
  <2>5. CASE o.op = "continue" /\ o.step # 2
    <3>1. Resuming(t.queue)
      BY <1>6, <2>5 DEF Resuming, ResumeOps
    <3> QED BY <2>3, <3>1 DEF RunPhase
  <2>6. CASE o.op = "continue" /\ o.step = 2
    <3>1. release(t)
      BY <2>6 DEF release, Releases
    <3> QED BY <2>3, <3>1 DEF RunPhase
  <2> QED BY <2>4, <2>5, <2>6
<1>9. ASSUME t.queue # <<>> PROVE HeadControl(t, h, v, t.queue[1])
  <2> DEFINE p == t.queue[1]
  <2>1. p.op = "halt" => p.step = 0
    BY <1>3, <1>9
  <2>2. p.op = "continue" /\ p.step # 0 => o.op = "continue" /\ o.step # 2 /\ p.step = o.step + 1
    <3> SUFFICES ASSUME p.op = "continue", p.step # 0
                 PROVE  o.op = "continue" /\ o.step # 2 /\ p.step = o.step + 1
      OBVIOUS
    <3>1. o.op = "continue" /\ p.step # 0
      BY <1>3, <1>9
    <3>2. o.step # 2
      <4> SUFFICES ASSUME o.step = 2 PROVE FALSE
        OBVIOUS
      <4>1. t.queue = Tail(s.queue)
        BY <1>6, <3>1
      <4>2. p.step = 0
        BY <1>0, <1>9, <4>1, ChainTail
      <4> QED BY <3>1, <4>2
    <3> QED BY <1>6, <3>1, <3>2
  <2>5. p.op = "rwrite" => p.step \in {0, 1}
    <3> SUFFICES ASSUME p.op = "rwrite", p.step # 0 PROVE p.step = 1
      OBVIOUS
    <3>1. o.op = "rwrite"
      BY <1>3, <1>9
    <3>2. t.queue # Tail(s.queue)
      BY <1>0, <1>9, ChainTail
    <3> DEFINE n == Stepped(o)
    <3>3. t.queue = <<n>> \o Tail(s.queue) /\ o.step = 0
      BY <3>1, <3>2
    <3>4. n.step = 1
      BY <1>1, <3>3, SteppedOp
    <3> HIDE DEF n
    <3> DEFINE q == s.queue
    <3>5. IsSeq(q) /\ q # <<>> /\ t.queue = <<n>> \o Tail(q)
      BY <1>0, <3>3 DEF Chain
    <3> HIDE DEF q
    <3>6. t.queue[1] = n
      BY <3>5, IsSeqHead
    <3> QED BY <3>4, <3>6
  <2> HIDE DEF p
  <2>3. p.op = "continue" /\ p.step = 1 => t.intr /\ t.ram.d0 = v.pc
    <3> SUFFICES ASSUME p.op = "continue", p.step = 1 PROVE t.intr /\ t.ram.d0 = v.pc
      OBVIOUS
    <3>1. o.op = "continue" /\ o.step = 0
      BY <1>2, <2>2
    <3> QED BY <1>4, <1>6, <3>1 DEF SrvHas, Releases
  <2>4. p.op = "continue" /\ p.step = 2 => t.intr /\ h.dpc = v.pc /\ t.ram.d0 = v.mstatus
    <3> SUFFICES ASSUME p.op = "continue", p.step = 2
                 PROVE  t.intr /\ h.dpc = v.pc /\ t.ram.d0 = v.mstatus
      OBVIOUS
    <3>1. o.op = "continue" /\ o.step = 1
      BY <1>2, <2>2
    <3>2. h.dpc = w.pc
      BY <1>0, <3>1 DEF Control, HeadControl
    <3> QED BY <1>4, <1>6, <3>1, <3>2 DEF SrvHas, Releases
  <2> QED BY <2>1, <2>3, <2>4, <2>5 DEF HeadControl, p
<1>10. t.client /\ Stepping(h)
  BY DEF Performed, Truthful, Control
<1> QED BY <1>5, <1>7, <1>8, <1>9, <1>10 DEF Control

(* The debugger writes a register: pc, mstatus and priv in the server.      *)
LEMMA RwriteHas ==
  ASSUME NEW s, SrvShape(s), NEW w, SrvHas(s, w), DOMAIN s.gs.dcsr = DcsrFields,
         NEW o, o.op = "rwrite", o.step \in {0, 1}, NEW v, Promised(s, w, v, o),
         NEW t, t = register_write_op(s, o)
  PROVE  /\ SrvHas(t, v) /\ DOMAIN t.gs.dcsr = DcsrFields
         /\ \/ t.queue = Tail(s.queue)
            \/ t.queue = <<Stepped(o)>> \o Tail(s.queue) /\ o.step = 0
<1> DEFINE own(x) == SrvHas(x, v) /\ DOMAIN x.gs.dcsr = DcsrFields
           after(x) == \/ x.queue = Tail(s.queue)
                       \/ x.queue = <<Stepped(o)>> \o Tail(s.queue) /\ o.step = 0
<1> SUFFICES own(t) /\ after(t)
  OBVIOUS
<1>1. ASSUME NEW x, Own(s, x), o.step = 1 \/ o.reg \notin {"pc", "mstatus", "priv"}
      PROVE  own(x)
  <2>1. v.pc = w.pc /\ v.mstatus = w.mstatus /\ v.prv = w.prv
    BY <1>1 DEF Promised
  <2> QED BY <1>1, <2>1 DEF Own, SrvHas
<1>a. Own(s, s)
  BY OwnSelf
<1> DEFINE d == o.val  u == Slot(s, "d0", d)
<1>u. Own(s, u) /\ u.queue = s.queue /\ u.gs = s.gs /\ SrvShape(u)
  <2>1. Own(s, u)
    BY <1>a, OwnKept
  <2> QED BY <2>1 DEF Slot, SrvShape, SrvFields, RamFields
<1> HIDE DEF u
<1>2. CASE o.step = 1
  <2> DEFINE r == IF LastWord(s) # 0 THEN "E03" ELSE "OK"
  <2>1. t = Done(send_packet(s, r))
    BY <1>2 DEF register_write_op
  <2> HIDE DEF r
  <2>2. Own(s, t)
    BY <1>a, <2>1, OwnKept
  <2>3. t.queue = Tail(s.queue)
    BY <2>1, DoneSend DEF FinishSend
  <2> QED BY <1>1, <1>2, <2>2, <2>3
<1>3. CASE o.step = 0
  <2>1. ASSUME NEW x, Own(s, x), SrvShape(x), x.queue = s.queue,
               o.reg \notin {"pc", "mstatus", "priv"}, NEW P, t = Again(Post(x, P), o)
        PROVE  own(t) /\ after(t)
    <3>1. Own(s, Post(x, P))
      BY <2>1, OwnKept
    <3>2. Own(s, t)
      <4>1. Own(s, Again(Post(x, P), o))
        BY <3>1, OwnKept
      <4> QED BY <2>1, <4>1
    <3>3. Advance(x, Stepped(o), P, t)
      BY <2>1, AgainPost
    <3>4. own(t)
      BY <1>1, <2>1, <3>2
    <3>5. t.queue = <<Stepped(o)>> \o Tail(s.queue)
      BY <2>1, <3>3 DEF Advance
    <3>6. after(t)
      BY <1>3, <3>5
    <3> HIDE DEF own, after
    <3> QED BY <3>4, <3>6
  <2>2. CASE o.reg \in {"s0", "s1", "x", "bad"}
    <3>1. \E P : t = Again(Post(u, P), o)
      BY <1>3, <2>2 DEF register_write_op, u
    <3> QED BY <1>u, <2>1, <2>2, <3>1
  <2>3. CASE o.reg = "f"
    <3> DEFINE x == FsOn(u)
    <3>1. \E P : t = Again(Post(x, P), o)
      BY <1>3, <2>3 DEF register_write_op, u
    <3>2. Own(s, x)
      BY <1>u, OwnFsOn
    <3>3. SrvShape(x) /\ x.queue = s.queue
      <4> DEFINE a == [u.gs.mstatus EXCEPT !.fs = TRUE]
      <4>1. x = [Slot(u, "d1", a) EXCEPT !.gs.mstatus_dirty = TRUE]
        BY DEF FsOn
      <4> HIDE DEF a, x
      <4> QED BY <1>u, <4>1 DEF Slot, SrvShape, SrvFields, GsFields, RamFields
    <3> HIDE DEF x
    <3> QED BY <2>1, <2>3, <3>1, <3>2, <3>3
  <2>4. CASE o.reg = "sptbr"
    <3> DEFINE P == <<dr_load("s0", "d0")>> \o <<csrw("s0", "sptbr")>>
               x == Again(Post(u, P), o)
    <3>1. t = [x EXCEPT !.gs.sptbr = d, !.gs.sptbr_valid = TRUE]
      BY <1>3, <2>4 DEF register_write_op, u
    <3> HIDE DEF P
    <3>2. Own(s, Post(u, P))
      BY <1>u, OwnKept
    <3>3. Own(s, x)
      BY <3>2, OwnKept
    <3>4. Advance(u, Stepped(o), P, x)
      BY <1>u, AgainPost
    <3> HIDE DEF x, d
    <3>5. Own(s, t)
      <4>1. Own(s, [x EXCEPT !.gs.sptbr = d, !.gs.sptbr_valid = TRUE])
        BY <3>3, OwnGs
      <4> QED BY <3>1, <4>1
    <3>6. t.queue = x.queue
      BY <3>1, <3>4 DEF Advance, SrvShape, SrvFields
    <3>7. own(t)
      BY <1>1, <2>4, <3>5
    <3>8. t.queue = <<Stepped(o)>> \o Tail(s.queue)
      BY <1>u, <3>4, <3>6 DEF Advance
    <3>9. after(t)
      BY <1>3, <3>8
    <3> HIDE DEF own, after
    <3> QED BY <3>7, <3>9
  <2>5. CASE o.reg = "pc"
    <3> DEFINE x == [u EXCEPT !.gs.dpc = d]
    <3>1. t = Done(x)
      BY <1>3, <2>5 DEF register_write_op, u
    <3>2. v.pc = d /\ v.mstatus = w.mstatus /\ v.prv = w.prv
      BY <1>3, <2>5 DEF Promised
    <3>3. t.queue = Tail(s.queue) /\ t.gs.dpc = d /\ t.gs.mstatus = s.gs.mstatus /\ t.gs.dcsr = s.gs.dcsr
      BY <1>u, <3>1 DEF Done, SrvShape, SrvFields, GsFields
    <3> QED BY <3>2, <3>3 DEF SrvHas
  <2>6. CASE o.reg = "mstatus"
    <3> DEFINE n == [u.gs.mstatus EXCEPT !.fs = (d # 0)]
               x == [u EXCEPT !.gs.mstatus = n, !.gs.mstatus_dirty = TRUE]
    <3>0. x = [u EXCEPT !.gs.mstatus.fs = (d # 0), !.gs.mstatus_dirty = TRUE]
      BY <1>u DEF SrvShape, SrvFields, GsFields
    <3>1. t = Done(x)
      <4> HIDE DEF x
      <4> QED BY <1>3, <2>6, <3>0 DEF register_write_op, u
    <3>2. v.pc = w.pc /\ v.mstatus = [w.mstatus EXCEPT !.fs = (d # 0)] /\ v.prv = w.prv
      BY <1>3, <2>6 DEF Promised
    <3>4. n = v.mstatus
      BY <1>u, <3>2 DEF SrvHas
    <3> HIDE DEF n
    <3>5. /\ DOMAIN x = SrvFields /\ x.queue = s.queue
          /\ x.gs.dpc = s.gs.dpc /\ x.gs.mstatus = n /\ x.gs.dcsr = s.gs.dcsr
      BY <1>u DEF SrvShape, SrvFields, GsFields
    <3> HIDE DEF x
    <3>3. t.queue = Tail(s.queue) /\ t.gs.dpc = s.gs.dpc /\ t.gs.mstatus = n /\ t.gs.dcsr = s.gs.dcsr
      BY <3>1, <3>5 DEF Done, SrvFields
    <3> QED BY <3>2, <3>3, <3>4 DEF SrvHas
  <2>7. CASE o.reg = "priv"
    <3> DEFINE p == IF d = 0 THEN "U" ELSE "M"
               n == [u.gs.dcsr EXCEPT !.prv = p]
               x == [u EXCEPT !.gs.dcsr = n]
    <3>0. x = [u EXCEPT !.gs.dcsr.prv = p]
      BY <1>u DEF SrvShape, SrvFields, GsFields
    <3>1. t = Done(x)
      <4> HIDE DEF x
      <4> QED BY <1>3, <2>7, <3>0 DEF register_write_op, u
    <3>2. v.pc = w.pc /\ v.mstatus = w.mstatus /\ v.prv = p
      BY <1>3, <2>7 DEF Promised
    <3>4. n.prv = p /\ DOMAIN n = DcsrFields
      BY <1>u DEF DcsrFields
    <3> HIDE DEF n, p
    <3>3. t.queue = Tail(s.queue) /\ t.gs.dpc = s.gs.dpc /\ t.gs.mstatus = s.gs.mstatus /\ t.gs.dcsr = n
      BY <1>u, <3>1 DEF Done, SrvShape, SrvFields, GsFields
    <3> QED BY <3>2, <3>3, <3>4 DEF SrvHas
  <2>8. CASE o.reg \notin {"s0", "s1", "x", "bad", "f", "sptbr", "pc", "mstatus", "priv"}
    <3> DEFINE r == "E02"
    <3>1. t = Done(send_packet(u, "E02"))
      BY <1>3, <2>8 DEF register_write_op, u
    <3>2. t = Done(send_packet(u, r))
      BY <3>1
    <3> HIDE DEF r
    <3>3. Own(s, t)
      BY <1>u, <3>2, OwnKept
    <3>4. t.queue = Tail(s.queue)
      BY <1>u, <3>2, DoneSend DEF FinishSend
    <3> QED BY <1>1, <2>8, <3>3, <3>4
  <2> QED BY <2>2, <2>3, <2>4, <2>5, <2>6, <2>7, <2>8
<1> QED BY <1>2, <1>3

(* What a halt has read in the steps before, and the step it goes on to.    *)
GoesOn(s, t, o, k) ==
    \E p : /\ t.queue = <<p>> \o Tail(s.queue) /\ p.op = "halt" /\ p.status = o.status
           /\ p.step \in 1 .. 4 /\ p.step <= k
Halts(s, t, o) ==
    /\ t.gs.dpc = IF o.step = 2 THEN s.ram.d0 ELSE s.gs.dpc
    /\ t.gs.mstatus = IF o.step = 3 THEN s.ram.d0 ELSE s.gs.mstatus
    /\ t.gs.dcsr = IF o.step = 4 THEN s.ram.d0 ELSE s.gs.dcsr
    /\ o.step \in 0 .. 1 => GoesOn(s, t, o, 2)
    /\ o.step = 2 => GoesOn(s, t, o, 3)
    /\ o.step = 3 => GoesOn(s, t, o, 4)
    /\ o.step = 4 => t.queue = Tail(s.queue) /\ (t.intr <=> s.intr)

LEMMA HaltReadsBack ==
  ASSUME NEW s, SrvShape(s), NEW o, IsOp(o), o.op = "halt", o.step \in 0 .. 4,
         NEW t, t = halt_op(s, o), ~t.dead
  PROVE  Halts(s, t, o)
<1>1. o.step \in Nat /\ DOMAIN o = {"op", "step", "status"}
  BY DEF IsOp, OpFields
<1>2. ASSUME NEW x, IsOp(x), x.op = "halt", x.status = o.status, NEW u, SrvShape(u),
             u.queue = s.queue, NEW P, t = Again(Post(u, P), x),
             NEW k, x.step + 1 <= k, x.step \in 0 .. 3
      PROVE  GoesOn(s, t, o, k) /\ t.gs = u.gs
  <2> DEFINE p == Stepped(x)
  <2>1. Advance(u, p, P, t)
    BY <1>2, AgainPost
  <2>2. p.op = "halt" /\ p.step = x.step + 1 /\ p.status = o.status
    <3>1. p.op = "halt" /\ p.step = x.step + 1 /\ \A f \in DOMAIN x : f # "step" => p[f] = x[f]
      BY <1>2, SteppedOp
    <3>2. "status" \in DOMAIN x
      BY <1>2 DEF IsOp, OpFields
    <3> QED BY <1>2, <3>1, <3>2
  <2>3. p.step \in 1 .. 4 /\ p.step <= k
    BY <1>2, <2>2
  <2> HIDE DEF p
  <2>4. t.queue = <<p>> \o Tail(s.queue) /\ t.gs = u.gs
    BY <1>2, <2>1 DEF Advance, Same, SrvFields
  <2>5. \E y : /\ t.queue = <<y>> \o Tail(s.queue) /\ y.op = "halt" /\ y.status = o.status
               /\ y.step \in 1 .. 4 /\ y.step <= k
    BY <2>2, <2>3, <2>4, Zenon
  <2> QED BY <2>4, <2>5 DEF GoesOn
<1>3. CASE o.step = 0
  <2>1. CASE s.gs.xlen = 0
    <3>1. t = Again(Post(s, <<xlen_probe>>), o)
      BY <1>3, <2>1 DEF halt_op
    <3>2. GoesOn(s, t, o, 2) /\ t.gs = s.gs
      BY <1>2, <1>3, <3>1
    <3> QED BY <1>3, <3>2 DEF Halts
  <2>2. CASE s.gs.xlen # 0
    <3> DEFINE q == [o EXCEPT !.step = 1]
    <3>0. t = Again(Post(s, dpc_program), q)
      BY <1>3, <2>2 DEF halt_op
    <3>1. q.op = "halt" /\ DOMAIN q = DOMAIN o /\ q.step = 1 /\ q.step \in Nat /\ q.status = o.status
      BY <1>1
    <3> HIDE DEF q
    <3>2. IsOp(q)
      BY <3>1, NextOp
    <3>3. GoesOn(s, t, o, 2) /\ t.gs = s.gs
      BY <1>2, <3>0, <3>1, <3>2
    <3> QED BY <1>3, <3>3 DEF Halts
  <2> QED BY <2>1, <2>2
<1>4. CASE o.step = 1
  <2> DEFINE u == [s EXCEPT !.gs.xlen = s.ram.w0]
  <2>1. t = Again(Post(u, dpc_program), o)
    BY <1>4 DEF halt_op
  <2>2. /\ SrvShape(u) /\ u.queue = s.queue
        /\ u.gs.dpc = s.gs.dpc /\ u.gs.mstatus = s.gs.mstatus /\ u.gs.dcsr = s.gs.dcsr
    BY DEF SrvShape, SrvFields, GsFields
  <2> HIDE DEF u
  <2>3. GoesOn(s, t, o, 2) /\ t.gs = u.gs
    BY <1>2, <1>4, <2>1, <2>2
  <2> QED BY <1>4, <2>2, <2>3 DEF Halts
<1>5. CASE o.step = 2
  <2> DEFINE u == [s EXCEPT !.gs.dpc = s.ram.d0]
             P == <<csrr("s0", "mstatus"), dr_store("s0", "d0")>>
  <2>1. t = Again(Post(u, P), o)
    BY <1>5 DEF halt_op
  <2>2. /\ SrvShape(u) /\ u.queue = s.queue
        /\ u.gs.dpc = s.ram.d0 /\ u.gs.mstatus = s.gs.mstatus /\ u.gs.dcsr = s.gs.dcsr
    BY DEF SrvShape, SrvFields, GsFields
  <2> HIDE DEF u, P
  <2>3. GoesOn(s, t, o, 3) /\ t.gs = u.gs
    BY <1>2, <1>5, <2>1, <2>2
  <2> QED BY <1>5, <2>2, <2>3 DEF Halts
<1>6. CASE o.step = 3
  <2> DEFINE d == s.ram.d0
             u == [s EXCEPT !.gs.mstatus = d, !.gs.mstatus_dirty = FALSE]
             P == <<csrr("s0", "dcsr"), dr_store("s0", "d0")>>
  <2>1. t = Again(Post(u, P), o)
    BY <1>6 DEF halt_op
  <2> HIDE DEF d
  <2>2. /\ SrvShape(u) /\ u.queue = s.queue
        /\ u.gs.dpc = s.gs.dpc /\ u.gs.mstatus = d /\ u.gs.dcsr = s.gs.dcsr
    BY DEF SrvShape, SrvFields, GsFields
  <2> HIDE DEF u, P
  <2>3. GoesOn(s, t, o, 4) /\ t.gs = u.gs
    BY <1>2, <1>6, <2>1, <2>2
  <2> QED BY <1>6, <2>2, <2>3 DEF Halts, d
<1>7. CASE o.step = 4
  <2> DEFINE d == s.ram.d0  e == <<>>
             u == [s EXCEPT !.gs.dcsr = d, !.gs.sptbr_valid = FALSE, !.gs.pte_cache = e]
             r == StopReply(d.cause)
  <2>1. t \in {Done(u), die(u), Done(send_packet(u, r))}
    BY <1>7 DEF halt_op
  <2> HIDE DEF d, e, r
  <2>2. /\ SrvShape(u) /\ u.queue = s.queue /\ (u.intr <=> s.intr)
        /\ u.gs.dpc = s.gs.dpc /\ u.gs.mstatus = s.gs.mstatus /\ u.gs.dcsr = d
    BY DEF SrvShape, SrvFields, GsFields
  <2> HIDE DEF u
  <2>3. t # die(u)
    BY <2>2 DEF die, SrvShape, SrvFields
  <2>4. t.queue = Tail(s.queue) /\ t.gs = u.gs /\ (t.intr <=> s.intr)
    <3>1. CASE t = Done(u)
      BY <2>2, <3>1, DoneFields DEF Finish, Same, SrvFields
    <3>2. CASE t = Done(send_packet(u, r))
      BY <2>2, <3>2, DoneSend DEF FinishSend, Same, SrvFields
    <3> QED BY <2>1, <2>3, <3>1, <3>2
  <2> QED BY <1>7, <2>2, <2>4 DEF Halts, d
<1> QED BY <1>3, <1>4, <1>5, <1>6, <1>7

LEMMA ToldSame ==
  ASSUME NEW q, IsSeq(q), q # <<>>, q[1].op = "halt", NEW p, p.status = q[1].status
  PROVE  /\ HaltTold(<<p>> \o Tail(q)) => HaltTold(q)
         /\ HaltTold(Tail(q)) => HaltTold(q)
         /\ q[1].status => HaltTold(q)
<1> DEFINE r == <<p>> \o Tail(q)  T == Tail(q)
<1>1. /\ r[1] = p /\ Len(r) = Len(q) /\ Len(q) \in Nat \ {0}
      /\ \A i \in 2 .. Len(q) : r[i] = q[i]
  BY IsSeqHead
<1>2. Len(T) = Len(q) - 1 /\ \A i \in 1 .. Len(q) - 1 : T[i] = q[i + 1]
  BY IsSeqTail
<1> HIDE DEF r, T
<1>3. HaltTold(r) => HaltTold(q)
  <2> SUFFICES ASSUME NEW i \in 1 .. Len(r), r[i].op = "halt", r[i].status
               PROVE  HaltTold(q)
    BY DEF HaltTold
  <2>1. CASE i = 1
    <3>1. q[1].status /\ 1 \in 1 .. Len(q)
      BY <1>1, <2>1
    <3> QED BY <3>1 DEF HaltTold
  <2>2. CASE i # 1
    <3>1. i \in 2 .. Len(q) /\ i \in 1 .. Len(q)
      BY <1>1, <2>2
    <3> QED BY <1>1, <3>1 DEF HaltTold
  <2> QED BY <2>1, <2>2
<1>4. HaltTold(T) => HaltTold(q)
  <2> SUFFICES ASSUME NEW i \in 1 .. Len(T), T[i].op = "halt", T[i].status
               PROVE  HaltTold(q)
    BY DEF HaltTold
  <2> DEFINE k == i + 1
  <2>1. k \in 1 .. Len(q) /\ T[i] = q[k]
    BY <1>1, <1>2
  <2> HIDE DEF k
  <2> QED BY <2>1 DEF HaltTold
<1>5. q[1].status => HaltTold(q)
  <2>1. 1 \in 1 .. Len(q)
    BY <1>1
  <2> QED BY <2>1 DEF HaltTold
<1> QED BY <1>3, <1>4, <1>5 DEF r, T

(* A halt: what it has read is what the hart has, and what is promised; a    *)
(* halt that is to be reported finds in the hart what was promised before.  *)
LEMMA HaltControl ==
  ASSUME NEW s, NEW h, NEW g, NEW w, Ready(s, h, g, w), Control(s, h, g, w),
         NEW o, o = s.queue[1], o.op = "halt",
         NEW t, NEW v, Performed(s, t, h, g, w, v), Promised(s, w, v, o),
         o.step \in 0 .. 4, Halts(s, t, o)
  PROVE  Control(t, h, g, v)
<1>0. /\ Core(s, h, g, w) /\ ~s.intr /\ s.queue # <<>> /\ Chain(s.queue) /\ s.client
      /\ IsSeq(s.queue)
  BY DEF Ready, Core, Chain
<1>a. Kin(s, t)
  BY DEF Performed
<1>1. FetchedBy(s, h, w, o)
  BY HeadOp
<1>2. /\ o.step > 1 => Halted(h)
      /\ o.step = 2 => s.ram.d0 = h.dpc
      /\ o.step = 3 => s.ram.d0 = h.mstatus
      /\ o.step = 4 => s.ram.d0.prv = h.dprv /\ DOMAIN s.ram.d0 = DcsrFields
  <2>1. o.step = 4 => s.ram.d0 = get_csr(h, "dcsr")
    BY <1>0, <1>1 DEF FetchedBy
  <2>2. o.step = 4 => s.ram.d0.prv = h.dprv /\ DOMAIN s.ram.d0 = DcsrFields
    BY <2>1 DEF get_csr, DcsrFields
  <2> QED BY <1>0, <1>1, <2>2 DEF FetchedBy
<1>3. /\ HaltTold(t.queue) => HaltTold(s.queue)
      /\ o.status => HaltTold(s.queue)
      /\ t.queue # <<>> => t.queue[1].op = "halt"
      /\ t.queue # <<>> /\ o.step = 4 => t.queue[1].step = 0
      /\ o.step # 4 => t.queue # <<>> /\ t.queue[1].step \in 1 .. 4
                       /\ t.queue[1].step <= (IF o.step < 2 THEN 2 ELSE o.step + 1)
  <2> DEFINE q == s.queue  r == t.queue  k == IF o.step < 2 THEN 2 ELSE o.step + 1
  <2>0. IsSeq(q) /\ q # <<>> /\ q[1] = o
    BY <1>0
  <2>1. CASE o.step = 4
    <3>1. r = Tail(q)
      BY <2>1 DEF Halts
    <3>2. r # <<>> => r[1].step = 0 /\ Follow(q[1], r[1])
      BY <1>0, <3>1, ChainTail
    <3>3. r # <<>> => r[1].op = "halt"
      BY <3>2, FollowHalt DEF Preparing
    <3> HIDE DEF q, r
    <3>4. (HaltTold(r) => HaltTold(q)) /\ (o.status => HaltTold(q))
      BY <2>0, <3>1, ToldSame
    <3> QED BY <2>1, <3>2, <3>3, <3>4 DEF q, r
  <2>2. CASE o.step # 4
    <3>1. k \in {2, 3, 4}
      BY <2>2
    <3>2. GoesOn(s, t, o, k)
      BY <2>2 DEF Halts
    <3>3. PICK p : /\ r = <<p>> \o Tail(q) /\ p.op = "halt" /\ p.status = o.status
                   /\ p.step \in 1 .. 4 /\ p.step <= k
      BY <3>2 DEF GoesOn
    <3> HIDE DEF q, r, k
    <3>4. r # <<>> /\ r[1] = p
      BY <2>0, <3>3, IsSeqHead
    <3>5. (HaltTold(r) => HaltTold(q)) /\ (o.status => HaltTold(q))
      BY <2>0, <3>3, ToldSame
    <3> QED BY <2>2, <3>3, <3>4, <3>5 DEF q, r, k
  <2> QED BY <2>1, <2>2
<1>4. Running(s, h, g) => (h.mode # "run" => HartHas(h, w))
  BY <1>0 DEF Control, RunPhase, release, Resuming, ResumeOps
<1>5. o.status => (h.mode # "run" => HartHas(h, w))
  BY <1>3, <1>4 DEF Running
<1>6. Halted(h) => h.mode # "run"
  BY DEF Halted
<1>7. /\ o.step # 2 => v.pc = w.pc
      /\ o.step # 3 => v.mstatus = w.mstatus
      /\ o.step # 4 => v.prv = w.prv
      /\ o.step = 2 => v.pc = s.ram.d0
      /\ o.step = 3 => v.mstatus = s.ram.d0
      /\ o.step = 4 => v.prv = s.ram.d0.prv
  <2>1. CASE o.status
    <3>1. o.step > 1 => h.dpc = w.pc /\ h.mstatus = w.mstatus /\ h.dprv = w.prv
      BY <1>2, <1>5, <1>6, <2>1 DEF HartHas
    <3> QED BY <1>2, <2>1, <3>1 DEF Promised
  <2>2. CASE ~o.status
    BY <2>2 DEF Promised
  <2> QED BY <2>1, <2>2
<1>8. HartHas(h, w) => HartHas(h, v)
  BY <1>2, <1>7 DEF HartHas
<1>9. SrvHas(s, w) => SrvHas(t, v)
  BY <1>7 DEF SrvHas, Halts
<1>10. o.step = 4 => SrvHas(t, v)
  BY <1>0, <1>7 DEF SrvHas, Halts, Control, HeadControl
<1>11. ~Requested(t.queue) /\ ~Left(t) /\ (t.queue = <<>> => o.step = 4)
  <2>1. t.queue = <<>> => o.step = 4
    BY <1>3
  <2>2. ~Left(t)
    <3>1. CASE o.step = 4
      BY <1>0, <3>1 DEF Left, Halts
    <3>2. CASE o.step # 4
      BY <1>3, <3>2 DEF Left
    <3> QED BY <3>1, <3>2
  <2> QED BY <1>3, <2>1, <2>2 DEF Requested
<1>12. ServerTrue(t, g, v)
  BY <1>10, <1>11 DEF ServerTrue
<1>13. Somewhere(t, h, v)
  BY <1>8, <1>9 DEF Somewhere, Control
<1>14. Releasing(t, h, v)
  BY <1>a DEF Releasing, release, Kin
<1>15. ASSUME Running(t, h, g) PROVE RunPhase(t, h, v)
  <2>1. Running(s, h, g)
    BY <1>3, <1>15, <1>a DEF Running, Kin, Consumed, Packet
  <2> QED BY <1>3, <1>4, <1>8, <2>1 DEF RunPhase
<1>16. ASSUME t.queue # <<>> PROVE HeadControl(t, h, v, t.queue[1])
  <2> DEFINE p == t.queue[1]
  <2>1. p.op = "halt" /\ (p.step > 2 => o.step \in 2 .. 3) /\ (p.step > 3 => o.step = 3)
    BY <1>3, <1>16
  <2> HIDE DEF p
  <2>2. p.step > 2 => t.gs.dpc = v.pc
    <3>1. o.step = 2 => t.gs.dpc = v.pc
      BY <1>7 DEF Halts
    <3>2. o.step = 3 => t.gs.dpc = v.pc
      BY <1>0, <1>7 DEF Halts, Control, HeadControl
    <3> QED BY <2>1, <3>1, <3>2
  <2>3. p.step > 3 => t.gs.mstatus = v.mstatus
    BY <1>7, <2>1 DEF Halts
  <2> QED BY <2>1, <2>2, <2>3 DEF HeadControl, p
<1>17. DOMAIN t.gs.dcsr = DcsrFields
  BY <1>2 DEF Halts, Control
<1>18. t.client /\ Stepping(h)
  BY DEF Performed, Truthful, Control
<1> QED BY <1>12, <1>13, <1>14, <1>15, <1>16, <1>17, <1>18 DEF Control

(* One step of the operation at the head.                                   *)
LEMMA OpStepControl ==
  ASSUME Invariant, Control0, srv.client, NEW t, t = OpStep(srv),
         NEW v, v = PromiseServer(srv)
  PROVE  Control(t, hart, gdb, v)
<1> DEFINE s == srv  h == hart  g == gdb  w == want
<1>1. CASE s.intr \/ s.queue = <<>>
  <2>1. t = s /\ v = w
    BY <1>1 DEF OpStep, PromiseServer
  <2> QED BY <2>1 DEF Control0
<1>2. CASE ~(s.intr \/ s.queue = <<>>)
  <2> DEFINE o == s.queue[1]
  <2>1. t = perform_step(s)
    BY <1>2 DEF OpStep
  <2>2. Core(s, h, g, w) /\ Control(s, h, g, w) /\ WantShape(w) /\ SrvShape(s)
    BY DEF Invariant, Inv, Core, Control0
  <2>3. Ready(s, h, g, w)
    BY <1>2, <2>2 DEF Ready
  <2>4. /\ IsOp(o) /\ Head(s.queue) = o /\ o = s.queue[1]
        /\ o.step > 0 => PostedBy(s, o)
    BY <2>3, HeadOp
  <2>5. Promised(s, w, v, o)
    BY <1>2, <2>2, <2>4, PromiseServerControl
  <2>6. SameRegs(w, v)
    BY <2>2, PromiseServerRegs
  <2>7. Performed(s, t, h, g, w, v)
    BY <2>1, <2>3, <2>6, PerformStep
  <2>8. o.step \in Nat /\ o.op \in OpNames
    BY <2>4 DEF IsOp
  <2>9. ~t.dead
    BY <2>7 DEF Performed, Truthful, Core, Modes
  <2>10. s.queue # <<>> /\ Chain(s.queue) /\ DOMAIN s.gs.dcsr = DcsrFields
         /\ HeadControl(s, h, w, o)
    BY <1>2, <2>2 DEF Core, Control
  <2> SUFFICES Control(t, h, g, v)
    OBVIOUS
  <2> HIDE DEF s, h, g, w, o
  <2>11. CASE o.op = "halt"
    <3>1. t = halt_op(s, o)
      BY <2>1, <2>4, <2>11 DEF perform_step
    <3>2. o.step \in 0 .. 4
      BY <2>4, <2>8, <2>11 DEF PostedBy
    <3>3. Halts(s, t, o)
      BY <2>2, <2>4, <2>9, <2>11, <3>1, <3>2, HaltReadsBack
    <3> QED BY <2>2, <2>3, <2>4, <2>5, <2>7, <2>11, <3>2, <3>3, HaltControl
  <2>12. CASE o.op # "halt"
    <3>0. SrvHas(s, w)
      BY <2>2, <2>4, <2>10, <2>12 DEF Control, ServerTrue, Requested
    <3>1. /\ SrvHas(t, v) /\ DOMAIN t.gs.dcsr = DcsrFields
          /\ o.op = "continue" => SameControl(w, v) /\ Releases(s, t, o)
          /\ o.op = "rwrite" => \/ t.queue = Tail(s.queue)
                                \/ t.queue = <<Stepped(o)>> \o Tail(s.queue) /\ o.step = 0
      <4>1. CASE o.op = "rwrite"
        <5>1. t = register_write_op(s, o)
          BY <2>1, <2>4, <4>1 DEF perform_step
        <5>2. o.step \in {0, 1}
          BY <2>10, <4>1 DEF HeadControl
        <5> QED BY <2>2, <2>5, <2>10, <3>0, <4>1, <5>1, <5>2, RwriteHas
      <4>2. CASE o.op # "rwrite"
        <5>1. o = Head(s.queue) /\ o.op \in OpNames \ {"halt", "rwrite"}
          BY <2>4, <2>8, <2>12, <4>2
        <5>2. Own(s, t)
          BY <2>1, <2>2, <5>1, OwnStep
        <5>3. SameControl(w, v)
          BY <2>5, <2>12, <4>2 DEF Promised
        <5>4. o.op = "continue" => Releases(s, t, o)
          <6> SUFFICES ASSUME o.op = "continue" PROVE Releases(s, t, o)
            OBVIOUS
          <6>1. t = continue_op(s, o)
            BY <2>1, <2>4 DEF perform_step
          <6>2. o.step \in 0 .. 2
            BY <2>4, <2>8 DEF PostedBy
          <6> QED BY <2>2, <2>10, <6>1, <6>2, ContinueReleases
        <5> QED BY <2>10, <3>0, <4>2, <5>2, <5>3, <5>4 DEF Own, SrvHas, SameControl
      <4> QED BY <4>1, <4>2
    <3> QED BY <2>2, <2>3, <2>4, <2>7, <2>12, <3>1, RequestedControl
  <2> QED BY <2>11, <2>12
<1> QED BY <1>1, <1>2

(* A halt is queued behind what there is.                                   *)
LEMMA HaltQueuedControl ==
  ASSUME NEW s, NEW h, NEW g, NEW w, Core(s, h, g, w), Control(s, h, g, w),
         NEW t, Same(s, t, {"queue", "haltnot", "client"}), NEW b,
         t.queue = Append(s.queue, HaltOp(b)), t.client, t.haltnot => s.haltnot,
         b => s.haltnot
  PROVE  Control(t, h, g, w)
<1> DEFINE o == HaltOp(b)  q == t.queue  p == s.queue
<1>0. /\ t.recv = s.recv /\ t.gs = s.gs /\ t.ram = s.ram /\ t.intr = s.intr
  BY DEF Same, SrvFields
<1>a. /\ IsOp(o) /\ o.op = "halt" /\ o.step = 0 /\ (o.status <=> b) /\ Chain(p)
      /\ q = Append(p, o) /\ IsSeq(p)
  BY RequestOps DEF Core, HaltOp, Chain
<1> HIDE DEF o, q, p
<1>1. /\ q # <<>>
      /\ p # <<>> => q[1] = p[1]
      /\ p = <<>> => q[1] = o
  <2>1. NewLast(p, o, q)
    BY <1>a DEF NewLast
  <2> QED BY <1>a, <2>1, ChainHalt
<1>2. HaltTold(q) => HaltTold(p) \/ s.haltnot
  <2>1. /\ Len(p) \in Nat /\ Len(q) = Len(p) + 1
        /\ \A i \in 1 .. Len(p) : q[i] = p[i]
        /\ q[Len(p) + 1] = o
    BY <1>a, IsSeqAppend
  <2> SUFFICES ASSUME NEW i \in 1 .. Len(q), q[i].op = "halt", q[i].status, ~s.haltnot
               PROVE  HaltTold(p)
    BY DEF HaltTold
  <2>2. i # Len(p) + 1
    BY <1>a, <2>1
  <2>3. i \in 1 .. Len(p)
    BY <2>1, <2>2
  <2> QED BY <2>1, <2>3 DEF HaltTold
<1>3. (release(t) <=> release(s)) /\ (Packet(t) <=> Packet(s)) /\ (SrvHas(t, w) <=> SrvHas(s, w))
  BY <1>0 DEF release, Packet, SrvHas
<1>4. ServerTrue(t, g, w)
  <2>1. Requested(q) => Requested(p)
    BY <1>a, <1>1 DEF Requested
  <2>2. Left(t) => Left(s)
    BY <1>0, <1>1 DEF Left, p, q
  <2> QED BY <1>1, <1>3, <2>1, <2>2 DEF Control, ServerTrue, p, q
<1>5. Somewhere(t, h, w)
  BY <1>3 DEF Somewhere, Control
<1>6. Releasing(t, h, w)
  BY <1>0, <1>3 DEF Releasing, Control
<1>7. ASSUME Running(t, h, g) PROVE RunPhase(t, h, w)
  <2>1. Consumed(t, g) => s.client /\ Consumed(s, g)
    BY <1>3 DEF Consumed, Control
  <2>2. Running(s, h, g)
    BY <1>0, <1>2, <1>3, <1>7, <2>1 DEF Running, p, q
  <2>3. RunPhase(s, h, w)
    BY <2>2 DEF Control
  <2>4. Resuming(p) => Resuming(q)
    BY <1>1 DEF Resuming
  <2>5. q[1].op \in ResumeOps \cup {"halt"}
    BY <1>a, <1>1, <2>3 DEF RunPhase, p
  <2> QED BY <1>3, <2>3, <2>4, <2>5 DEF RunPhase, p, q
<1>8. HeadControl(t, h, w, q[1])
  <2>1. CASE p = <<>>
    BY <1>a, <1>1, <2>1 DEF HeadControl
  <2>2. CASE p # <<>>
    BY <1>0, <1>1, <2>2 DEF HeadControl, Control, p
  <2> QED BY <2>1, <2>2
<1>9. DOMAIN t.gs.dcsr = DcsrFields /\ Stepping(h)
  BY <1>0 DEF Control
<1> QED BY <1>4, <1>5, <1>6, <1>7, <1>8, <1>9 DEF Control, q

LEMMA NotifyControl ==
  ASSUME NEW s, NEW h, NEW g, NEW w, Core(s, h, g, w), Control(s, h, g, w), s.client,
         NEW t, t = Notify(s)
  PROVE  Control(t, h, g, w)
<1>0. SrvShape(s)
  BY DEF Core
<1>1. CASE s.haltnot
  <2>1. t = add_operation([s EXCEPT !.haltnot = FALSE], HaltOp(TRUE))
    BY <1>1 DEF Notify
  <2> DEFINE o == HaltOp(TRUE)
  <2> HIDE DEF o
  <2>2. /\ Same(s, t, {"queue", "haltnot", "client"})
        /\ t.queue = Append(s.queue, o) /\ t.client = s.client
    BY <1>0, <2>1 DEF add_operation, SrvShape, Same, SrvFields, o
  <2>3. t.queue = Append(s.queue, HaltOp(TRUE)) /\ t.client
    BY <2>2 DEF o
  <2> QED BY <1>1, <2>2, <2>3, HaltQueuedControl
<1>2. CASE ~s.haltnot
  BY <1>2 DEF Notify
<1> QED BY <1>1, <1>2

LEMMA AcceptControl ==
  ASSUME NEW s, NEW h, NEW w, Core(s, h, gdb, w), Control(s, h, gdb, w), ~s.client,
         NEW t, t = accept(s)
  PROVE  Control(t, h, gdb, w)
<1>0. SrvShape(s)
  BY DEF Core
<1>1. CASE gdb.link
  <2>1. t = add_operation([s EXCEPT !.client = TRUE], HaltOp(FALSE))
    BY <1>1 DEF accept
  <2> DEFINE o == HaltOp(FALSE)
  <2> HIDE DEF o
  <2>2. /\ Same(s, t, {"queue", "haltnot", "client"})
        /\ t.queue = Append(s.queue, o) /\ t.client /\ t.haltnot = s.haltnot
    BY <1>0, <2>1 DEF add_operation, SrvShape, Same, SrvFields, o
  <2>3. t.queue = Append(s.queue, HaltOp(FALSE))
    BY <2>2 DEF o
  <2> QED BY <2>2, <2>3, HaltQueuedControl
<1>2. CASE ~gdb.link
  BY <1>2 DEF accept
<1> QED BY <1>1, <1>2

(* A client is lost.                                                        *)
LEMMA DropControl ==
  ASSUME NEW s, NEW h, NEW g, NEW w, Core(s, h, g, w), Control(s, h, g, w), ~g.link,
         NEW t, Same(s, t, {"client", "recv", "send"}), ~t.client, t.recv = <<>>
  PROVE  Control(t, h, g, w)
<1>0. /\ t.queue = s.queue /\ t.gs = s.gs /\ t.ram = s.ram
      /\ t.intr = s.intr /\ (t.haltnot <=> s.haltnot)
  BY DEF Same, SrvFields
<1>1. (release(t) <=> release(s)) /\ (SrvHas(t, w) <=> SrvHas(s, w)) /\ (Left(t) <=> Left(s))
  BY <1>0 DEF release, SrvHas, Left
<1>2. g.pending = "none"
  BY DEF Core, Wire
<1>3. ServerTrue(t, g, w)
  BY <1>0, <1>1 DEF ServerTrue, Control
<1>4. Somewhere(t, h, w) /\ Releasing(t, h, w)
  BY <1>0, <1>1 DEF Somewhere, Releasing, Control
<1>5. Running(t, h, g) => Running(s, h, g)
  BY <1>0 DEF Running
<1>6. RunPhase(s, h, w) => RunPhase(t, h, w)
  BY <1>0, <1>1 DEF RunPhase
<1>7. s.queue # <<>> => HeadControl(t, h, w, s.queue[1])
  BY <1>0 DEF HeadControl, Control
<1> QED BY <1>0, <1>2, <1>3, <1>4, <1>5, <1>6, <1>7 DEF Control

LEMMA FlushControl ==
  ASSUME NEW s, NEW h, NEW g, NEW w, Core(s, h, g, w), Control(s, h, g, w),
         NEW t, NEW k, Flushed(s, t, g, k)
  PROVE  Control(t, h, k, w)
<1> USE DEF Flushed
<1>0. /\ t.queue = s.queue /\ t.gs = s.gs /\ t.ram = s.ram /\ t.recv = s.recv
      /\ t.intr = s.intr /\ (t.haltnot <=> s.haltnot) /\ (t.client <=> s.client)
  BY DEF Same, SrvFields
<1>k. (k.link <=> g.link) /\ k.pending = g.pending /\ (k.acked <=> g.acked)
  BY DEF GdbFields
<1>1. (release(t) <=> release(s)) /\ (SrvHas(t, w) <=> SrvHas(s, w)) /\ (Left(t) <=> Left(s))
      /\ (Packet(t) <=> Packet(s))
  BY <1>0 DEF release, SrvHas, Left, Packet
<1>2. Flight(t, k) = Flight(s, g)
  <2> DEFINE a == g.replies  b == s.send  c == a \o b
  <2>1. IsSeq(a) /\ IsSeq(b)
    BY DEF Core, Wire
  <2> HIDE DEF a, b
  <2>2. IsSeq(c)
    BY <2>1, IsSeqConcat DEF Joined
  <2>3. c \o <<>> = c
    BY <2>2, NothingAfter
  <2> QED BY <2>3 DEF Flight, a, b
<1>3. (Stopped(t, k) <=> Stopped(s, g)) /\ (Consumed(t, k) <=> Consumed(s, g))
  BY <1>1, <1>2, <1>k DEF Stopped, Consumed
<1>4. ServerTrue(t, k, w)
  BY <1>0, <1>1, <1>3, <1>k DEF ServerTrue, Control
<1>5. Somewhere(t, h, w) /\ Releasing(t, h, w)
  BY <1>0, <1>1 DEF Somewhere, Releasing, Control
<1>6. Running(t, h, k) => Running(s, h, g)
  BY <1>0, <1>1, <1>3, <1>k DEF Running
<1>7. RunPhase(s, h, w) => RunPhase(t, h, w)
  BY <1>0, <1>1 DEF RunPhase
<1>8. s.queue # <<>> => HeadControl(t, h, w, s.queue[1])
  BY <1>0 DEF HeadControl, Control
<1> QED BY <1>0, <1>k, <1>4, <1>5, <1>6, <1>7, <1>8 DEF Control

-----------------------------------------------------------------------------
(* The requests: the server has what the hart must get, or has been told by *)
(* the request to resume.                                                   *)
LEMMA RequestControl ==
  ASSUME NEW s, NEW h, NEW g, NEW w, Idling(s, h, g, w), Control(s, h, g, w), Packet(s),
         NEW t, Requesting(s, t, g),
         NEW v, v.mstatus = w.mstatus, v.prv = w.prv, v.pc = Target(s, w.pc)
  PROVE  Control(t, h, g, v)
<1>0. /\ t.ram = s.ram /\ (t.intr <=> s.intr) /\ (t.haltnot <=> s.haltnot)
      /\ (t.client <=> s.client)
  BY DEF Requesting, Same, SrvFields
<1>1. s.recv # <<>> /\ s.client /\ g.link /\ ~Consumed(s, g)
  BY DEF Packet, Consumed, Idling, Core, Wire
<1>2. Halted(h) /\ ~release(s) /\ ~s.haltnot
  <2>1. Settled(s, h)
    BY <1>1 DEF Idling, Core, Attended
  <2> QED BY <1>1, <2>1 DEF Settled, HaltComing, Idling
<1>3. SrvHas(s, w)
  BY <1>1 DEF Control, ServerTrue, Idling
<1>4. SrvHas(t, v)
  BY <1>3 DEF SrvHas, Requesting, SameGs, Target
<1>5. ~release(t)
  BY <1>0, <1>2 DEF release
<1>6. ServerTrue(t, g, v) /\ Somewhere(t, h, v) /\ Releasing(t, h, v)
  BY <1>2, <1>4, <1>5 DEF ServerTrue, Somewhere, Releasing
<1>7. ~HaltTold(t.queue)
  BY DEF HaltTold, Requesting
<1>8. ASSUME Running(t, h, g) PROVE RunPhase(t, h, v)
  <2>1. g.pending \in {"c", "s"}
    BY <1>0, <1>2, <1>7, <1>8 DEF Running, Consumed, Halted, Requesting
  <2>2. Resuming(t.queue)
    BY <2>1 DEF Requesting
  <2> QED BY <2>2 DEF RunPhase, Resuming
<1>9. t.queue # <<>> => HeadControl(t, h, v, t.queue[1])
  <2> SUFFICES ASSUME t.queue # <<>> PROVE HeadControl(t, h, v, t.queue[1])
    OBVIOUS
  <2>1. t.queue[1].step = 0
    BY DEF Requesting
  <2> QED BY <2>1 DEF HeadControl
<1>10. DOMAIN t.gs.dcsr = DcsrFields /\ Stepping(h)
  BY DEF Requesting, SameGs, Control
<1> QED BY <1>0, <1>1, <1>6, <1>8, <1>9, <1>10 DEF Control

LEMMA NoPacketControl ==
  ASSUME NEW s, NEW h, NEW g, NEW w, Idling(s, h, g, w), Control(s, h, g, w), ~Packet(s),
         NEW t, Unasked(s, t)
  PROVE  Control(t, h, g, w)
<1>0. /\ t.gs = s.gs /\ t.ram = s.ram /\ t.intr = s.intr /\ t.send = s.send
      /\ (t.haltnot <=> s.haltnot) /\ (t.client <=> s.client)
  BY DEF Unasked, Same, SrvFields
<1> DEFINE o == HaltOp(TRUE)
<1>o. o.op = "halt" /\ o.step = 0
  BY DEF HaltOp
<1> HIDE DEF o
<1>1. /\ s.queue = <<>> /\ t.recv = <<>> /\ ~Packet(t)
      /\ t.queue # <<>> => t.queue[1] = o /\ s.recv # <<>>
  <2>1. t.queue # <<>> => t.queue = <<o>> /\ s.recv # <<>>
    BY DEF Unasked, o
  <2>2. t.queue # <<>> => t.queue[1] = o
    BY <2>1
  <2> QED BY <2>1, <2>2 DEF Unasked, Idling, Packet
<1>2. (Stopped(t, g) <=> Stopped(s, g)) /\ (Consumed(t, g) <=> Consumed(s, g))
  BY <1>0, <1>1 DEF Stopped, Consumed, Flight
<1>3. /\ (release(t) <=> release(s)) /\ (SrvHas(t, w) <=> SrvHas(s, w))
      /\ Left(t) => Left(s)
  BY <1>0, <1>1 DEF release, SrvHas, Left
<1>4. ServerTrue(t, g, w)
  <2>1. ~Requested(t.queue)
    BY <1>o, <1>1 DEF Requested
  <2> QED BY <1>0, <1>1, <1>2, <1>3, <2>1 DEF Control, ServerTrue
<1>5. Somewhere(t, h, w) /\ Releasing(t, h, w)
  BY <1>0, <1>3 DEF Somewhere, Releasing, Control
<1>6. ASSUME Running(t, h, g) PROVE RunPhase(t, h, w)
  <2>1. HaltTold(t.queue) => t.queue # <<>>
    <3>1. t.queue = <<>> => Len(t.queue) = 0
      BY TupleSeq
    <3> QED BY <3>1 DEF HaltTold
  <2>2. Running(s, h, g)
    BY <1>0, <1>1, <1>2, <1>6, <2>1 DEF Running
  <2>3. RunPhase(s, h, w) /\ ~Resuming(s.queue)
    BY <1>1, <2>2 DEF Control, Resuming
  <2> QED BY <1>o, <1>1, <1>3, <2>3 DEF RunPhase
<1>7. t.queue # <<>> => HeadControl(t, h, w, t.queue[1])
  BY <1>o, <1>1 DEF HeadControl
<1> QED BY <1>0, <1>4, <1>5, <1>6, <1>7 DEF Control

(* What the packet to be looked at promises besides.                        *)
Asked(s, w, v) ==
    LET n == Interrupts(s) + 1
    IN  v = IF n <= Len(s.recv) /\ s.recv[n].k = "c" /\ s.recv[n].addr # NoBp
            THEN [w EXCEPT !.pc = s.recv[n].addr] ELSE w

LEMMA AskedValue ==
  ASSUME NEW s, IsSeq(s.recv), Len(s.recv) <= 1, NEW w, WantShape(w), NEW v, Asked(s, w, v)
  PROVE  /\ Packet(s) => v.mstatus = w.mstatus /\ v.prv = w.prv /\ v.pc = Target(s, w.pc)
         /\ ~Packet(s) => v = w
<1> DEFINE n == Interrupts(s)
<1>1. /\ s.recv = <<>> => n = 0 /\ Len(s.recv) = 0
      /\ s.recv # <<>> => Len(s.recv) = 1
      /\ s.recv # <<>> /\ ~Packet(s) => n = 1
      /\ Packet(s) => n = 0
  BY InterruptsValue
<1> DEFINE m == n + 1  r == s.recv[m]
<1>2. v = IF m <= Len(s.recv) /\ r.k = "c" /\ r.addr # NoBp THEN [w EXCEPT !.pc = r.addr] ELSE w
  BY DEF Asked
<1> HIDE DEF n
<1>3. CASE Packet(s)
  <2>1. m = 1 /\ Len(s.recv) = 1
    BY <1>1, <1>3 DEF Packet
  <2>2. r = s.recv[1] /\ m <= Len(s.recv)
    BY <2>1
  <2> HIDE DEF r, m
  <2> QED BY <1>2, <1>3, <2>2 DEF Target, WantShape, WantFields
<1>4. CASE ~Packet(s)
  <2>1. ~(m <= Len(s.recv))
    BY <1>1, <1>4
  <2> HIDE DEF r, m
  <2> QED BY <1>2, <1>4, <2>1
<1> QED BY <1>3, <1>4

LEMMA ProcessControl ==
  ASSUME NEW s, NEW h, NEW g, NEW w, Idling(s, h, g, w), Control(s, h, g, w),
         NEW t, t = process_requests(s), NEW v, Asked(s, w, v)
  PROVE  Control(t, h, g, v)
<1>1. IF Packet(s) THEN Requesting(s, t, g) ELSE Unasked(s, t)
  BY ProcessValue
<1>2. /\ Packet(s) => v.mstatus = w.mstatus /\ v.prv = w.prv /\ v.pc = Target(s, w.pc)
      /\ ~Packet(s) => v = w
  BY AskedValue DEF Idling, Core, Wire
<1> QED BY <1>1, <1>2, RequestControl, NoPacketControl

-----------------------------------------------------------------------------
(* The debugger moves neither the hart nor what the server knows of it.      *)
LEMMA DebuggerControl ==
  ASSUME Invariant, Control0, SrvShape(srv'), Same(srv, srv', {"recv"}),
         hart' = hart, want' = want,
         ~srv.client => gdb'.pending = "none",
         srv.client /\ gdb'.link => gdb.link /\ Hears(srv, gdb, srv', gdb'),
         srv'.recv # <<>> /\ ~Packet(srv') => Running(srv, hart, gdb)
  PROVE  Control(srv', hart', gdb', want')
<1> DEFINE t == srv'  k == gdb'
<1> SUFFICES Control(t, hart, k, want)
  OBVIOUS
<1>0. /\ t.queue = srv.queue /\ t.gs = srv.gs /\ t.ram = srv.ram
      /\ t.intr = srv.intr /\ (t.haltnot <=> srv.haltnot) /\ (t.client <=> srv.client)
  BY DEF Same, SrvFields
<1>1. /\ t.client => k.pending = "none" \/ srv.client
      /\ ~t.client => k.pending = "none"
      /\ srv.client /\ k.link => gdb.link /\ Hears(srv, gdb, t, k)
      /\ t.recv # <<>> /\ ~Packet(t) => Running(srv, hart, gdb)
  BY <1>0
<1> HIDE DEF t, k
<1>2. /\ (release(t) <=> release(srv)) /\ (SrvHas(t, want) <=> SrvHas(srv, want))
      /\ (Left(t) <=> Left(srv))
  BY <1>0 DEF release, SrvHas, Left
<1>3. ServerTrue(t, k, want)
  BY <1>0, <1>1, <1>2 DEF ServerTrue, Control0, Control, Hears
<1>4. Somewhere(t, hart, want) /\ Releasing(t, hart, want)
  BY <1>0, <1>2 DEF Somewhere, Releasing, Control0, Control
<1>5. Running(t, hart, k) => Running(srv, hart, gdb)
  BY <1>0, <1>1 DEF Running, Hears
<1>6. RunPhase(srv, hart, want) => RunPhase(t, hart, want)
  BY <1>0, <1>2 DEF RunPhase
<1>7. srv.queue # <<>> => HeadControl(t, hart, want, srv.queue[1])
  BY <1>0 DEF HeadControl, Control0, Control
<1> QED BY <1>0, <1>1, <1>3, <1>4, <1>5, <1>6, <1>7 DEF Control0, Control

LEMMA DebuggerStepControl ==
  ASSUME Invariant, Control0, Debugger
  PROVE  Control(srv', hart', gdb', want')
<1>0. SrvShape(srv) /\ GdbShape(gdb)
  BY InvariantFacts
<1>1. hart' = hart /\ want' = want
  BY DEF Debugger, Connect, Disconnect, SendRequest, Interrupt, ReceiveReply
<1>2. srv.recv # <<>> /\ ~Packet(srv) => Running(srv, hart, gdb)
  BY DEF Running
<1>3. CASE Connect
  <2>1. /\ ~srv.client /\ srv' = srv
        /\ gdb' = [gdb EXCEPT !.link = TRUE, !.left = @ - 1, !.replies = <<>>]
    BY <1>3 DEF Connect
  <2>2. gdb.pending = "none" /\ gdb'.pending = gdb.pending
    BY <1>0, <2>1 DEF Control0, Control, GdbShape, GdbFields
  <2>3. Same(srv, srv', {"recv"})
    BY <2>1, SameSelf
  <2> QED BY <1>0, <1>1, <1>2, <2>1, <2>2, <2>3, DebuggerControl
<1>4. CASE Disconnect
  <2>1. /\ srv' = srv
        /\ gdb' = [gdb EXCEPT !.link = FALSE, !.pending = "none", !.stop = FALSE]
    BY <1>4 DEF Disconnect
  <2>2. gdb'.pending = "none" /\ ~gdb'.link
    BY <1>0, <2>1 DEF GdbShape, GdbFields
  <2>3. Same(srv, srv', {"recv"})
    BY <2>1, SameSelf
  <2> QED BY <1>0, <1>1, <1>2, <2>1, <2>2, <2>3, DebuggerControl
<1>5. CASE SendRequest
  <2>1. srv.client /\ gdb.link
    BY <1>5 DEF SendRequest
  <2>2. Hears(srv, gdb, srv', gdb') /\ Packet(srv')
    BY <1>5, SendRequestStep
  <2>3. SrvShape(srv') /\ Same(srv, srv', {"recv"})
    BY <2>2 DEF Hears
  <2> QED BY <1>1, <2>1, <2>2, <2>3, DebuggerControl
<1>6. CASE Interrupt
  <2>1. srv.client /\ gdb.link /\ gdb.pending \in {"c", "s"} /\ gdb.acked
    BY <1>6 DEF Interrupt, Resumed
  <2>2. Hears(srv, gdb, srv', gdb')
    BY <1>6, InterruptStep
  <2>3. SrvShape(srv') /\ Same(srv, srv', {"recv"})
    BY <2>2 DEF Hears
  <2>4. Consumed(srv, gdb)
    BY <2>1, WireFacts DEF Wire, Consumed
  <2>5. Running(srv, hart, gdb)
    BY <2>1, <2>4 DEF Running
  <2> QED BY <1>1, <2>1, <2>2, <2>3, <2>5, DebuggerControl
<1>7. CASE ReceiveReply
  <2>1. srv' = srv /\ gdb.link
    BY <1>7 DEF ReceiveReply
  <2>2. Hears(srv, gdb, srv', gdb')
    BY <1>7, ReceiveReplyStep
  <2>3. SrvShape(srv') /\ Same(srv, srv', {"recv"})
    BY <2>2 DEF Hears
  <2>4. ~srv.client => gdb'.pending = "none"
    <3> SUFFICES ASSUME ~srv.client PROVE gdb'.pending = "none"
      OBVIOUS
    <3> DEFINE k == Hear(gdb, Head(gdb.replies))
    <3>1. gdb.pending = "none"
      BY DEF Control0, Control
    <3>2. GdbShape(k) /\ k.pending = "none"
      BY <1>0, <3>1 DEF Hear, GdbShape, GdbFields
    <3>3. gdb' = [k EXCEPT !.replies = Tail(@)]
      BY <1>7 DEF ReceiveReply
    <3> HIDE DEF k
    <3> QED BY <3>2, <3>3 DEF GdbShape, GdbFields
  <2> QED BY <1>1, <1>2, <2>1, <2>2, <2>3, <2>4, DebuggerControl
<1> QED BY <1>3, <1>4, <1>5, <1>6, <1>7 DEF Debugger

-----------------------------------------------------------------------------
(* handle() as a whole.                                                    *)
LEMMA HandleControl ==
  ASSUME Invariant, Control0, Handle
  PROVE  Control(srv', hart', gdb', want')
<1> DEFINE a == OpStep(srv)  b == Notify(a)  c == ReadSocket(b)
           e == [c EXCEPT !.send = <<>>]  f == accept(srv)
           k == IF c.client THEN [gdb EXCEPT !.replies = @ \o c.send] ELSE gdb
           s == IF srv.client THEN e ELSE f
           t == IF s.queue = <<>> THEN process_requests(s) ELSE s
           v == PromiseServer(srv)
           z == want'
<1>1. /\ srv' = t /\ hart' = hart
      /\ gdb' = IF srv.client THEN k ELSE gdb
  BY DEF Handle
<1>2. /\ s.queue = <<>> => Asked(s, v, z)
      /\ s.queue # <<>> => z = v
  <2> DEFINE n == Interrupts(s) + 1
             x == n <= Len(s.recv) /\ s.recv[n].k = "c" /\ s.recv[n].addr # NoBp
             d == [v EXCEPT !.pc = s.recv[n].addr]
  <2>1. z = IF s.queue = <<>> /\ x THEN d ELSE v
    BY DEF Handle
  <2>2. Asked(s, v, z) <=> z = IF x THEN d ELSE v
    BY DEF Asked
  <2> HIDE DEF x, d, v, s, z
  <2> QED BY <2>1, <2>2
<1>c. Core(srv, hart, gdb, want) /\ Control(srv, hart, gdb, want)
  BY DEF Invariant, Inv, Control0
<1>3. srv.client => Served(e, hart, k, v) /\ Control(e, hart, k, v)
  <2> SUFFICES ASSUME srv.client PROVE Served(e, hart, k, v) /\ Control(e, hart, k, v)
    OBVIOUS
  <2>1. Served(e, hart, k, v) /\ Core(b, hart, gdb, v) /\ Socket(b, gdb, e, k)
    BY ServedClient
  <2>2. Control(a, hart, gdb, v)
    BY OpStepControl
  <2>3. Truthful(srv, a, hart, gdb, want, v)
    BY <1>c, OpStepCore, PromiseServerRegs DEF Invariant, Inv, Core
  <2>4. Core(a, hart, gdb, v) /\ a.client
    BY <2>3 DEF Truthful
  <2> HIDE DEF a, k, e, v, c
  <2>5. Control(b, hart, gdb, v)
    BY <2>2, <2>4, NotifyControl
  <2> HIDE DEF b
  <2>6. Control(e, hart, k, v)
    BY <2>1, <2>5, DropControl, FlushControl DEF Socket
  <2> QED BY <2>1, <2>6
<1>4. ~srv.client => Served(f, hart, gdb, v) /\ Control(f, hart, gdb, v)
  <2> SUFFICES ASSUME ~srv.client PROVE Served(f, hart, gdb, v) /\ Control(f, hart, gdb, v)
    OBVIOUS
  <2>1. Served(f, hart, gdb, v)
    BY ServedAccept
  <2>2. v = want
    BY DEF PromiseServer
  <2>3. Control(f, hart, gdb, want)
    BY <1>c, AcceptControl
  <2> HIDE DEF f, v
  <2> QED BY <2>1, <2>2, <2>3
<1> HIDE DEF a, b, c, e, f, k, v
<1>5. Served(s, hart, gdb', v) /\ Control(s, hart, gdb', v)
  BY <1>1, <1>3, <1>4
<1> DEFINE g == gdb'
<1> HIDE DEF s, g, z
<1>6. Control(t, hart, g, z)
  <2>0. Served(s, hart, g, v) /\ Control(s, hart, g, v)
    BY <1>5 DEF g
  <2>1. CASE s.queue = <<>>
    <3>1. Idling(s, hart, g, v)
      BY <2>0, <2>1 DEF Served, Idling
    <3> QED BY <1>2, <2>0, <2>1, <3>1, ProcessControl
  <2>2. CASE s.queue # <<>>
    BY <1>2, <2>0, <2>2
  <2> QED BY <2>1, <2>2
<1> HIDE DEF t
<1> QED BY <1>1, <1>6 DEF g, z

-----------------------------------------------------------------------------
(* pc, mstatus and prv at every step.                                      *)

LEMMA InitControl ==
  ASSUME Init
  PROVE  Control0
<1>1. /\ srv.queue = <<>> /\ ~srv.client /\ srv.recv = <<>> /\ ~srv.intr
      /\ DOMAIN srv.gs.dcsr = DcsrFields
  <2>1. PICK g \in InitGs :
           srv = [client |-> FALSE, recv |-> <<>>, send |-> <<>>, queue |-> <<>>,
                  gs |-> g, software_breakpoints |-> <<>>,
                  hardware_breakpoints |-> <<>>, intr |-> FALSE, haltnot |-> FALSE,
                  ram |-> [prog |-> <<>>, d0 |-> 0, d1 |-> 0, last |-> 0,
                           status |-> 0, w0 |-> 0], dead |-> FALSE]
    BY DEF Init
  <2>2. DOMAIN g.dcsr = DcsrFields
    BY DEF InitGs, DcsrFields
  <2> QED BY <2>1, <2>2
<1>2. hart.mode = "run" /\ hart.single_step = "none" /\ gdb.pending = "none"
  BY DEF Init
<1>3. ~Requested(srv.queue) /\ ~Left(srv) /\ ~release(srv)
  BY <1>1 DEF Requested, Left, release
<1>4. ServerTrue(srv, gdb, want)
  BY <1>1, <1>3 DEF ServerTrue
<1>5. Somewhere(srv, hart, want) /\ Releasing(srv, hart, want) /\ RunPhase(srv, hart, want)
  BY <1>1, <1>2, <1>3 DEF Somewhere, Releasing, RunPhase
<1>6. Stepping(hart)
  BY <1>2 DEF Stepping
<1> QED BY <1>1, <1>2, <1>4, <1>5, <1>6 DEF Control0, Control

LEMMA NextControl ==
  ASSUME Invariant, Control0, StepsPlainCode, [Next]_vars
  PROVE  Control0'
<1>1. Control(srv', hart', gdb', want')
  <2>1. CASE UNCHANGED vars
    <3> DEFINE s == srv'  h == hart'  g == gdb'  w == want'
    <3>1. s = srv /\ h = hart /\ g = gdb /\ w = want
      BY <2>1 DEF vars
    <3> SUFFICES Control(s, h, g, w)
      OBVIOUS
    <3> HIDE DEF s, h, g, w
    <3> QED BY <3>1 DEF Control0
  <2>2. CASE Handle
    BY <2>2, HandleControl
  <2>3. CASE HartDebug
    BY <2>3, EnterDebugControl, EntryControl, WaitForInterruptControl, DebugRamControl,
       CheckHaltControl DEF HartDebug
  <2>4. CASE HartRun
    BY <2>4, RunInsnControl, SwitchSpaceControl DEF HartRun
  <2>5. CASE Debugger
    BY <2>5, DebuggerStepControl
  <2> QED BY <2>1, <2>2, <2>3, <2>4, <2>5 DEF Next
<1> QED BY <1>1 DEF Control0

LEMMA NextResumes ==
  ASSUME Invariant, Control0, [Next]_vars, hart.mode # "run", hart'.mode = "run"
  PROVE  /\ \A r \in {"s0", "s1", "x", "f"} : hart'[r] = want[r]
         /\ hart'.pc = want.pc /\ hart'.prv = want.prv
         /\ hart'.mstatus = want.mstatus
<1>1. \A r \in {"s0", "s1", "x", "f"} : hart'[r] = want[r]
  BY ResumeRegisters
<1>2. CheckHalt /\ ~hart.halt
  BY Leaving
<1> QED BY <1>1, <1>2, CheckHaltControl

(* When check_halt leaves Debug Mode (debug_rom.S) the program under debug
   finds its registers, its pc, its mstatus and its privilege as it left them
   or as the debugger last wrote them: whatever halt_op_t read, the requests
   of gdbserver.cc changed and continue_op_t wrote back, in every
   interleaving with interrupts, disconnections and hart steps.  A single
   step that starts on an ebreak is excluded: it loses dpc.                 *)
THEOREM ResumesFaithfully == Spec /\ []StepsPlainCode => ResumeFaithful
<1>1. Init => Control0
  BY InitControl
<1>2. Invariant /\ Control0 /\ StepsPlainCode /\ [Next]_vars => Control0'
  BY NextControl
<1>3. Invariant /\ Control0 /\ [Next]_vars =>
        [hart.mode # "run" /\ hart'.mode = "run" =>
           /\ \A r \in {"s0", "s1", "x", "f"} : hart'[r] = want[r]
           /\ hart'.pc = want.pc /\ hart'.prv = want.prv
           /\ hart'.mstatus = want.mstatus]_vars
  BY NextResumes
<1> QED BY <1>1, <1>2, <1>3, InvariantHolds, PTL DEF Spec, ResumeFaithful
=============================================================================
