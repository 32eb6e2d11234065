--------------------------- MODULE SpikeHartProofs ---------------------------
(***************************************************************************)
(* Proofs about the simulated hart, for any program of any shape: what the *)
(* TLB may leave unchecked, the way back out of a trap, the machine's hold *)
(* on its interrupts, and that a cached translation is the true one.       *)
(*                                                                         *)
(* All rest on one inductive invariant with three parts, each stated       *)
(* of a hart h, so that the lemmas about the functions that make up a step *)
(* (flush_tlb, set_mstatus, set_privilege, take_trap, set_csr ...) are     *)
(* statements about what they return.                                      *)
(***************************************************************************)
EXTENDS SpikeHart, WellFoundedInduction, TLAPS

Fields == {"prv", "pc", "cause", "dprv", "ebreak", "sptbr", "mstatus", "mip", "mie",
           "mideleg", "medeleg", "tag", "check", "data", "check_triggers", "stale",
           "tselect", "tdata2", "mcontrol"}
Prvs == {"U", "S", "H", "M"}
Slots == 0 .. TLB_ENTRIES - 1
Triggers == 0 .. NTRIGGERS - 1

\* The hart's registers hold what fits, and no interrupt is delegated that is
\* not the supervisor's.
RegsOK(h) ==
    /\ DOMAIN h = Fields
    /\ h.prv \in {"U", "S", "M"} /\ h.dprv \in Prvs
    /\ h.mstatus \in Status
    /\ h.mip \subseteq Ints /\ h.mie \subseteq Ints /\ h.mideleg \subseteq DelegableInts

\* check_triggers names the accesses a trigger is set for, and an entry of the
\* TLB for such an access is marked to be checked.
TriggersOK(h) ==
    /\ h.tselect \in Triggers
    /\ h.mcontrol = [i \in Triggers |-> h.mcontrol[i]]
    /\ h.tag \in [Access -> [Slots -> Int]]
    /\ h.check \in [Access -> [Slots -> BOOLEAN]]
    /\ h.check_triggers = [t \in Access |-> \E i \in Triggers : t \in h.mcontrol[i].kinds]
    /\ \A t \in Access, i \in Slots :
         h.tag[t][i] # NoTag /\ h.check_triggers[t] => h.check[t][i]

\* Debug Mode is M-mode.
DebugOK(h) == h.cause # "none" => h.prv = "M"

HartOK(h) == RegsOK(h) /\ TriggersOK(h) /\ DebugOK(h)

\* A trap that is open has its way back on the stack of mstatus.
BackOK(s, b) ==
    /\ b \in [{"M", "S"} -> [open : BOOLEAN, prv : {"U", "S", "M"}, ie : BOOLEAN]]
    /\ b["M"].open => s.mpp = b["M"].prv /\ s.mpie = b["M"].ie
    /\ b["S"].open => s.spp = b["S"].prv /\ s.spie = b["S"].ie
    /\ \A m \in {"M", "S"} : b[m].prv = "U" => ~b[m].ie

HartInv ==
    /\ prog \in Programs
    /\ HartOK(hart)
    /\ BackOK(hart.mstatus, back)

-----------------------------------------------------------------------------
(* The functions a step is made of.                                        *)

\* What none of the TLB's operations touches
SameRegs(g, h) ==
    /\ g.pc = h.pc /\ g.prv = h.prv /\ g.cause = h.cause /\ g.dprv = h.dprv
    /\ g.mstatus = h.mstatus
    /\ g.mip = h.mip /\ g.mie = h.mie /\ g.mideleg = h.mideleg

LEMMA FlushKeeps ==
    ASSUME NEW h, RegsOK(h), TriggersOK(h)
    PROVE  /\ RegsOK(flush_tlb(h)) /\ TriggersOK(flush_tlb(h))
           /\ SameRegs(flush_tlb(h), h)
<1> DEFINE g == flush_tlb(h)
<1>1. /\ DOMAIN g = Fields /\ SameRegs(g, h)
      /\ g.tselect = h.tselect /\ g.mcontrol = h.mcontrol
      /\ g.check_triggers = h.check_triggers
      /\ g.tag = [t \in Access |-> [i \in Slots |-> NoTag]]
      /\ g.check = [t \in Access |-> [i \in Slots |-> FALSE]]
  BY DEF RegsOK, Fields, flush_tlb, SameRegs, Slots
<1>2. RegsOK(g)
  BY <1>1 DEF RegsOK, SameRegs
<1> HIDE DEF g
<1>3. /\ g.tag \in [Access -> [Slots -> Int]]
      /\ g.check \in [Access -> [Slots -> BOOLEAN]]
      /\ \A t \in Access, i \in Slots : g.tag[t][i] = NoTag
  BY <1>1 DEF NoTag
<1>4. TriggersOK(g)
  BY <1>1, <1>3 DEF TriggersOK
<1> QED BY <1>1, <1>2, <1>4 DEF g

LEMMA StatusKeeps ==
    ASSUME NEW h, RegsOK(h), TriggersOK(h), NEW val \in Status
    PROVE  LET g == set_mstatus(h, val)
           IN  /\ RegsOK(g) /\ TriggersOK(g)
               /\ g.pc = h.pc /\ g.prv = h.prv /\ g.cause = h.cause /\ g.dprv = h.dprv
               /\ g.mip = h.mip /\ g.mie = h.mie /\ g.mideleg = h.mideleg
               /\ g.mstatus = val
<1>1. PICK f : /\ f \in {h, flush_tlb(h)}
               /\ set_mstatus(h, val) = [f EXCEPT !.mstatus = val]
  BY DEF set_mstatus
<1>2. RegsOK(f) /\ TriggersOK(f) /\ SameRegs(f, h)
  BY <1>1, FlushKeeps DEF SameRegs
<1> DEFINE g == [f EXCEPT !.mstatus = val]
<1>3. /\ DOMAIN g = Fields /\ g.mstatus = val
      /\ g.pc = f.pc /\ g.prv = f.prv /\ g.cause = f.cause /\ g.dprv = f.dprv
      /\ g.mip = f.mip /\ g.mie = f.mie /\ g.mideleg = f.mideleg
      /\ g.tselect = f.tselect /\ g.mcontrol = f.mcontrol
      /\ g.check_triggers = f.check_triggers /\ g.tag = f.tag /\ g.check = f.check
  BY <1>2 DEF RegsOK, Fields
<1> HIDE DEF g
<1>4. RegsOK(g) /\ TriggersOK(g)
  BY <1>2, <1>3 DEF RegsOK, TriggersOK
<1> QED BY <1>1, <1>2, <1>3, <1>4 DEF g, SameRegs

LEMMA PrivilegeKeeps ==
    ASSUME NEW h, RegsOK(h), TriggersOK(h), NEW prv \in Prvs
    PROVE  LET g == set_privilege(h, prv)
           IN  /\ RegsOK(g) /\ TriggersOK(g)
               /\ g.pc = h.pc /\ g.cause = h.cause /\ g.dprv = h.dprv
               /\ g.mip = h.mip /\ g.mie = h.mie /\ g.mideleg = h.mideleg
               /\ g.mstatus = h.mstatus
               /\ g.prv = IF prv = "H" THEN "U" ELSE prv
<1> DEFINE f == flush_tlb(h)
<1>1. RegsOK(f) /\ TriggersOK(f) /\ SameRegs(f, h)
  BY FlushKeeps
<1> HIDE DEF f
<1> DEFINE g == [f EXCEPT !.prv = IF prv = "H" THEN "U" ELSE prv]
<1>2. /\ DOMAIN g = Fields /\ g.prv = IF prv = "H" THEN "U" ELSE prv
      /\ g.pc = f.pc /\ g.mstatus = f.mstatus /\ g.cause = f.cause /\ g.dprv = f.dprv
      /\ g.mip = f.mip /\ g.mie = f.mie /\ g.mideleg = f.mideleg
      /\ g.tselect = f.tselect /\ g.mcontrol = f.mcontrol
      /\ g.check_triggers = f.check_triggers /\ g.tag = f.tag /\ g.check = f.check
  BY <1>1 DEF RegsOK, Fields
<1> HIDE DEF g
<1>3. RegsOK(g) /\ TriggersOK(g)
  BY <1>1, <1>2 DEF RegsOK, TriggersOK, Prvs
<1> QED BY <1>1, <1>2, <1>3 DEF g, f, set_privilege, SameRegs

\* A refill keeps the marks of the entries it leaves and marks its own.
LEMMA RefillKeeps ==
    ASSUME NEW h, HartOK(h), NEW vpn \in Vpns, NEW page, NEW type \in Access
    PROVE  LET g == refill_tlb(h, vpn, page, type)
           IN  HartOK(g) /\ SameRegs(g, h)
<1> DEFINE i == vpn % TLB_ENTRIES
           g == refill_tlb(h, vpn, page, type)
<1>1. i \in Slots /\ vpn \in Int
  BY HartConstants DEF Slots
<1>2. /\ DOMAIN g = Fields /\ SameRegs(g, h)
      /\ g.tselect = h.tselect /\ g.mcontrol = h.mcontrol
      /\ g.check_triggers = h.check_triggers
      /\ g.tag = [t \in Access |->
                    [h.tag[t] EXCEPT ![i] = IF t = type \/ @ = vpn THEN vpn ELSE NoTag]]
      /\ g.check = [t \in Access |->
                      [h.check[t] EXCEPT ![i] = IF t = type THEN h.check_triggers[type]
                                                ELSE @ /\ h.tag[t][i] = vpn]]
  <2>1. DOMAIN h = Fields
    BY DEF HartOK, RegsOK
  <2> DEFINE tag == [t \in Access |->
                       [h.tag[t] EXCEPT ![i] = IF t = type \/ @ = vpn THEN vpn ELSE NoTag]]
             check == [t \in Access |->
                         [h.check[t] EXCEPT ![i] = IF t = type THEN h.check_triggers[type]
                                                   ELSE @ /\ h.tag[t][i] = vpn]]
  <2>2. g = [h EXCEPT !.tag = tag, !.check = check, !.data[i] = page - vpn]
    BY Zenon DEF refill_tlb
  <2> HIDE DEF tag, check
  <2>3. /\ DOMAIN g = Fields /\ SameRegs(g, h) /\ g.tag = tag /\ g.check = check
        /\ g.tselect = h.tselect /\ g.mcontrol = h.mcontrol
        /\ g.check_triggers = h.check_triggers
    <3> HIDE DEF g
    <3> QED BY <2>1, <2>2 DEF Fields, SameRegs
  <2> QED BY <2>3 DEF tag, check
<1>3. RegsOK(g) /\ DebugOK(g)
  BY <1>2 DEF HartOK, RegsOK, DebugOK, SameRegs
<1> HIDE DEF i, g
<1> USE DEF NoTag
<1>4. h.check_triggers \in [Access -> BOOLEAN]
  <2> DEFINE needed(t) == \E k \in Triggers : t \in h.mcontrol[k].kinds
  <2>1. \A t \in Access : needed(t) \in BOOLEAN
    OBVIOUS
  <2>2. h.check_triggers = [t \in Access |-> needed(t)]
    BY DEF HartOK, TriggersOK
  <2> HIDE DEF needed
  <2> QED BY <2>1, <2>2
<1>5. g.tag \in [Access -> [Slots -> Int]]
  BY <1>1, <1>2 DEF HartOK, TriggersOK
<1>6. g.check \in [Access -> [Slots -> BOOLEAN]]
  <2> DEFINE mark(t) == IF t = type THEN h.check_triggers[type]
                        ELSE h.check[t][i] /\ h.tag[t][i] = vpn
  <2>1. \A t \in Access : mark(t) \in BOOLEAN
    BY <1>4
  <2>2. g.check = [t \in Access |-> [h.check[t] EXCEPT ![i] = mark(t)]]
    BY <1>2
  <2> HIDE DEF mark
  <2> QED BY <1>1, <2>1, <2>2 DEF HartOK, TriggersOK
<1>7. ASSUME NEW t \in Access, NEW k \in Slots, g.tag[t][k] # NoTag, g.check_triggers[t]
      PROVE  g.check[t][k]
  <2>1. h.tag[t] \in [Slots -> Int] /\ h.check[t] \in [Slots -> BOOLEAN]
    BY DEF HartOK, TriggersOK
  <2>2. /\ g.tag[t] = [h.tag[t] EXCEPT ![i] = IF t = type \/ @ = vpn THEN vpn ELSE NoTag]
        /\ g.check[t] = [h.check[t] EXCEPT ![i] = IF t = type THEN h.check_triggers[type]
                                                  ELSE @ /\ h.tag[t][i] = vpn]
    BY <1>2
  <2>3. h.tag[t][k] # NoTag => h.check[t][k]
    BY <1>2, <1>7 DEF HartOK, TriggersOK
  <2>4. CASE k # i
    BY <2>1, <2>2, <2>3, <2>4, <1>7
  <2>5. CASE k = i /\ t = type
    BY <2>1, <2>2, <2>5, <1>1, <1>2, <1>7
  <2>6. CASE k = i /\ t # type
    <3>1. h.tag[t][i] = vpn
      BY <2>1, <2>2, <2>6, <1>1, <1>7
    <3>2. vpn # NoTag
      BY HartConstants
    <3>3. h.check[t][i]
      BY <2>3, <2>6, <3>1, <3>2
    <3> QED BY <2>1, <2>2, <2>6, <3>1, <3>3, <1>1
  <2> QED BY <2>4, <2>5, <2>6
<1>8. TriggersOK(g)
  BY <1>2, <1>5, <1>6, <1>7 DEF HartOK, TriggersOK
<1> QED BY <1>2, <1>3, <1>8 DEF g, HartOK

-----------------------------------------------------------------------------
(* Traps, returns and CSRs.                                                *)

\* What no operation but a write of the interrupts' own registers touches
SameInts(g, h) == g.mip = h.mip /\ g.mie = h.mie /\ g.mideleg = h.mideleg

LEMMA EnterDebugKeeps ==
    ASSUME NEW h, HartOK(h), NEW cause
    PROVE  LET g == enter_debug_mode(h, cause)
           IN  HartOK(g) /\ SameInts(g, h) /\ g.mstatus = h.mstatus /\ g.prv = "M"
<1> DEFINE e == [h EXCEPT !.cause = cause, !.dprv = h.prv]
<1>1. /\ DOMAIN e = Fields /\ e.prv = h.prv /\ e.dprv = h.prv
      /\ e.mstatus = h.mstatus /\ e.mip = h.mip /\ e.mie = h.mie /\ e.mideleg = h.mideleg
      /\ e.tselect = h.tselect /\ e.mcontrol = h.mcontrol
      /\ e.check_triggers = h.check_triggers /\ e.tag = h.tag /\ e.check = h.check
  BY DEF HartOK, RegsOK, Fields
<1> HIDE DEF e
<1>2. RegsOK(e) /\ TriggersOK(e)
  BY <1>1 DEF HartOK, RegsOK, TriggersOK, Prvs
<1> DEFINE f == set_privilege(e, "M")
<1>3. /\ RegsOK(f) /\ TriggersOK(f) /\ f.prv = "M" /\ f.mstatus = e.mstatus
      /\ SameInts(f, e)
  BY <1>2, PrivilegeKeeps DEF Prvs, SameInts
<1> HIDE DEF f
<1> DEFINE g == [f EXCEPT !.pc = "rom"]
<1>4. /\ DOMAIN g = Fields /\ g.prv = "M" /\ g.dprv = f.dprv
      /\ g.mstatus = f.mstatus /\ g.mip = f.mip /\ g.mie = f.mie /\ g.mideleg = f.mideleg
      /\ g.tselect = f.tselect /\ g.mcontrol = f.mcontrol
      /\ g.check_triggers = f.check_triggers /\ g.tag = f.tag /\ g.check = f.check
  BY <1>3 DEF RegsOK, Fields
<1> HIDE DEF g
<1>5. HartOK(g)
  BY <1>3, <1>4 DEF HartOK, RegsOK, TriggersOK, DebugOK
<1> QED BY <1>1, <1>3, <1>4, <1>5 DEF g, f, e, enter_debug_mode, SameInts

\* A hart whose pc alone is another
LEMMA JumpKeeps ==
    ASSUME NEW h, HartOK(h), NEW pc
    PROVE  LET g == [h EXCEPT !.pc = pc]
           IN  HartOK(g) /\ SameInts(g, h) /\ g.mstatus = h.mstatus
               /\ g.prv = h.prv /\ g.cause = h.cause /\ g.pc = pc
<1> DEFINE g == [h EXCEPT !.pc = pc]
<1>1. /\ DOMAIN g = Fields /\ g.prv = h.prv /\ g.dprv = h.dprv /\ g.cause = h.cause
      /\ g.mstatus = h.mstatus /\ g.mip = h.mip /\ g.mie = h.mie /\ g.mideleg = h.mideleg
      /\ g.tselect = h.tselect /\ g.mcontrol = h.mcontrol /\ g.pc = pc
      /\ g.check_triggers = h.check_triggers /\ g.tag = h.tag /\ g.check = h.check
  BY DEF HartOK, RegsOK, Fields
<1> HIDE DEF g
<1>2. HartOK(g)
  BY <1>1 DEF HartOK, RegsOK, TriggersOK, DebugOK
<1> QED BY <1>1, <1>2 DEF g, SameInts

\* The stack of mstatus that a trap into mode m leaves
Stacked(h, m) ==
    IF m = "S" THEN [h.mstatus EXCEPT !.spie = IE(h.mstatus, h.prv),
                                      !.spp = h.prv, !.sie = FALSE]
    ELSE [h.mstatus EXCEPT !.mpie = IE(h.mstatus, h.prv), !.mpp = h.prv, !.mie = FALSE]

\* A trap that is not the debugger's, outside Debug Mode, goes where the
\* delegation says with its way back on the stack.
LEMMA TrapKeeps ==
    ASSUME NEW h, HartOK(h), NEW cause, h.cause = "none", ~ToDebugger(h, cause),
           NEW m, m = IF ToS(h, cause) THEN "S" ELSE "M"
    PROVE  LET g == take_trap(h, cause)
           IN  /\ HartOK(g) /\ SameInts(g, h)
               /\ g.mstatus = Stacked(h, m) /\ g.prv = m
               /\ g.pc = IF m = "S" THEN "stvec" ELSE "mtvec"
<1> DEFINE e == [h EXCEPT !.pc = IF m = "S" THEN "stvec" ELSE "mtvec"]
           f == set_mstatus(e, Stacked(h, m))
           g == set_privilege(f, m)
<1>1. HartOK(e) /\ SameInts(e, h) /\ e.cause = "none" /\ e.pc = IF m = "S" THEN "stvec" ELSE "mtvec"
  BY JumpKeeps
<1>2. Stacked(h, m) \in Status
  <2>1. h.mstatus \in Status /\ h.prv \in {"U", "S", "M"}
    BY DEF HartOK, RegsOK
  <2>2. IE(h.mstatus, h.prv) \in BOOLEAN
    BY <2>1 DEF IE, Status
  <2>3. CASE m = "S"
    <3>1. h.prv \in {"U", "S"}
      BY <2>1, <2>3 DEF ToS, Rank
    <3> QED BY <2>1, <2>2, <2>3, <3>1 DEF Stacked, Status
  <2>4. CASE m = "M"
    BY <2>1, <2>2, <2>4 DEF Stacked, Status
  <2> QED BY <2>3, <2>4
<1>3. take_trap(h, cause) = g
  <2>1. CASE ToS(h, cause)
    BY <2>1 DEF take_trap, Stacked
  <2>2. CASE ~ToS(h, cause)
    BY <2>2 DEF take_trap, Stacked
  <2> QED BY <2>1, <2>2
<1> HIDE DEF e
<1>4. /\ RegsOK(f) /\ TriggersOK(f) /\ f.mstatus = Stacked(h, m) /\ SameInts(f, e)
      /\ f.cause = "none" /\ f.pc = e.pc
  BY <1>1, <1>2, StatusKeeps DEF HartOK, SameInts
<1> HIDE DEF f
<1>5. /\ RegsOK(g) /\ TriggersOK(g) /\ g.mstatus = f.mstatus /\ SameInts(g, f)
      /\ g.cause = "none" /\ g.pc = f.pc /\ g.prv = m
  BY <1>4, PrivilegeKeeps DEF Prvs, SameInts
<1> HIDE DEF g
<1> QED BY <1>1, <1>3, <1>4, <1>5 DEF HartOK, DebugOK, SameInts
\* Whatever its cause, a trap keeps the invariant; and one taken outside Debug
\* Mode ends up in M-mode or at stvec.
LEMMA TrapStep ==
    ASSUME HartInv, NEW cause, Trap(cause)
    PROVE  /\ HartOK(hart') /\ BackOK(hart'.mstatus, back')
           /\ SameInts(hart', hart)
           /\ hart.cause = "none" => hart'.prv = "M" \/ hart'.pc = "stvec"
<1>0. HartOK(hart) /\ BackOK(hart.mstatus, back) /\ hart' = take_trap(hart, cause)
  BY DEF HartInv, Trap
<1>1. CASE ToDebugger(hart, cause)
  <2>1. hart' = enter_debug_mode(hart, "swbp") /\ back' = back
    BY <1>1 DEF Trap, take_trap, Opened
  <2>2. /\ HartOK(hart') /\ SameInts(hart', hart)
        /\ hart'.mstatus = hart.mstatus /\ hart'.prv = "M"
    BY <1>0, <2>1, EnterDebugKeeps
  <2> QED BY <1>0, <2>1, <2>2
<1>2. CASE ~ToDebugger(hart, cause) /\ hart.cause # "none"
  <2> DEFINE g == [hart EXCEPT !.pc = "rom exception"]
  <2>1. hart' = g /\ back' = back
    BY <1>2 DEF Trap, take_trap, Opened
  <2>2. HartOK(g) /\ SameInts(g, hart) /\ g.mstatus = hart.mstatus
    BY <1>0, JumpKeeps
  <2> HIDE DEF g
  <2> QED BY <1>0, <1>2, <2>1, <2>2
<1>3. CASE ~ToDebugger(hart, cause) /\ hart.cause = "none"
  <2> DEFINE m == IF ToS(hart, cause) THEN "S" ELSE "M"
             ie == IE(hart.mstatus, hart.prv)
  <2>1. back' = [back EXCEPT ![m] = [open |-> TRUE, prv |-> hart.prv, ie |-> ie]]
    BY <1>3 DEF Trap, Opened
  <2>2. m \in {"M", "S"} /\ (m = "S" => hart.prv # "M")
    <3>1. hart.prv = "M" => ~ToS(hart, cause)
      BY DEF ToS, Rank
    <3> QED BY <3>1
  <2>3. /\ hart.mstatus \in Status /\ hart.prv \in {"U", "S", "M"}
        /\ ie \in BOOLEAN /\ (hart.prv = "U" => ~ie)
    <3>1. hart.mstatus \in Status /\ hart.prv \in {"U", "S", "M"}
      BY <1>0 DEF HartOK, RegsOK
    <3> QED BY <3>1 DEF IE, Status
  <2> HIDE DEF ie
  <2>4. /\ HartOK(hart') /\ SameInts(hart', hart)
        /\ hart'.mstatus = Stacked(hart, m) /\ hart'.prv = m
        /\ hart'.pc = IF m = "S" THEN "stvec" ELSE "mtvec"
    BY <1>0, <1>3, TrapKeeps
  <2> HIDE DEF m
  <2>5. BackOK(hart'.mstatus, back')
    <3>1. CASE m = "S"
      <4>1. /\ hart'.mstatus.spie = ie /\ hart'.mstatus.spp = hart.prv
            /\ hart'.mstatus.mpie = hart.mstatus.mpie /\ hart'.mstatus.mpp = hart.mstatus.mpp
        BY <2>3, <2>4, <3>1 DEF Stacked, Status, ie
      <4> QED BY <1>0, <2>1, <2>3, <3>1, <4>1 DEF BackOK
    <3>2. CASE m = "M"
      <4>1. /\ hart'.mstatus.mpie = ie /\ hart'.mstatus.mpp = hart.prv
            /\ hart'.mstatus.spie = hart.mstatus.spie /\ hart'.mstatus.spp = hart.mstatus.spp
        BY <2>3, <2>4, <3>2 DEF Stacked, Status, ie
      <4> QED BY <1>0, <2>1, <2>3, <3>2, <4>1 DEF BackOK
    <3> QED BY <2>2, <3>1, <3>2
  <2> QED BY <2>2, <2>4, <2>5
<1> QED BY <1>1, <1>2, <1>3

\* Returning from the machine's handler
LEMMA MretKeeps ==
    ASSUME NEW h, HartOK(h), h.cause = "none"
    PROVE  LET g == mret(h)
           IN  /\ HartOK(g) /\ SameInts(g, h)
               /\ g.prv = IF h.mstatus.mpp = "H" THEN "U" ELSE h.mstatus.mpp
               /\ g.mstatus.spp = h.mstatus.spp /\ g.mstatus.spie = h.mstatus.spie
               /\ h.mstatus.mpp \in {"S", "M"} => IE(g.mstatus, h.mstatus.mpp) = h.mstatus.mpie
<1> DEFINE s == h.mstatus
           v == [SetIE(s, s.mpp, s.mpie) EXCEPT !.mpie = FALSE, !.mpp = "U"]
           f == set_privilege(h, s.mpp)
           g == set_mstatus(f, v)
<1>1. s \in Status
  BY DEF HartOK, RegsOK
<1> HIDE DEF s
<1>2. SetIE(s, s.mpp, s.mpie) \in Status
  BY <1>1 DEF SetIE, Status
<1>3. /\ v \in Status /\ v.spp = s.spp /\ v.spie = s.spie
      /\ s.mpp \in {"S", "M"} => IE(v, s.mpp) = s.mpie
  BY <1>1, <1>2 DEF SetIE, Status, IE
<1> HIDE DEF v
<1>4. /\ RegsOK(f) /\ TriggersOK(f) /\ SameInts(f, h) /\ f.cause = "none"
      /\ f.prv = IF s.mpp = "H" THEN "U" ELSE s.mpp
  <2>1. s.mpp \in Prvs
    BY <1>1 DEF Status, Prvs
  <2> QED BY <2>1, PrivilegeKeeps DEF HartOK, SameInts
<1> HIDE DEF f
<1>5. /\ RegsOK(g) /\ TriggersOK(g) /\ SameInts(g, f) /\ g.cause = "none"
      /\ g.prv = f.prv /\ g.mstatus = v
  BY <1>3, <1>4, StatusKeeps DEF SameInts
<1> HIDE DEF g
<1>6. HartOK(g) /\ SameInts(g, h)
  BY <1>4, <1>5 DEF HartOK, DebugOK, SameInts
<1>7. mret(h) = g
  BY DEF mret, s, v, f, g
<1> QED BY <1>3, <1>4, <1>5, <1>6, <1>7 DEF s

\* Returning from the supervisor's
LEMMA SretKeeps ==
    ASSUME NEW h, HartOK(h), h.cause = "none"
    PROVE  LET g == sret(h)
           IN  /\ HartOK(g) /\ SameInts(g, h)
               /\ g.prv = h.mstatus.spp
               /\ g.mstatus.mpp = h.mstatus.mpp /\ g.mstatus.mpie = h.mstatus.mpie
               /\ h.mstatus.spp = "S" => IE(g.mstatus, "S") = h.mstatus.spie
<1> DEFINE s == h.mstatus
           v == [SetIE(s, s.spp, s.spie) EXCEPT !.spie = FALSE, !.spp = "U"]
           f == set_privilege(h, s.spp)
           g == set_mstatus(f, v)
<1>1. s \in Status
  BY DEF HartOK, RegsOK
<1> HIDE DEF s
<1>2. SetIE(s, s.spp, s.spie) \in Status
  BY <1>1 DEF SetIE, Status
<1>3. /\ v \in Status /\ v.mpp = s.mpp /\ v.mpie = s.mpie
      /\ s.spp = "S" => IE(v, "S") = s.spie
  BY <1>1, <1>2 DEF SetIE, Status, IE
<1> HIDE DEF v
<1>4. /\ RegsOK(f) /\ TriggersOK(f) /\ SameInts(f, h) /\ f.cause = "none"
      /\ f.prv = s.spp
  <2>1. s.spp \in Prvs /\ s.spp # "H"
    BY <1>1 DEF Status, Prvs
  <2> QED BY <2>1, PrivilegeKeeps DEF HartOK, SameInts
<1> HIDE DEF f
<1>5. /\ RegsOK(g) /\ TriggersOK(g) /\ SameInts(g, f) /\ g.cause = "none"
      /\ g.prv = f.prv /\ g.mstatus = v
  BY <1>3, <1>4, StatusKeeps DEF SameInts
<1> HIDE DEF g
<1>6. HartOK(g) /\ SameInts(g, h)
  BY <1>4, <1>5 DEF HartOK, DebugOK, SameInts
<1>7. sret(h) = g
  BY DEF sret, s, v, f, g
<1> QED BY <1>3, <1>4, <1>5, <1>6, <1>7 DEF s

LEMMA DretKeeps ==
    ASSUME NEW h, HartOK(h)
    PROVE  HartOK(dret(h)) /\ SameInts(dret(h), h) /\ dret(h).mstatus = h.mstatus
<1> DEFINE f == set_privilege(h, h.dprv)
<1>1. RegsOK(f) /\ TriggersOK(f) /\ SameInts(f, h) /\ f.mstatus = h.mstatus
  BY PrivilegeKeeps DEF HartOK, RegsOK, SameInts
<1> HIDE DEF f
<1> DEFINE g == [f EXCEPT !.cause = "none", !.pc = "program"]
<1>2. /\ DOMAIN g = Fields /\ g.prv = f.prv /\ g.dprv = f.dprv /\ g.cause = "none"
      /\ g.mstatus = f.mstatus /\ g.mip = f.mip /\ g.mie = f.mie /\ g.mideleg = f.mideleg
      /\ g.tselect = f.tselect /\ g.mcontrol = f.mcontrol
      /\ g.check_triggers = f.check_triggers /\ g.tag = f.tag /\ g.check = f.check
  BY <1>1 DEF RegsOK, Fields
<1> HIDE DEF g
<1>3. HartOK(g)
  BY <1>1, <1>2 DEF HartOK, RegsOK, TriggersOK, DebugOK
<1> QED BY <1>1, <1>2, <1>3 DEF g, f, dret, SameInts
\* Two harts that differ in the fields of X at most
AllBut(X, g, h) == DOMAIN g = Fields /\ \A f \in Fields \ X : g[f] = h[f]

\* A change of a register that neither mode, TLB nor triggers depend on
LEMMA PlainKeeps ==
    ASSUME NEW h, HartOK(h), NEW g,
           AllBut({"mip", "mie", "mideleg", "medeleg", "sptbr", "stale", "tselect",
                   "tdata2", "ebreak", "dprv"}, g, h),
           g.mip \subseteq Ints, g.mie \subseteq Ints, g.mideleg \subseteq DelegableInts,
           g.tselect \in Triggers, g.dprv \in Prvs
    PROVE  HartOK(g) /\ g.prv = h.prv /\ g.cause = h.cause /\ g.mstatus = h.mstatus
<1>1. /\ DOMAIN g = Fields /\ g.prv = h.prv /\ g.cause = h.cause
      /\ g.mstatus = h.mstatus /\ g.mcontrol = h.mcontrol
      /\ g.check_triggers = h.check_triggers /\ g.tag = h.tag /\ g.check = h.check
  BY DEF AllBut, Fields
<1> QED BY <1>1 DEF HartOK, RegsOK, TriggersOK, DebugOK

\* A write of a CSR: the mode stays, only mstatus and sstatus reach the
\* stack, of which sstatus has the supervisor's half, and the supervisor's
\* registers reach no interrupt that is not delegable.
LEMMA CsrKeeps ==
    ASSUME NEW h, HartOK(h), NEW which, NEW val, CsrValue(which, val)
    PROVE  LET g == set_csr(h, which, val)
           IN  /\ HartOK(g) /\ g.prv = h.prv /\ g.cause = h.cause
               /\ which \notin {"mstatus", "sstatus"} => g.mstatus = h.mstatus
               /\ which = "sstatus" =>
                    g.mstatus.mpp = h.mstatus.mpp /\ g.mstatus.mpie = h.mstatus.mpie
               /\ CsrPriv(which) = "S" =>
                    /\ g.mie \ DelegableInts = h.mie \ DelegableInts
                    /\ g.mip \ DelegableInts = h.mip \ DelegableInts
<1> DEFINE g == set_csr(h, which, val)
<1>0. /\ DOMAIN h = Fields /\ h.mstatus \in Status /\ h.dprv \in Prvs
      /\ h.mip \subseteq Ints /\ h.mie \subseteq Ints /\ h.mideleg \subseteq DelegableInts
      /\ h.tselect \in Triggers
  BY DEF HartOK, RegsOK, TriggersOK
<1>1. CASE which = "mstatus"
  <2>1. val \in Status /\ g = set_mstatus(h, val)
    BY <1>1 DEF CsrValue, set_csr
  <2>2. /\ RegsOK(g) /\ TriggersOK(g) /\ g.prv = h.prv /\ g.cause = h.cause
    BY <2>1, StatusKeeps DEF HartOK
  <2> HIDE DEF g
  <2> QED BY <1>1, <2>2 DEF HartOK, DebugOK, CsrPriv, g
<1>2. CASE which = "sstatus"
  <2> DEFINE v == [h.mstatus EXCEPT !.sie = val.sie, !.spie = val.spie,
                                    !.spp = val.spp, !.pum = val.pum]
  <2>1. val \in Status /\ g = set_mstatus(h, v)
    BY <1>2 DEF CsrValue, set_csr
  <2>2. v \in Status /\ v.mpp = h.mstatus.mpp /\ v.mpie = h.mstatus.mpie
    BY <1>0, <2>1 DEF Status
  <2> HIDE DEF v
  <2>3. /\ RegsOK(g) /\ TriggersOK(g) /\ g.prv = h.prv /\ g.cause = h.cause
        /\ g.mstatus = v /\ g.mip = h.mip /\ g.mie = h.mie
    BY <2>1, <2>2, StatusKeeps DEF HartOK
  <2> HIDE DEF g
  <2> QED BY <1>2, <2>2, <2>3 DEF HartOK, DebugOK, g
<1>3. CASE which \in {"mip", "sip"}
  <2>1. PICK v \in SUBSET Ints :
          g = [h EXCEPT !.mip = (h.mip \ DelegableInts) \cup (v \cap DelegableInts)]
    <3>1. CASE which = "mip"
      BY <3>1 DEF CsrValue, set_csr
    <3>2. CASE which = "sip"
      <4> DEFINE v == (h.mip \ h.mideleg) \cup (val \cap h.mideleg)
      <4>1. v \in SUBSET Ints
        BY <1>0, <3>2 DEF CsrValue
      <4>2. g = [h EXCEPT !.mip = (h.mip \ DelegableInts) \cup (v \cap DelegableInts)]
        BY <3>2 DEF set_csr
      <4> QED BY <4>1, <4>2
    <3> QED BY <1>3, <3>1, <3>2
  <2> HIDE DEF g
  <2>2. /\ AllBut({"mip"}, g, h)
        /\ g.mip = (h.mip \ DelegableInts) \cup (v \cap DelegableInts)
    BY <1>0, <2>1 DEF AllBut, Fields
  <2>3. g.mie = h.mie /\ g.mideleg = h.mideleg /\ g.tselect = h.tselect /\ g.dprv = h.dprv
    BY <2>2 DEF AllBut, Fields
  <2>4. HartOK(g) /\ g.prv = h.prv /\ g.cause = h.cause /\ g.mstatus = h.mstatus
    BY <1>0, <2>2, <2>3, PlainKeeps DEF AllBut
  <2> QED BY <2>2, <2>3, <2>4, <1>3 DEF g
<1>4. CASE which \in {"mie", "sie"}
  <2>1. PICK v \in SUBSET Ints :
          /\ g = [h EXCEPT !.mie = v]
          /\ which = "sie" => v \ DelegableInts = h.mie \ DelegableInts
    <3>1. CASE which = "mie"
      BY <3>1 DEF CsrValue, set_csr
    <3>2. CASE which = "sie"
      <4> DEFINE v == (h.mie \ h.mideleg) \cup (val \cap h.mideleg)
      <4>1. v \in SUBSET Ints /\ v \ DelegableInts = h.mie \ DelegableInts
        BY <1>0, <3>2 DEF CsrValue
      <4>2. g = [h EXCEPT !.mie = v]
        BY <3>2 DEF set_csr
      <4> QED BY <4>1, <4>2
    <3> QED BY <1>4, <3>1, <3>2
  <2> HIDE DEF g
  <2>2. AllBut({"mie"}, g, h) /\ g.mie = v
    BY <1>0, <2>1 DEF AllBut, Fields
  <2>3. g.mip = h.mip /\ g.mideleg = h.mideleg /\ g.tselect = h.tselect /\ g.dprv = h.dprv
    BY <2>2 DEF AllBut, Fields
  <2>4. HartOK(g) /\ g.prv = h.prv /\ g.cause = h.cause /\ g.mstatus = h.mstatus
    BY <1>0, <2>2, <2>3, PlainKeeps DEF AllBut
  <2> QED BY <2>1, <2>2, <2>3, <2>4, <1>4 DEF g, CsrPriv
<1>5. CASE which \in {"mideleg", "medeleg", "sptbr", "tselect", "dcsr"}
  <2>1. /\ AllBut({"mideleg", "medeleg", "sptbr", "stale", "tselect", "ebreak", "dprv"}, g, h)
        /\ g.mideleg \subseteq DelegableInts /\ g.tselect \in Triggers /\ g.dprv \in Prvs
    <3>1. CASE which = "mideleg"
      BY <1>0, <3>1 DEF set_csr, AllBut, Fields
    <3>2. CASE which = "medeleg"
      BY <1>0, <3>2 DEF set_csr, AllBut, Fields
    <3>3. CASE which = "sptbr"
      BY <1>0, <3>3 DEF set_csr, AllBut, Fields
    <3>4. CASE which = "tselect" /\ val < NTRIGGERS
      <4>1. val \in Triggers
        BY <3>4, HartConstants DEF CsrValue, Triggers
      <4> QED BY <1>0, <3>4, <4>1 DEF set_csr, AllBut, Fields
    <3>5. CASE which = "tselect" /\ ~(val < NTRIGGERS)
      BY <1>0, <3>5 DEF set_csr, AllBut, Fields
    <3>6. CASE which = "dcsr"
      <4>1. val.prv \in Prvs
        BY <3>6 DEF CsrValue, Prvs
      <4> QED BY <1>0, <3>6, <4>1 DEF set_csr, AllBut, Fields
    <3> QED BY <1>5, <3>1, <3>2, <3>3, <3>4, <3>5, <3>6
  <2> HIDE DEF g
  <2>2. g.mip = h.mip /\ g.mie = h.mie
    BY <2>1 DEF AllBut, Fields
  <2>3. HartOK(g) /\ g.prv = h.prv /\ g.cause = h.cause /\ g.mstatus = h.mstatus
    BY <1>0, <2>1, <2>2, PlainKeeps DEF AllBut
  <2> QED BY <2>2, <2>3, <1>5 DEF g
<1>6. CASE which = "tdata1" /\ ~(h.mcontrol[h.tselect].dmode /\ h.cause = "none")
  <2> DEFINE e == [h EXCEPT !.mcontrol[h.tselect] = val]
  <2>1. g = trigger_updated(e)
    BY <1>6 DEF set_csr
  <2>2. /\ DOMAIN e = Fields /\ AllBut({"mcontrol"}, e, h)
        /\ e.mcontrol = [h.mcontrol EXCEPT ![h.tselect] = val]
    BY <1>0 DEF AllBut, Fields
  <2> HIDE DEF e
  <2>3. e.mcontrol = [i \in Triggers |-> e.mcontrol[i]]
    BY <2>2 DEF HartOK, TriggersOK
  <2> DEFINE c == [t \in Access |-> \E i \in Triggers : t \in e.mcontrol[i].kinds]
  <2>4. /\ AllBut({"mcontrol", "tag", "check", "data", "stale", "check_triggers"}, g, h)
        /\ g.mcontrol = e.mcontrol /\ g.check_triggers = c
        /\ g.tag = [t \in Access |-> [i \in Slots |-> NoTag]]
        /\ g.check = [t \in Access |-> [i \in Slots |-> FALSE]]
    <3>1. /\ AllBut({"tag", "check", "data", "stale"}, flush_tlb(e), e)
          /\ flush_tlb(e).tag = [t \in Access |-> [i \in Slots |-> NoTag]]
          /\ flush_tlb(e).check = [t \in Access |-> [i \in Slots |-> FALSE]]
      BY <2>2 DEF flush_tlb, AllBut, Fields, Slots
    <3>2. g = [flush_tlb(e) EXCEPT !.check_triggers = c]
      BY <2>1 DEF trigger_updated, Triggers
    <3> HIDE DEF c, g
    <3> QED BY <2>2, <3>1, <3>2 DEF AllBut, Fields
  <2> HIDE DEF g
  <2>5. /\ g.tselect \in Triggers /\ g.mcontrol = [i \in Triggers |-> g.mcontrol[i]]
        /\ g.check_triggers = [t \in Access |-> \E i \in Triggers : t \in g.mcontrol[i].kinds]
    <3>1. g.tselect = h.tselect
      BY <2>4 DEF AllBut, Fields
    <3> QED BY <1>0, <2>3, <2>4, <3>1
  <2>6. /\ g.tag \in [Access -> [Slots -> Int]]
        /\ g.check \in [Access -> [Slots -> BOOLEAN]]
        /\ \A t \in Access, i \in Slots : g.tag[t][i] = NoTag
    <3> HIDE DEF c
    <3> QED BY <2>4 DEF NoTag
  <2>7. TriggersOK(g)
    BY <2>5, <2>6 DEF TriggersOK
  <2>8. /\ DOMAIN g = Fields /\ g.prv = h.prv /\ g.cause = h.cause /\ g.mstatus = h.mstatus
        /\ g.mip = h.mip /\ g.mie = h.mie /\ g.mideleg = h.mideleg /\ g.dprv = h.dprv
    BY <2>4 DEF AllBut, Fields
  <2> QED BY <1>6, <2>7, <2>8 DEF HartOK, RegsOK, DebugOK, g
<1>7. CASE which = "tdata2" /\ ~(h.mcontrol[h.tselect].dmode /\ h.cause = "none")
  <2>1. g = [h EXCEPT !.tdata2[h.tselect] = val]
    BY <1>7 DEF set_csr
  <2> HIDE DEF g
  <2>2. AllBut({"tdata2"}, g, h)
    BY <1>0, <2>1 DEF AllBut, Fields
  <2>3. /\ g.mip = h.mip /\ g.mie = h.mie /\ g.mideleg = h.mideleg
        /\ g.tselect = h.tselect /\ g.dprv = h.dprv
    BY <2>2 DEF AllBut, Fields
  <2>4. HartOK(g) /\ g.prv = h.prv /\ g.cause = h.cause /\ g.mstatus = h.mstatus
    BY <1>0, <2>2, <2>3, PlainKeeps DEF AllBut
  <2> QED BY <2>3, <2>4, <1>7 DEF g
<1>8. CASE which \in {"tdata1", "tdata2"} /\ h.mcontrol[h.tselect].dmode /\ h.cause = "none"
  <2>1. g = h
    BY <1>8 DEF set_csr
  <2> QED BY <1>8, <2>1
<1>9. which \in {"mstatus", "sstatus", "mip", "sip", "mie", "sie", "mideleg", "medeleg",
                 "sptbr", "tselect", "tdata1", "tdata2", "dcsr"}
  BY DEF CsrValue
<1> QED BY <1>1, <1>2, <1>3, <1>4, <1>5, <1>6, <1>7, <1>8, <1>9
-----------------------------------------------------------------------------
(* The steps.                                                              *)

\* What every step keeps, whoever takes it
Kept ==
    /\ HartOK(hart') /\ BackOK(hart'.mstatus, back')
    /\ prog' = prog

LEMMA InitHart == HartInit => HartInv
<1> SUFFICES ASSUME HartInit PROVE HartInv
  OBVIOUS
<1> DEFINE g == Reset
<1>1. /\ DOMAIN g = Fields /\ g.prv = "M" /\ g.dprv = "U" /\ g.cause = "none"
      /\ g.mstatus = [vm |-> FALSE, mprv |-> FALSE, mpp |-> "U", pum |-> FALSE,
                      mxr |-> FALSE, mie |-> FALSE, sie |-> FALSE, mpie |-> FALSE,
                      spie |-> FALSE, spp |-> "U"]
      /\ g.mip = {} /\ g.mie = {} /\ g.mideleg = {} /\ g.tselect = 0
  BY DEF Reset, flush_tlb, Fields
<1>2. /\ g.check_triggers = [k \in Access |-> FALSE]
      /\ g.tag = [t \in Access |-> [i \in Slots |-> NoTag]]
      /\ g.check = [t \in Access |-> [i \in Slots |-> FALSE]]
      /\ g.mcontrol = [i \in Triggers |->
           [dmode |-> FALSE, action |-> "exception", chain |-> FALSE,
            match |-> "EQUAL", prvs |-> {}, kinds |-> {}]]
  BY DEF Reset, flush_tlb, Fields, Slots, Triggers
<1> HIDE DEF g
<1>3. RegsOK(g) /\ DebugOK(g)
  BY <1>1 DEF RegsOK, DebugOK, Prvs, Status
<1>4. /\ g.tag \in [Access -> [Slots -> Int]] /\ g.check \in [Access -> [Slots -> BOOLEAN]]
      /\ \A t \in Access, i \in Slots : g.tag[t][i] = NoTag
  BY <1>2 DEF NoTag
<1>5. g.mcontrol = [i \in Triggers |-> g.mcontrol[i]] /\ \A i \in Triggers : g.mcontrol[i].kinds = {}
  BY <1>2
<1>6. g.check_triggers = [t \in Access |-> \E i \in Triggers : t \in g.mcontrol[i].kinds]
  BY <1>2, <1>5
<1>7. g.tselect \in Triggers
  BY <1>1, HartConstants DEF Triggers
<1>8. TriggersOK(g)
  BY <1>4, <1>5, <1>6, <1>7 DEF TriggersOK
<1>9. BackOK(g.mstatus, back)
  BY DEF BackOK, HartInit
<1> QED BY <1>3, <1>8, <1>9 DEF HartInit, HartInv, HartOK, g

LEMMA DataStep ==
    ASSUME HartInv, NEW vpn \in Vpns, NEW type \in Access, Data(vpn, type)
    PROVE  Kept /\ SameInts(hart', hart)
<1>0. HartOK(hart) /\ BackOK(hart.mstatus, back)
  BY DEF HartInv
<1> DEFINE hit == Cached(hart, vpn, type) # -1
           r == translate(hart, pt, vpn, type)
           t == trigger_match(hart, type, vpn)
<1>1. prog' = prog
  BY DEF Data
<1>2. CASE Trap(type)
  BY <1>1, <1>2, TrapStep DEF Kept
<1>3. CASE Fires(t)
  <2>1. CASE Trap("break")
    BY <1>1, <2>1, TrapStep DEF Kept
  <2>2. CASE hart' = enter_debug_mode(hart, "hwbp") /\ back' = back
    <3>1. HartOK(hart') /\ SameInts(hart', hart) /\ hart'.mstatus = hart.mstatus
      BY <1>0, <2>2, EnterDebugKeeps
    <3> QED BY <1>0, <1>1, <2>2, <3>1 DEF Kept
  <2> QED BY <1>3, <2>1, <2>2 DEF Fires
<1>4. CASE hart' = hart /\ back' = back
  BY <1>0, <1>1, <1>4 DEF Kept, SameInts
<1>5. CASE hart' = refill_tlb(hart, vpn, r.page, type) /\ back' = back
  <2>1. HartOK(hart') /\ SameRegs(hart', hart)
    BY <1>0, <1>5, RefillKeeps
  <2> QED BY <1>0, <1>1, <1>5, <2>1 DEF Kept, SameInts, SameRegs
<1> HIDE DEF t, r
<1> QED BY <1>2, <1>3, <1>4, <1>5 DEF Data, t, r

\* The interrupt chosen is one of the four.
LEMMA InterruptChosen ==
    ASSUME NEW h, RegsOK(h)
    PROVE  LET m == Rank(h.prv) < 3 \/ h.mstatus.mie
               s == Rank(h.prv) < 1 \/ (h.prv = "S" /\ h.mstatus.sie)
               enabled == {i \in h.mip \cap h.mie : IF i \in h.mideleg THEN s ELSE m}
           IN  enabled # {} => take_interrupt(h) # NoTrap
<1> DEFINE m == Rank(h.prv) < 3 \/ h.mstatus.mie
           s == Rank(h.prv) < 1 \/ (h.prv = "S" /\ h.mstatus.sie)
           enabled == {i \in h.mip \cap h.mie : IF i \in h.mideleg THEN s ELSE m}
<1> SUFFICES ASSUME enabled # {} PROVE take_interrupt(h) # NoTrap
  OBVIOUS
<1>1. enabled \subseteq Ints
  BY DEF RegsOK
<1>2. take_interrupt(h) = CHOOSE i \in enabled : \A j \in enabled : Bit(i) <= Bit(j)
  BY DEF take_interrupt
<1> HIDE DEF enabled
<1>3. \E i \in enabled : \A j \in enabled : Bit(i) <= Bit(j)
  <2>1. /\ Bit("SSI") = 1 /\ Bit("MSI") = 3 /\ Bit("STI") = 5 /\ Bit("MTI") = 7
    BY DEF Bit
  <2>2. CASE "SSI" \in enabled
    BY <1>1, <2>1, <2>2 DEF Ints
  <2>3. CASE "SSI" \notin enabled /\ "MSI" \in enabled
    BY <1>1, <2>1, <2>3 DEF Ints
  <2>4. CASE enabled \cap {"SSI", "MSI"} = {} /\ "STI" \in enabled
    BY <1>1, <2>1, <2>4 DEF Ints
  <2>5. CASE enabled = {"MTI"}
    BY <1>1, <2>1, <2>5 DEF Ints
  <2> QED BY <1>1, <2>2, <2>3, <2>4, <2>5 DEF Ints
<1>4. take_interrupt(h) \in enabled
  BY <1>2, <1>3
<1> QED BY <1>1, <1>4 DEF Ints, NoTrap
\* The programs' accesses and interrupts are of the kinds they are declared.
LEMMA ProgramTyped ==
    ASSUME HartInv
    PROVE  /\ prog.vpns \subseteq Vpns /\ prog.ints \subseteq Ints
           /\ \A w \in prog.csrw : CsrValue(w[1], w[2])
BY ProgramsAssumption DEF HartInv

\* A write of a CSR by a program that may keeps what is still open.
LEMMA CsrwStep ==
    ASSUME HartInv, NEW w, CsrValue(w[1], w[2]),
           hart' = set_csr(hart, w[1], w[2]), back' = Closed(w[1]), prog' = prog
    PROVE  Kept
<1>0. HartOK(hart) /\ BackOK(hart.mstatus, back)
  BY DEF HartInv
<1>1. /\ HartOK(hart')
      /\ w[1] \notin {"mstatus", "sstatus"} => hart'.mstatus = hart.mstatus
      /\ w[1] = "sstatus" => /\ hart'.mstatus.mpp = hart.mstatus.mpp
                             /\ hart'.mstatus.mpie = hart.mstatus.mpie
  BY <1>0, CsrKeeps
<1>2. /\ back' \in [{"M", "S"} -> [open : BOOLEAN, prv : {"U", "S", "M"}, ie : BOOLEAN]]
      /\ \A m \in {"M", "S"} :
           /\ back'[m].prv = back[m].prv /\ back'[m].ie = back[m].ie
           /\ back'[m].open => back[m].open
           /\ w[1] = "mstatus" => ~back'[m].open
      /\ w[1] = "sstatus" => ~back'["S"].open
  <2> DEFINE closes(m) == back[m].open /\ w[1] # "mstatus"
                            /\ (w[1] = "sstatus" => m = "M" /\ back[m].prv # "S")
  <2>1. back' = [m \in {"M", "S"} |-> [back[m] EXCEPT !.open = closes(m)]]
    BY DEF Closed
  <2>2. /\ \A m \in {"M", "S"} : /\ closes(m) \in BOOLEAN /\ (closes(m) => back[m].open)
                                 /\ (w[1] = "mstatus" => ~closes(m))
        /\ w[1] = "sstatus" => ~closes("S")
    BY Zenon
  <2>3. \A m \in {"M", "S"} : back[m] \in [open : BOOLEAN, prv : {"U", "S", "M"}, ie : BOOLEAN]
    BY <1>0 DEF BackOK
  <2> HIDE DEF closes
  <2> QED BY <2>1, <2>2, <2>3
<1>3. CASE w[1] = "mstatus"
  BY <1>0, <1>1, <1>2, <1>3 DEF Kept, BackOK
<1>4. CASE w[1] = "sstatus"
  BY <1>0, <1>1, <1>2, <1>4 DEF Kept, BackOK
<1>5. CASE w[1] \notin {"mstatus", "sstatus"}
  BY <1>0, <1>1, <1>2, <1>5 DEF Kept, BackOK
<1> QED BY <1>3, <1>4, <1>5

\* A privileged instruction traps or has its effect.
LEMMA PrivilegedCases ==
    ASSUME HartInv, NEW prv, NEW h, NEW b, Privileged(prv, h, b)
    PROVE  \/ Rank(hart.prv) < Rank(prv) /\ Trap("illegal") /\ Kept /\ SameInts(hart', hart)
           \/ Rank(hart.prv) >= Rank(prv) /\ hart' = h /\ back' = b /\ prog' = prog
<1>1. Rank(hart.prv) \in Int /\ Rank(prv) \in Int
  BY DEF Rank
<1>2. CASE Trap("illegal") /\ Rank(hart.prv) < Rank(prv)
  BY <1>2, TrapStep DEF Kept, Privileged
<1>3. CASE hart' = h /\ back' = b /\ ~(Rank(hart.prv) < Rank(prv))
  BY <1>1, <1>3 DEF Privileged
<1> QED BY <1>2, <1>3 DEF Privileged

LEMMA NextKeeps ==
    ASSUME HartInv, HartNext
    PROVE  Kept
<1>0. HartOK(hart) /\ BackOK(hart.mstatus, back)
  BY DEF HartInv
<1>r. /\ hart.mip \subseteq Ints /\ hart.mie \subseteq Ints /\ hart.mideleg \subseteq DelegableInts
      /\ hart.tselect \in Triggers /\ hart.dprv \in Prvs
  BY <1>0 DEF HartOK, RegsOK, TriggersOK
<1>1. CASE Interrupt
  BY <1>1, TrapStep DEF Interrupt, Kept
<1>2. CASE Load \/ Store \/ Fetch
  BY <1>2, DataStep, ProgramTyped DEF Load, Store, Fetch, Access
<1>3. CASE Csrw
  <2>1. PICK w \in prog.csrw :
          Privileged(CsrPriv(w[1]), set_csr(hart, w[1], w[2]), Closed(w[1]))
    BY <1>3 DEF Csrw
  <2>2. CsrValue(w[1], w[2])
    BY ProgramTyped
  <2> QED BY <2>1, <2>2, CsrwStep, PrivilegedCases
<1>4. CASE sfence_vm
  <2>1. CASE hart' = flush_tlb(hart) /\ back' = back /\ prog' = prog
    <3>1. RegsOK(hart') /\ TriggersOK(hart') /\ SameRegs(hart', hart)
      BY <1>0, <2>1, FlushKeeps DEF HartOK
    <3> QED BY <1>0, <2>1, <3>1 DEF Kept, HartOK, DebugOK, SameRegs
  <2> QED BY <1>4, <2>1, PrivilegedCases DEF sfence_vm
<1>5. CASE Mret
  <2>1. CASE hart' = mret(hart) /\ back' = [back EXCEPT !["M"].open = FALSE] /\ prog' = prog
    <3>1. /\ HartOK(hart') /\ hart'.mstatus.spp = hart.mstatus.spp
          /\ hart'.mstatus.spie = hart.mstatus.spie
      BY <1>0, <1>5, <2>1, MretKeeps DEF Mret
    <3>2. BackOK(hart'.mstatus, back')
      BY <1>0, <2>1, <3>1 DEF BackOK
    <3> QED BY <2>1, <3>1, <3>2 DEF Kept
  <2> QED BY <1>5, <2>1, PrivilegedCases DEF Mret
<1>6. CASE Sret
  <2>1. CASE hart' = sret(hart) /\ back' = [back EXCEPT !["S"].open = FALSE] /\ prog' = prog
    <3>1. /\ HartOK(hart') /\ hart'.mstatus.mpp = hart.mstatus.mpp
          /\ hart'.mstatus.mpie = hart.mstatus.mpie
      BY <1>0, <1>6, <2>1, SretKeeps DEF Sret
    <3>2. BackOK(hart'.mstatus, back')
      BY <1>0, <2>1, <3>1 DEF BackOK
    <3> QED BY <2>1, <3>1, <3>2 DEF Kept
  <2> QED BY <1>6, <2>1, PrivilegedCases DEF Sret
<1>7. CASE Dret
  <2>1. CASE hart' = dret(hart) /\ back' = back /\ prog' = prog
    BY <1>0, <2>1, DretKeeps DEF Kept
  <2> QED BY <1>7, <2>1, PrivilegedCases DEF Dret
<1>8. CASE Ecall \/ Ebreak
  BY <1>8, TrapStep DEF Ecall, Ebreak, Kept
<1>9. CASE WritePte
  <2> DEFINE g == [hart EXCEPT !.stale = TRUE]
  <2>1. hart' = g /\ back' = back /\ prog' = prog
    BY <1>9 DEF WritePte
  <2>2. AllBut({"stale"}, g, hart)
    BY <1>0 DEF AllBut, Fields, HartOK, RegsOK
  <2> HIDE DEF g
  <2>3. /\ g.mip = hart.mip /\ g.mie = hart.mie /\ g.mideleg = hart.mideleg
        /\ g.tselect = hart.tselect /\ g.dprv = hart.dprv
    BY <2>2 DEF AllBut, Fields
  <2>4. HartOK(g) /\ g.mstatus = hart.mstatus
    BY <1>0, <1>r, <2>2, <2>3, PlainKeeps DEF AllBut
  <2> QED BY <1>0, <2>1, <2>4 DEF Kept
<1>10. CASE DebugInt
  <2>1. PICK c : hart' = enter_debug_mode(hart, c) /\ back' = back /\ prog' = prog
    BY <1>10 DEF DebugInt
  <2>2. HartOK(hart') /\ hart'.mstatus = hart.mstatus
    BY <1>0, <2>1, EnterDebugKeeps
  <2> QED BY <1>0, <2>1, <2>2 DEF Kept
<1>11. CASE Device
  <2>1. PICK i \in prog.ints :
          hart' = [hart EXCEPT !.mip = IF i \in @ THEN @ \ {i} ELSE @ \cup {i}]
    BY <1>11 DEF Device
  <2>2. AllBut({"mip"}, hart', hart) /\ hart'.mip \subseteq hart.mip \cup {i}
    BY <1>0, <2>1 DEF AllBut, Fields, HartOK, RegsOK
  <2>3. /\ hart'.mie = hart.mie /\ hart'.mideleg = hart.mideleg
        /\ hart'.tselect = hart.tselect /\ hart'.dprv = hart.dprv
    BY <2>2 DEF AllBut, Fields
  <2>4. hart'.mip \subseteq Ints
    BY <1>0, <2>2, ProgramTyped DEF HartOK, RegsOK
  <2>5. HartOK(hart') /\ hart'.mstatus = hart.mstatus
    BY <1>0, <1>r, <2>2, <2>3, <2>4, PlainKeeps DEF AllBut
  <2> QED BY <1>0, <1>11, <2>5 DEF Kept, Device
<1> QED BY <1>1, <1>2, <1>3, <1>4, <1>5, <1>6, <1>7, <1>8, <1>9, <1>10, <1>11 DEF HartNext

LEMMA HartInductive == HartInv /\ [HartNext]_hvars => HartInv'
<1> SUFFICES ASSUME HartInv, [HartNext]_hvars PROVE HartInv'
  OBVIOUS
<1>1. CASE HartNext
  BY <1>1, NextKeeps DEF Kept, HartInv
<1>2. CASE UNCHANGED hvars
  BY <1>2 DEF HartInv, hvars
<1> QED BY <1>1, <1>2

LEMMA HartInvariant == HartSpec => []HartInv
BY InitHart, HartInductive, PTL DEF HartSpec
-----------------------------------------------------------------------------
(* The theorems.                                                           *)

\* A load or store that hits the TLB and skips the comparison with the
\* triggers is one no trigger matches, whatever the program wrote to the
\* trigger registers and however its page got into the TLB (mmu_t::refill_tlb
\* marks its entries, processor_t::trigger_updated flushes the others).
THEOREM WatchedAccessStopsHolds == HartSpec => []WatchedAccessStops
<1>1. HartInv => WatchedAccessStops
  <2> SUFFICES ASSUME HartInv, NEW type \in {"LOAD", "STORE"}, NEW vpn \in Vpns,
                      Cached(hart, vpn, type) # -1, trigger_match(hart, type, vpn) # -1
               PROVE  hart.check[type][vpn % TLB_ENTRIES]
    BY DEF WatchedAccessStops
  <2> DEFINE i == vpn % TLB_ENTRIES
  <2>1. i \in Slots /\ vpn # NoTag /\ type \in Access
    BY HartConstants DEF Slots, NoTag, Access
  <2>2. hart.tag[type][i] = vpn
    BY DEF Cached
  <2>3. \E k \in Triggers : type \in hart.mcontrol[k].kinds
    BY DEF trigger_match, Triggers
  <2>4. TriggersOK(hart)
    BY DEF HartInv, HartOK
  <2>5. hart.check_triggers[type]
    BY <2>1, <2>3, <2>4 DEF TriggersOK
  <2> HIDE DEF i
  <2>6. hart.check[type][i]
    BY <2>1, <2>2, <2>4, <2>5 DEF TriggersOK
  <2> QED BY <2>6 DEF i
<1> QED BY <1>1, HartInvariant, PTL

\* A handler that returns by mret or sret with the stack its trap left goes
\* back to the privilege it interrupted, with the interrupt enable that
\* privilege had, whatever traps of the other mode and visits to Debug Mode
\* came between (processor_t::take_trap, insns/mret.h, insns/sret.h).
THEOREM ReturnRestoresHolds == HartSpec => ReturnRestores
<1> DEFINE Restores(m) ==
      (/\ back[m].open /\ ~back'[m].open
       /\ hart.prv = m /\ hart.cause = "none"
       /\ IF m = "M" THEN Mret ELSE Sret)
      => /\ hart'.prv = back[m].prv
         /\ IE(hart'.mstatus, hart'.prv) = back[m].ie
<1>1. ASSUME HartInv PROVE Restores("M")
  <2> SUFFICES ASSUME back["M"].open, hart.prv = "M", hart.cause = "none", Mret
               PROVE  /\ hart'.prv = back["M"].prv
                      /\ IE(hart'.mstatus, hart'.prv) = back["M"].ie
    OBVIOUS
  <2>1. HartOK(hart) /\ BackOK(hart.mstatus, back)
    BY <1>1 DEF HartInv
  <2>2. /\ hart.mstatus.mpp = back["M"].prv /\ hart.mstatus.mpie = back["M"].ie
        /\ back["M"].prv \in {"U", "S", "M"} /\ back["M"].ie \in BOOLEAN
        /\ back["M"].prv = "U" => ~back["M"].ie
    BY <2>1 DEF BackOK
  <2>3. hart' = mret(hart)
    BY DEF Mret, Privileged, Rank
  <2>4. /\ hart'.prv = IF hart.mstatus.mpp = "H" THEN "U" ELSE hart.mstatus.mpp
        /\ hart.mstatus.mpp \in {"S", "M"} => IE(hart'.mstatus, hart.mstatus.mpp) = hart.mstatus.mpie
    BY <2>1, <2>3, MretKeeps
  <2>5. CASE back["M"].prv = "U"
    BY <2>2, <2>4, <2>5 DEF IE
  <2>6. CASE back["M"].prv \in {"S", "M"}
    BY <2>2, <2>4, <2>6
  <2> QED BY <2>2, <2>5, <2>6
<1>2. ASSUME HartInv PROVE Restores("S")
  <2> SUFFICES ASSUME back["S"].open, hart.prv = "S", hart.cause = "none", Sret
               PROVE  /\ hart'.prv = back["S"].prv
                      /\ IE(hart'.mstatus, hart'.prv) = back["S"].ie
    OBVIOUS
  <2>1. HartOK(hart) /\ BackOK(hart.mstatus, back)
    BY <1>2 DEF HartInv
  <2>2. /\ hart.mstatus.spp = back["S"].prv /\ hart.mstatus.spie = back["S"].ie
        /\ back["S"].ie \in BOOLEAN
        /\ back["S"].prv = "U" => ~back["S"].ie
    BY <2>1 DEF BackOK
  <2>3. hart.mstatus.spp \in {"U", "S"}
    BY <2>1 DEF HartOK, RegsOK, Status
  <2>4. hart' = sret(hart)
    BY DEF Sret, Privileged, Rank
  <2>5. /\ hart'.prv = hart.mstatus.spp
        /\ hart.mstatus.spp = "S" => IE(hart'.mstatus, "S") = hart.mstatus.spie
    BY <2>1, <2>4, SretKeeps
  <2>6. CASE back["S"].prv = "U"
    <3>1. hart'.prv = "U" /\ back["S"].ie = FALSE
      BY <2>2, <2>5, <2>6
    <3>2. IE(hart'.mstatus, "U") = FALSE
      BY DEF IE
    <3> QED BY <2>6, <3>1, <3>2
  <2>7. CASE back["S"].prv = "S"
    BY <2>2, <2>5, <2>7
  <2> QED BY <2>2, <2>3, <2>6, <2>7
<1>3. HartInv /\ [HartNext]_hvars => [\A m \in {"M", "S"} : Restores(m)]_hvars
  <2> HIDE DEF Restores
  <2>1. HartInv => \A m \in {"M", "S"} : Restores(m)
    BY <1>1, <1>2
  <2> QED BY <2>1
<1> QED BY <1>3, HartInvariant, PTL DEF HartSpec, ReturnRestores

\* Software below M-mode neither masks nor withdraws an interrupt that is not
\* delegable, and executes nothing while an enabled one is pending
\* (processor_t::take_interrupt, the views sie and sip of set_csr).
THEOREM MachineInterruptsKeptHolds == HartSpec => MachineInterruptsKept
<1> DEFINE Keeps ==
      hart.prv # "M" =>
         /\ hart'.mie \ DelegableInts = hart.mie \ DelegableInts
         /\ Device \/ hart'.mip \ DelegableInts = hart.mip \ DelegableInts
         /\ (hart.mip \cap hart.mie) \ DelegableInts # {}
              => Device \/ hart'.prv = "M" \/ hart'.pc = "stvec"
<1>1. ASSUME HartInv, HartNext, hart.prv # "M", ~Device
      PROVE  /\ hart'.mie \ DelegableInts = hart.mie \ DelegableInts
             /\ hart'.mip \ DelegableInts = hart.mip \ DelegableInts
  <2>0. HartOK(hart)
    BY <1>1 DEF HartInv
  <2>1. SUFFICES \/ SameInts(hart', hart)
                 \/ /\ hart'.mie \ DelegableInts = hart.mie \ DelegableInts
                    /\ hart'.mip \ DelegableInts = hart.mip \ DelegableInts
    BY DEF SameInts
  <2>2. CASE Interrupt \/ Ecall \/ Ebreak
    BY <1>1, <2>2, TrapStep DEF Interrupt, Ecall, Ebreak
  <2>3. CASE Load \/ Store \/ Fetch
    BY <1>1, <2>3, DataStep, ProgramTyped DEF Load, Store, Fetch, Access
  <2>4. CASE Csrw
    <3>1. PICK w \in prog.csrw :
            Privileged(CsrPriv(w[1]), set_csr(hart, w[1], w[2]), Closed(w[1]))
      BY <2>4 DEF Csrw
    <3>2. CsrValue(w[1], w[2])
      BY <1>1, ProgramTyped
    <3>3. CASE hart' = set_csr(hart, w[1], w[2]) /\ Rank(hart.prv) >= Rank(CsrPriv(w[1]))
      <4>1. Rank(hart.prv) < 3
        BY <1>1, <2>0 DEF Rank, HartOK, RegsOK
      <4>2. CsrPriv(w[1]) = "S"
        BY <3>3, <4>1 DEF CsrPriv, Rank
      <4> QED BY <2>0, <3>2, <3>3, <4>2, CsrKeeps
    <3> QED BY <1>1, <3>1, <3>3, PrivilegedCases
  <2>5. CASE sfence_vm
    <3>1. CASE hart' = flush_tlb(hart)
      BY <2>0, <3>1, FlushKeeps DEF HartOK, SameRegs, SameInts
    <3> QED BY <1>1, <2>5, <3>1, PrivilegedCases DEF sfence_vm
  <2>6. CASE Mret
    <3>1. CASE hart' = mret(hart)
      BY <2>0, <2>6, <3>1, MretKeeps DEF Mret
    <3> QED BY <1>1, <2>6, <3>1, PrivilegedCases DEF Mret
  <2>7. CASE Sret
    <3>1. CASE hart' = sret(hart)
      BY <2>0, <2>7, <3>1, SretKeeps DEF Sret
    <3> QED BY <1>1, <2>7, <3>1, PrivilegedCases DEF Sret
  <2>8. CASE Dret
    <3>1. CASE hart' = dret(hart)
      BY <2>0, <3>1, DretKeeps
    <3> QED BY <1>1, <2>8, <3>1, PrivilegedCases DEF Dret
  <2>9. CASE WritePte
    BY <2>0, <2>9 DEF WritePte, SameInts, HartOK, RegsOK, Fields
  <2>10. CASE DebugInt
    BY <2>0, <2>10, EnterDebugKeeps DEF DebugInt
  <2> QED BY <1>1, <2>2, <2>3, <2>4, <2>5, <2>6, <2>7, <2>8, <2>9, <2>10 DEF HartNext
<1>2. ASSUME HartInv, HartNext, hart.prv # "M", ~Device,
             (hart.mip \cap hart.mie) \ DelegableInts # {}
      PROVE  hart'.prv = "M" \/ hart'.pc = "stvec"
  <2>0. HartOK(hart)
    BY <1>2 DEF HartInv
  <2>1. hart.cause = "none"
    BY <1>2, <2>0 DEF HartOK, DebugOK
  <2>2. take_interrupt(hart) # NoTrap
    <3>1. Rank(hart.prv) < 3
      BY <1>2, <2>0 DEF Rank, HartOK, RegsOK
    <3>2. PICK i \in hart.mip \cap hart.mie : i \notin DelegableInts
      BY <1>2
    <3>3. i \notin hart.mideleg
      BY <2>0, <3>2 DEF HartOK, RegsOK
    <3>4. RegsOK(hart)
      BY <2>0 DEF HartOK
    <3> QED BY <3>1, <3>3, <3>4, InterruptChosen
  <2>3. CASE Interrupt
    BY <1>2, <2>1, <2>3, TrapStep DEF Interrupt
  <2>4. CASE DebugInt
    BY <2>0, <2>4, EnterDebugKeeps DEF DebugInt
  <2>5. Interrupt \/ DebugInt
    BY <1>2, <2>2 DEF HartNext, Load, Store, Fetch, Csrw, sfence_vm, WritePte, Mret, Sret,
                     Dret, Ecall, Ebreak, Executes
  <2> QED BY <2>3, <2>4, <2>5
<1>3. ASSUME HartInv, HartNext, hart.prv # "M", Device
      PROVE  hart'.mie = hart.mie
  BY <1>3 DEF HartInv, HartOK, RegsOK, Fields, Device
<1>4. HartInv /\ [HartNext]_hvars => [Keeps]_hvars
  <2>1. HartInv /\ HartNext => Keeps
    BY <1>1, <1>2, <1>3, Zenon
  <2> HIDE DEF Keeps
  <2> QED BY <2>1
<1> QED BY <1>4, HartInvariant, PTL DEF HartSpec, MachineInterruptsKept

-----------------------------------------------------------------------------
(* The page table walk.  What it finds is shown by induction over the      *)
(* levels below: a level at which a statement fails is followed back to    *)
(* the least one.                                                          *)

\* Every set of levels that is not empty has a least one.
LEMMA LeastOne ==
    ASSUME NEW S, S \subseteq Nat, S # {}
    PROVE  \E x \in S : \A y \in S : x <= y
<1>1. PICK x \in S : \A y \in S : ~(<<y, x>> \in OpToRel(<, Nat))
  BY WFMin, NatLessThanWellFounded
<1>2. \A y \in S : ~(y < x)
  BY <1>1 DEF OpToRel
<1> QED BY <1>2

TableOK(tab) == tab \in [DOMAIN tab -> PageTableEntry]
Level == 0 .. LEVELS

\* One step of the walk, when w is the rest of it.
WalkStep(w, h, tab, vpn, type, mode, i, base) ==
    LET a == pte_addr(vpn, i, base)
    IN  IF i = LEVELS \/ a \notin DOMAIN tab THEN Fault
        ELSE IF PTE_TABLE(tab[a]) THEN w[i + 1][tab[a].ppn]
        ELSE IF Permitted(h, tab[a], type, mode)
        THEN [leaf |-> a, page |-> tab[a].ppn + (vpn % Size(i))]
        ELSE Fault

\* The walk is what walk_from says it is: the levels below i decide what it
\* finds from level i on.
LEMMA WalkDefined ==
    ASSUME NEW h, NEW tab, TableOK(tab), NEW vpn, NEW type, NEW mode
    PROVE  LET w == walk_from(h, tab, vpn, type, mode)
           IN  \A i \in Level, base \in Nat :
                 w[i][base] = WalkStep(w, h, tab, vpn, type, mode, i, base)
<1> DEFINE S(w, i, base) == WalkStep(w, h, tab, vpn, type, mode, i, base)
           F(w) == [i \in Level |-> [base \in Nat |-> S(w, i, base)]]
           R(n) == \E w : \A i \in Level, base \in Nat :
                     LEVELS - n <= i => w[i][base] = S(w, i, base)
           B == {n \in Level : ~R(n)}
<1>0. LEVELS \in Nat
  BY HartConstants DEF HartConstants
<1>1. ASSUME NEW v, NEW w, NEW i \in Level, NEW base \in Nat,
             i < LEVELS => \A b \in Nat : v[i + 1][b] = w[i + 1][b]
      PROVE  S(v, i, base) = S(w, i, base)
  <2> DEFINE a == pte_addr(vpn, i, base)
  <2>1. a \in DOMAIN tab => tab[a].ppn \in Nat
    <3> HIDE DEF a
    <3> QED BY DEF TableOK, PageTableEntry
  <2>2. i # LEVELS => i < LEVELS
    BY <1>0 DEF Level
  <2>3. CASE i = LEVELS \/ a \notin DOMAIN tab
    BY <2>3 DEF WalkStep
  <2>4. CASE i # LEVELS /\ a \in DOMAIN tab
    <3>1. v[i + 1][tab[a].ppn] = w[i + 1][tab[a].ppn]
      BY <1>1, <2>1, <2>2, <2>4
    <3> HIDE DEF a
    <3> QED BY <2>4, <3>1 DEF WalkStep, a
  <2> QED BY <2>3, <2>4
<1>2. R(0)
  <2> DEFINE w == [i \in Level |-> [base \in Nat |-> Fault]]
  <2>1. \A i \in Level, base \in Nat : LEVELS - 0 <= i => w[i][base] = S(w, i, base)
    <3> SUFFICES ASSUME NEW i \in Level, NEW base \in Nat, LEVELS <= i
                 PROVE  w[i][base] = S(w, i, base)
      BY <1>0
    <3>1. i = LEVELS /\ w[i][base] = Fault
      BY <1>0 DEF Level
    <3> HIDE DEF w
    <3> QED BY <3>1 DEF WalkStep
  <2> HIDE DEF w, S
  <2> QED BY <2>1
<1>3. ASSUME NEW n \in Level, n < LEVELS, R(n) PROVE R(n + 1)
  <2>1. PICK w : \A i \in Level, base \in Nat :
                   LEVELS - n <= i => w[i][base] = S(w, i, base)
    BY <1>3
  <2> DEFINE k == LEVELS - (n + 1)
             v == [i \in Level |-> [base \in Nat |-> IF i = k THEN S(w, i, base) ELSE w[i][base]]]
  <2>2. \A i \in Level, base \in Nat :
          v[i][base] = IF i = k THEN S(w, i, base) ELSE w[i][base]
    OBVIOUS
  <2>3. k \in Level /\ \A i \in Level : LEVELS - (n + 1) <= i => i = k \/ LEVELS - n <= i
    BY <1>0, <1>3 DEF Level
  <2>4. \A i \in Level : i >= k /\ i < LEVELS => i + 1 \in Level /\ i + 1 # k
    BY <1>0, <2>3 DEF Level
  <2> HIDE DEF v
  <2>5. ASSUME NEW i \in Level, NEW base \in Nat, LEVELS - (n + 1) <= i
        PROVE  v[i][base] = S(v, i, base)
    <3>1. i >= k
      BY <2>5, <1>0, <1>3 DEF Level
    <3> HIDE DEF k
    <3>2. i < LEVELS => \A b \in Nat : v[i + 1][b] = w[i + 1][b]
      <4> HIDE DEF S
      <4> QED BY <2>2, <2>4, <3>1
    <3>3. S(v, i, base) = S(w, i, base)
      BY <1>1, <3>2
    <3> HIDE DEF S
    <3>4. v[i][base] = S(w, i, base)
      BY <2>1, <2>2, <2>3, <2>5
    <3> QED BY <3>3, <3>4
  <2> HIDE DEF S
  <2> QED BY <2>5
<1>4. \A n \in Level : R(n)
  <2> HIDE DEF R
  <2> SUFFICES ASSUME B # {} PROVE FALSE
    OBVIOUS
  <2>1. PICK n \in B : \A m \in B : n <= m
    <3>1. B \subseteq Nat
      BY DEF Level
    <3> HIDE DEF B
    <3> QED BY <3>1, LeastOne
  <2>2. n \in Level /\ ~R(n) /\ n # 0
    BY <1>2, <2>1
  <2>3. n - 1 \in Level /\ n - 1 < LEVELS /\ n - 1 + 1 = n
    BY <1>0, <2>2 DEF Level
  <2>4. n - 1 \notin B
    <3> HIDE DEF B
    <3>1. n \in Nat
      BY <2>2 DEF Level
    <3> QED BY <2>1, <3>1
  <2> DEFINE m == n - 1
  <2>5. m \in Level /\ m < LEVELS /\ m + 1 = n /\ R(m)
    BY <2>3, <2>4
  <2> HIDE DEF m
  <2>6. R(m + 1)
    BY <1>3, <2>5
  <2> QED BY <2>2, <2>5, <2>6
<1>5. PICK u : \A i \in Level, base \in Nat : u[i][base] = S(u, i, base)
  <2>1. R(LEVELS)
    <3> HIDE DEF R
    <3> QED BY <1>0, <1>4 DEF Level
  <2>2. \A i \in Level : LEVELS - LEVELS <= i
    BY <1>0 DEF Level
  <2> HIDE DEF S
  <2> QED BY <2>1, <2>2
<1>6. \E w : w = F(w)
  <2> DEFINE v == F(u)
  <2>1. \A i \in Level, base \in Nat : v[i][base] = S(u, i, base)
    <3> HIDE DEF S
    <3> QED OBVIOUS
  <2>2. \A i \in Level, base \in Nat : S(v, i, base) = S(u, i, base)
    <3> SUFFICES ASSUME NEW i \in Level, NEW base \in Nat
                 PROVE  S(v, i, base) = S(u, i, base)
      OBVIOUS
    <3>1. i < LEVELS => i + 1 \in Level
      BY <1>0 DEF Level
    <3>2. i < LEVELS => \A b \in Nat : v[i + 1][b] = u[i + 1][b]
      <4> HIDE DEF v, S
      <4> QED BY <1>5, <2>1, <3>1
    <3> HIDE DEF v
    <3> QED BY <1>1, <3>2
  <2>3. v = F(v)
    <3> HIDE DEF S
    <3>1. F(v) = [i \in Level |-> [base \in Nat |-> S(v, i, base)]]
      OBVIOUS
    <3>2. v = [i \in Level |-> [base \in Nat |-> S(u, i, base)]]
      OBVIOUS
    <3> HIDE DEF v, F
    <3> QED BY <2>2, <3>1, <3>2
  <2> QED BY <2>3
<1>7. walk_from(h, tab, vpn, type, mode) = F(walk_from(h, tab, vpn, type, mode))
  <2>1. walk_from(h, tab, vpn, type, mode) = CHOOSE w : w = F(w)
    BY DEF walk_from, WalkStep, Level
  <2> HIDE DEF F
  <2> QED BY <1>6, <2>1
<1> DEFINE w == walk_from(h, tab, vpn, type, mode)
<1> HIDE DEF w
<1>8. w = F(w)
  BY <1>7 DEF w
<1> HIDE DEF S
<1>9. \A i \in Level, base \in Nat : w[i][base] = S(w, i, base)
  BY <1>8
<1> QED BY <1>9 DEF w, S

\* Two tables that a walk does not tell apart: but for the accessed and the
\* dirty bits their entries are the same.
AlikeTables(tab, tab2) ==
    /\ DOMAIN tab = DOMAIN tab2
    /\ \A a \in DOMAIN tab :
         /\ tab[a].v = tab2[a].v /\ tab[a].r = tab2[a].r /\ tab[a].w = tab2[a].w
         /\ tab[a].x = tab2[a].x /\ tab[a].u = tab2[a].u /\ tab[a].ppn = tab2[a].ppn

\* The same permissions
AlikeStatus(s, s2) == s.pum = s2.pum /\ s.mxr = s2.mxr

\* Two walks in the same table that both succeed end at the same page, for
\* whatever access; and two of the same access with the same permissions are
\* the same.
LEMMA WalksAgree ==
    ASSUME NEW h, NEW h2, NEW tab, NEW tab2, NEW vpn, NEW type, NEW type2, NEW mode,
           TableOK(tab), TableOK(tab2), AlikeTables(tab, tab2)
    PROVE  LET w == walk_from(h, tab, vpn, type, mode)
               v == walk_from(h2, tab2, vpn, type2, mode)
           IN  \A i \in Level, base \in Nat :
                 /\ \/ w[i][base] = Fault
                    \/ v[i][base] = Fault
                    \/ w[i][base] = v[i][base]
                 /\ type = type2 /\ AlikeStatus(h.mstatus, h2.mstatus)
                      => w[i][base] = v[i][base]
                 /\ w[i][base] = Fault \/ w[i][base].leaf \in DOMAIN tab
<1> DEFINE w == walk_from(h, tab, vpn, type, mode)
           v == walk_from(h2, tab2, vpn, type2, mode)
           same == type = type2 /\ AlikeStatus(h.mstatus, h2.mstatus)
           P(i, base) == /\ w[i][base] = Fault \/ v[i][base] = Fault \/ w[i][base] = v[i][base]
                         /\ same => w[i][base] = v[i][base]
                         /\ w[i][base] = Fault \/ w[i][base].leaf \in DOMAIN tab
           R(n) == \A i \in Level, base \in Nat : LEVELS - n <= i => P(i, base)
           B == {n \in Level : ~R(n)}
<1>0. LEVELS \in Nat
  BY HartConstants DEF HartConstants
<1>1. \A i \in Level, base \in Nat :
        /\ w[i][base] = WalkStep(w, h, tab, vpn, type, mode, i, base)
        /\ v[i][base] = WalkStep(v, h2, tab2, vpn, type2, mode, i, base)
  <2>1. \A i \in Level, base \in Nat : w[i][base] = WalkStep(w, h, tab, vpn, type, mode, i, base)
    BY WalkDefined
  <2>2. \A i \in Level, base \in Nat : v[i][base] = WalkStep(v, h2, tab2, vpn, type2, mode, i, base)
    BY WalkDefined
  <2> HIDE DEF w, v
  <2> QED BY <2>1, <2>2
<1> HIDE DEF w, v
<1>2. ASSUME NEW i \in Level, NEW base \in Nat,
             i < LEVELS => \A b \in Nat : P(i + 1, b)
      PROVE  P(i, base)
  <2> DEFINE a == pte_addr(vpn, i, base)
             e == tab[a]  f == tab2[a]
  <2>1. i # LEVELS => i < LEVELS
    BY <1>0 DEF Level
  <2>2. CASE i = LEVELS \/ a \notin DOMAIN tab
    <3>1. w[i][base] = Fault /\ v[i][base] = Fault
      BY <1>1, <2>2 DEF WalkStep, AlikeTables
    <3> QED BY <3>1
  <2>3. CASE i # LEVELS /\ a \in DOMAIN tab
    <3>1. /\ e.v = f.v /\ e.r = f.r /\ e.w = f.w /\ e.x = f.x /\ e.u = f.u
          /\ e.ppn = f.ppn /\ e.ppn \in Nat /\ a \in DOMAIN tab2
      <4> HIDE DEF a
      <4> QED BY <2>3 DEF AlikeTables, TableOK, PageTableEntry
    <3>2. PTE_TABLE(e) <=> PTE_TABLE(f)
      BY <3>1 DEF PTE_TABLE
    <3>3. same => (Permitted(h, e, type, mode) <=> Permitted(h2, f, type2, mode))
      <4> HIDE DEF e, f
      <4> QED BY <3>1 DEF Permitted, AlikeStatus
    <3>4. CASE PTE_TABLE(e)
      <4>1. w[i][base] = w[i + 1][e.ppn] /\ v[i][base] = v[i + 1][e.ppn]
        <5>1. w[i][base] = w[i + 1][e.ppn]
          BY <1>1, <2>3, <3>4 DEF WalkStep
        <5>2. v[i][base] = v[i + 1][f.ppn]
          BY <1>1, <2>3, <3>1, <3>2, <3>4 DEF WalkStep
        <5> QED BY <3>1, <5>1, <5>2
      <4>2. P(i + 1, e.ppn)
        <5> HIDE DEF P, e, a
        <5> QED BY <1>2, <2>1, <2>3, <3>1
      <4> HIDE DEF e, a, same
      <4> QED BY <4>1, <4>2
    <3>5. CASE ~PTE_TABLE(e)
      <4> DEFINE r == [leaf |-> a, page |-> e.ppn + (vpn % Size(i))]
      <4>1. w[i][base] = IF Permitted(h, e, type, mode) THEN r ELSE Fault
        BY <1>1, <2>3, <3>5 DEF WalkStep
      <4>2. v[i][base] = IF Permitted(h2, f, type2, mode) THEN r ELSE Fault
        <5>1. v[i][base] = IF Permitted(h2, f, type2, mode)
                           THEN [leaf |-> a, page |-> f.ppn + (vpn % Size(i))] ELSE Fault
          BY <1>1, <2>3, <3>1, <3>2, <3>5 DEF WalkStep
        <5> HIDE DEF a
        <5> QED BY <3>1, <5>1
      <4>3. r.leaf = a
        OBVIOUS
      <4> HIDE DEF r, e, f, a, same
      <4> QED BY <2>3, <3>3, <4>1, <4>2, <4>3
    <3> QED BY <3>4, <3>5
  <2> QED BY <2>2, <2>3
<1> HIDE DEF P
<1>3. R(0)
  <2> SUFFICES ASSUME NEW i \in Level, NEW base \in Nat, LEVELS - 0 <= i PROVE P(i, base)
    OBVIOUS
  <2>1. ~(i < LEVELS)
    BY <1>0 DEF Level
  <2> QED BY <1>2, <2>1
<1>4. ASSUME NEW n \in Level, n < LEVELS, R(n) PROVE R(n + 1)
  <2> SUFFICES ASSUME NEW i \in Level, NEW base \in Nat, LEVELS - (n + 1) <= i PROVE P(i, base)
    OBVIOUS
  <2>1. i < LEVELS => i + 1 \in Level /\ LEVELS - n <= i + 1
    BY <1>0, <1>4 DEF Level
  <2> QED BY <1>2, <1>4, <2>1
<1>5. \A n \in Level : R(n)
  <2> HIDE DEF R
  <2> SUFFICES ASSUME B # {} PROVE FALSE
    OBVIOUS
  <2>1. PICK n \in B : \A m \in B : n <= m
    <3>1. B \subseteq Nat
      BY DEF Level
    <3> HIDE DEF B
    <3> QED BY <3>1, LeastOne
  <2>2. n \in Level /\ ~R(n) /\ n # 0
    BY <1>3, <2>1
  <2>3. n - 1 \in Level /\ n - 1 < LEVELS /\ n - 1 + 1 = n
    BY <1>0, <2>2 DEF Level
  <2>4. n - 1 \notin B
    <3> HIDE DEF B
    <3>1. n \in Nat
      BY <2>2 DEF Level
    <3> QED BY <2>1, <3>1
  <2> DEFINE m == n - 1
  <2>5. m \in Level /\ m < LEVELS /\ m + 1 = n /\ R(m)
    BY <2>3, <2>4
  <2> HIDE DEF m
  <2>6. R(m + 1)
    BY <1>4, <2>5
  <2> QED BY <2>2, <2>5, <2>6
<1>6. \A i \in Level, base \in Nat : P(i, base)
  <2>1. R(LEVELS)
    <3> HIDE DEF R
    <3> QED BY <1>0, <1>5 DEF Level
  <2>2. \A i \in Level : LEVELS - LEVELS <= i
    BY <1>0 DEF Level
  <2> QED BY <2>1, <2>2
<1> QED BY <1>6 DEF P, w, v

LEMMA TranslationsAgree ==
    ASSUME NEW h, NEW h2, NEW tab, NEW tab2, NEW vpn, NEW type, NEW type2,
           TableOK(tab), TableOK(tab2), AlikeTables(tab, tab2),
           h.sptbr \in Nat, h2.sptbr = h.sptbr,
           AccessMode(h, type) = AccessMode(h2, type2)
    PROVE  LET r == translate(h, tab, vpn, type)
               q == translate(h2, tab2, vpn, type2)
           IN  /\ r = Fault \/ q = Fault \/ r = q
               /\ type = type2 /\ AlikeStatus(h.mstatus, h2.mstatus) => r = q
               /\ r.leaf # <<>> => r.leaf \in DOMAIN tab
<1> DEFINE mode == AccessMode(h, type)
<1>1. CASE mode = "M"
  BY <1>1 DEF translate
<1>2. CASE mode # "M" /\ ~Canonical(vpn)
  BY <1>2 DEF translate, walk, Fault
<1>3. CASE mode # "M" /\ Canonical(vpn)
  <2> DEFINE w == walk_from(h, tab, vpn, type, mode)
             v == walk_from(h2, tab2, vpn, type2, mode)
             b == h.sptbr
  <2>1. /\ translate(h, tab, vpn, type) = w[0][b]
        /\ translate(h2, tab2, vpn, type2) = v[0][b]
    BY <1>3 DEF translate, walk
  <2>2. 0 \in Level /\ b \in Nat
    BY HartConstants DEF HartConstants, Level
  <2>3. \A i \in Level, base \in Nat :
          /\ w[i][base] = Fault \/ v[i][base] = Fault \/ w[i][base] = v[i][base]
          /\ type = type2 /\ AlikeStatus(h.mstatus, h2.mstatus) => w[i][base] = v[i][base]
          /\ w[i][base] = Fault \/ w[i][base].leaf \in DOMAIN tab
    <3> HIDE DEF mode
    <3> QED BY WalksAgree
  <2> HIDE DEF w, v, b
  <2>4. /\ w[0][b] = Fault \/ v[0][b] = Fault \/ w[0][b] = v[0][b]
        /\ type = type2 /\ AlikeStatus(h.mstatus, h2.mstatus) => w[0][b] = v[0][b]
        /\ w[0][b] = Fault \/ w[0][b].leaf \in DOMAIN tab
    BY <2>2, <2>3
  <2> QED BY <2>1, <2>4 DEF Fault
<1> QED BY <1>1, <1>2, <1>3

-----------------------------------------------------------------------------
(* The TLB.                                                                *)

\* What an access of a page that has an entry finds is what a walk finds.
Right(h, tab, vpn, type) ==
    LET r == translate(h, tab, vpn, type)
    IN  /\ r.page = vpn + h.data[vpn % TLB_ENTRIES]
        /\ r.page \in MemPages
        /\ r.leaf # <<>> => tab[r.leaf].a /\ (type = "STORE" => tab[r.leaf].d)

TlbOK(h, tab, ops) ==
    /\ h.sptbr \in Nat /\ h.stale \in BOOLEAN
    /\ h.data = [i \in Slots |-> h.data[i]]
    /\ "fetch" \notin ops => \A i \in Slots : h.tag["FETCH"][i] = NoTag
    /\ \A type \in Access, vpn \in Vpns :
         ~h.stale /\ h.tag[type][vpn % TLB_ENTRIES] = vpn => Right(h, tab, vpn, type)

TlbInv == TableOK(pt) /\ TlbOK(hart, pt, prog.ops)

\* What decides a translation
SameWay(g, h) ==
    /\ g.sptbr = h.sptbr /\ g.cause = h.cause /\ g.prv = h.prv
    /\ g.mstatus.vm = h.mstatus.vm /\ g.mstatus.mprv = h.mstatus.mprv
    /\ g.mstatus.mpp = h.mstatus.mpp /\ AlikeStatus(g.mstatus, h.mstatus)
SameView(g, h) ==
    /\ SameWay(g, h)
    /\ g.tag = h.tag /\ g.data = h.data /\ g.stale = h.stale
Emptied(g, h) ==
    /\ g.sptbr = h.sptbr /\ g.stale \in BOOLEAN
    /\ g.data = [i \in Slots |-> g.data[i]]
    /\ \A t \in Access, i \in Slots : g.tag[t][i] = NoTag
Settled(g, h) == Emptied(g, h) \/ SameView(g, h)

\* The bits a walk sets
MoreBits(tab, tab2) ==
    /\ AlikeTables(tab, tab2)
    /\ \A a \in DOMAIN tab : /\ tab[a].a => tab2[a].a
                             /\ tab[a].d => tab2[a].d

LEMMA SlotOf == ASSUME NEW vpn \in Vpns
                PROVE  vpn % TLB_ENTRIES \in Slots /\ vpn \in Nat /\ vpn # NoTag
  BY HartConstants DEF HartConstants, Slots, NoTag

LEMMA AlikeSelf == ASSUME NEW tab PROVE AlikeTables(tab, tab) /\ MoreBits(tab, tab)
  BY DEF AlikeTables, MoreBits

LEMMA EmptiedOK ==
    ASSUME NEW g, NEW h, Emptied(g, h), h.sptbr \in Nat, NEW tab, NEW ops
    PROVE  TlbOK(g, tab, ops)
<1>1. \A type \in Access, vpn \in Vpns : g.tag[type][vpn % TLB_ENTRIES] # vpn
  BY SlotOf DEF Emptied
<1>2. "FETCH" \in Access
  BY DEF Access
<1> QED BY <1>1, <1>2 DEF TlbOK, Emptied

\* A TLB that is left alone stays right while nothing it depends on changes.
LEMMA SameViewOK ==
    ASSUME NEW g, NEW h, SameView(g, h), NEW tab, NEW tab2, NEW ops,
           TableOK(tab), TableOK(tab2), MoreBits(tab, tab2), TlbOK(h, tab, ops)
    PROVE  TlbOK(g, tab2, ops)
<1>1. /\ g.sptbr = h.sptbr /\ g.tag = h.tag /\ g.data = h.data /\ g.stale = h.stale
      /\ h.sptbr \in Nat /\ h.stale \in BOOLEAN
      /\ AlikeTables(tab, tab2) /\ AlikeStatus(h.mstatus, g.mstatus)
  BY DEF SameView, SameWay, TlbOK, MoreBits, AlikeStatus
<1>2. ASSUME NEW type \in Access, NEW vpn \in Vpns, Right(h, tab, vpn, type)
      PROVE  Right(g, tab2, vpn, type)
  <2> DEFINE r == translate(h, tab, vpn, type)
             q == translate(g, tab2, vpn, type)
  <2>1. AccessMode(h, type) = AccessMode(g, type)
    BY DEF SameView, SameWay, AccessMode
  <2>2. r = q /\ (r.leaf # <<>> => r.leaf \in DOMAIN tab)
    BY <1>1, <2>1, TranslationsAgree
  <2>3. /\ r.page = vpn + h.data[vpn % TLB_ENTRIES] /\ r.page \in MemPages
        /\ r.leaf # <<>> => tab[r.leaf].a /\ (type = "STORE" => tab[r.leaf].d)
    BY <1>2 DEF Right
  <2> HIDE DEF r, q
  <2>4. q.leaf # <<>> => tab2[q.leaf].a /\ (type = "STORE" => tab2[q.leaf].d)
    BY <2>2, <2>3 DEF MoreBits
  <2> QED BY <1>1, <2>2, <2>3, <2>4 DEF Right, q
<1> QED BY <1>1, <1>2 DEF TlbOK

LEMMA SettledOK ==
    ASSUME NEW g, NEW h, Settled(g, h), NEW tab, TableOK(tab), NEW ops, TlbOK(h, tab, ops)
    PROVE  TlbOK(g, tab, ops)
<1>1. h.sptbr \in Nat
  BY DEF TlbOK
<1> QED BY <1>1, EmptiedOK, SameViewOK, AlikeSelf DEF Settled

\* The walk's bits are set where it ended.
LEMMA BitsSet ==
    ASSUME NEW tab, TableOK(tab), NEW r, r.leaf # <<>> => r.leaf \in DOMAIN tab, NEW type
    PROVE  LET tab2 == SetBits(tab, r, type)
           IN  /\ TableOK(tab2) /\ MoreBits(tab, tab2)
               /\ r.leaf # <<>> => tab2[r.leaf].a /\ (type = "STORE" => tab2[r.leaf].d)
<1> DEFINE tab2 == SetBits(tab, r, type)  l == r.leaf
<1>1. CASE l = <<>>
  <2>1. tab2 = tab
    BY <1>1 DEF SetBits
  <2> HIDE DEF tab2
  <2> QED BY <1>1, <2>1, AlikeSelf DEF tab2
<1>2. CASE l # <<>>
  <2> DEFINE e == [tab[l] EXCEPT !.a = TRUE]
             f == [e EXCEPT !.d = @ \/ type = "STORE"]
  <2>0. l \in DOMAIN tab /\ tab[l] \in PageTableEntry
    BY <1>2 DEF TableOK
  <2>1. /\ f \in PageTableEntry /\ f.a /\ (tab[l].d => f.d) /\ (type = "STORE" => f.d)
        /\ f.v = tab[l].v /\ f.r = tab[l].r /\ f.w = tab[l].w /\ f.x = tab[l].x
        /\ f.u = tab[l].u /\ f.ppn = tab[l].ppn
    <3> DEFINE b == type = "STORE"
    <3>1. b \in BOOLEAN
      OBVIOUS
    <3> HIDE DEF b
    <3>2. e \in PageTableEntry /\ e.a /\ e.d = tab[l].d
          /\ e.v = tab[l].v /\ e.r = tab[l].r /\ e.w = tab[l].w /\ e.x = tab[l].x
          /\ e.u = tab[l].u /\ e.ppn = tab[l].ppn
      BY <2>0 DEF PageTableEntry
    <3> HIDE DEF e
    <3>3. f = [e EXCEPT !.d = e.d \/ b]
      BY DEF b
    <3> HIDE DEF f
    <3>4. e.d \/ b \in BOOLEAN
      BY <3>1, <3>2 DEF PageTableEntry
    <3>5. /\ f \in PageTableEntry /\ f.d = (e.d \/ b) /\ f.a = e.a
          /\ f.v = e.v /\ f.r = e.r /\ f.w = e.w /\ f.x = e.x /\ f.u = e.u /\ f.ppn = e.ppn
      BY <3>2, <3>3, <3>4 DEF PageTableEntry
    <3> QED BY <3>2, <3>5 DEF b
  <2>2. tab2 = [tab EXCEPT ![l] = f]
    <3>1. tab2 = [tab EXCEPT ![l].a = TRUE, ![l].d = @ \/ type = "STORE"]
      BY <1>2 DEF SetBits
    <3> HIDE DEF tab2
    <3> QED BY <2>0, <3>1 DEF TableOK
  <2> HIDE DEF tab2, f, e
  <2>3. DOMAIN tab2 = DOMAIN tab /\ \A a \in DOMAIN tab : tab2[a] = IF a = l THEN f ELSE tab[a]
    BY <2>0, <2>2
  <2>4. tab2 = [a \in DOMAIN tab |-> tab2[a]]
    BY <2>2, <2>3 DEF TableOK
  <2>5. TableOK(tab2)
    <3>1. \A a \in DOMAIN tab : tab2[a] \in PageTableEntry
      BY <2>1, <2>3 DEF TableOK
    <3> QED BY <2>3, <2>4, <3>1 DEF TableOK
  <2>6. MoreBits(tab, tab2)
    BY <2>1, <2>3 DEF MoreBits, AlikeTables
  <2> QED BY <2>0, <2>1, <2>3, <2>5, <2>6 DEF tab2
<1> QED BY <1>1, <1>2

\* While fetches and data accesses are translated in the same mode, an entry
\* may be shared among the three kinds of access.
SameMode(h, ops) == "fetch" \in ops => AccessMode(h, "FETCH") = AccessMode(h, "LOAD")

\* A refill is right for its own access, and for those whose entry it leaves:
\* their walks ended at the same page.
LEMMA RefillOK ==
    ASSUME NEW h, HartOK(h), NEW tab, TableOK(tab), NEW ops, TlbOK(h, tab, ops),
           SameMode(h, ops), NEW vpn \in Vpns, NEW type \in Access,
           type = "FETCH" => "fetch" \in ops,
           NEW r, r = translate(h, tab, vpn, type), r.page \in MemPages,
           r.leaf # <<>> => tab[r.leaf].a /\ (type = "STORE" => tab[r.leaf].d)
    PROVE  TlbOK(refill_tlb(h, vpn, r.page, type), tab, ops)
<1> DEFINE i == vpn % TLB_ENTRIES
           p == r.page
           g == refill_tlb(h, vpn, p, type)
           tag == [t \in Access |->
                     [h.tag[t] EXCEPT ![i] = IF t = type \/ @ = vpn THEN vpn ELSE NoTag]]
           check == [t \in Access |->
                       [h.check[t] EXCEPT ![i] = IF t = type THEN h.check_triggers[type]
                                                 ELSE @ /\ h.tag[t][i] = vpn]]
<1>1. i \in Slots /\ vpn \in Nat /\ vpn # NoTag /\ p \in Nat
  BY SlotOf, HartConstants DEF HartConstants
<1>2. g = [h EXCEPT !.tag = tag, !.check = check, !.data[i] = p - vpn]
  BY Zenon DEF refill_tlb
<1>3. DOMAIN h = Fields /\ h.tag \in [Access -> [Slots -> Int]]
  BY DEF HartOK, RegsOK, TriggersOK
<1> HIDE DEF g, check
<1>4. /\ g.tag = tag /\ SameWay(g, h) /\ g.stale = h.stale
      /\ g.data = [h.data EXCEPT ![i] = p - vpn]
  <2> HIDE DEF tag, i
  <2> QED BY <1>2, <1>3 DEF Fields, SameWay, AlikeStatus
<1>5. \A t \in Access, k \in Slots :
        g.tag[t][k] = IF k # i THEN h.tag[t][k]
                      ELSE IF t = type \/ h.tag[t][i] = vpn THEN vpn ELSE NoTag
  <2> HIDE DEF i
  <2> QED BY <1>1, <1>3, <1>4
<1> HIDE DEF tag
<1>6. /\ g.data = [k \in Slots |-> g.data[k]]
      /\ \A k \in Slots : g.data[k] = IF k = i THEN p - vpn ELSE h.data[k]
  <2>1. h.data = [k \in Slots |-> h.data[k]]
    BY DEF TlbOK
  <2> HIDE DEF i
  <2> QED BY <1>1, <1>4, <2>1
<1>7. ASSUME NEW t \in Access, NEW n \in Vpns,
             ~g.stale, g.tag[t][n % TLB_ENTRIES] = n
      PROVE  Right(g, tab, n, t)
  <2> DEFINE k == n % TLB_ENTRIES
             q == translate(g, tab, n, t)
             old == translate(h, tab, n, t)
  <2>0. k \in Slots /\ n \in Nat /\ n # NoTag
    BY SlotOf
  <2>1. AccessMode(g, t) = AccessMode(h, t)
    BY <1>4 DEF SameWay, AccessMode
  <2>2. q = old
    <3>1. /\ h.sptbr \in Nat /\ g.sptbr = h.sptbr /\ AlikeTables(tab, tab)
          /\ AlikeStatus(h.mstatus, g.mstatus)
      BY <1>4, AlikeSelf DEF TlbOK, SameWay, AlikeStatus
    <3> QED BY <2>1, <3>1, TranslationsAgree
  <2>3. CASE k # i
    <3>1. h.tag[t][k] = n /\ ~h.stale
      BY <1>4, <1>5, <1>7, <2>0, <2>3
    <3>2. Right(h, tab, n, t)
      BY <3>1 DEF TlbOK
    <3>3. g.data[k] = h.data[k]
      BY <1>6, <2>0, <2>3
    <3> HIDE DEF q, old, i
    <3>4. /\ old.page = n + h.data[k] /\ old.page \in MemPages
          /\ old.leaf # <<>> => tab[old.leaf].a /\ (t = "STORE" => tab[old.leaf].d)
      BY <3>2 DEF Right, old
    <3> QED BY <2>2, <3>3, <3>4 DEF Right, q
  <2>4. CASE k = i
    <3>1. n = vpn /\ (t = type \/ h.tag[t][i] = vpn)
      BY <1>5, <1>7, <2>0, <2>4
    <3>2. vpn + g.data[i] = p
      BY <1>1, <1>6
    <3>3. CASE t = type
      <4>1. q = r
        BY <2>2, <3>1, <3>3
      <4> HIDE DEF q, old
      <4> QED BY <3>1, <3>2, <3>3, <4>1 DEF Right, q
    <3>4. CASE t # type /\ h.tag[t][i] = vpn
      <4>1. Right(h, tab, vpn, t)
        <5>1. ~h.stale
          BY <1>4, <1>7
        <5> QED BY <3>4, <5>1 DEF TlbOK
      <4>2. t = "FETCH" => "fetch" \in ops
        BY <1>1, <3>4 DEF TlbOK
      <4>3. AccessMode(h, t) = AccessMode(h, type)
        <5>1. AccessMode(h, "LOAD") = AccessMode(h, "STORE")
          BY DEF AccessMode
        <5> QED BY <4>2, <5>1 DEF SameMode, Access
      <4>4. r = Fault \/ old = Fault \/ r = old
        <5>1. /\ h.sptbr \in Nat /\ AlikeTables(tab, tab)
          BY AlikeSelf DEF TlbOK
        <5> QED BY <3>1, <4>3, <5>1, TranslationsAgree
      <4>5. r # Fault /\ old # Fault
        <5>1. old.page \in MemPages
          BY <3>1, <4>1 DEF Right
        <5> HIDE DEF old
        <5> QED BY <5>1, HartConstants DEF HartConstants, Fault
      <4>6. q = r
        BY <2>2, <4>4, <4>5
      <4>7. old.leaf # <<>> => tab[old.leaf].a /\ (t = "STORE" => tab[old.leaf].d)
        BY <3>1, <4>1 DEF Right
      <4> HIDE DEF q, old
      <4> QED BY <2>2, <3>1, <3>2, <4>6, <4>7 DEF Right, q
    <3> QED BY <3>1, <3>3, <3>4
  <2> QED BY <2>3, <2>4
<1>8. "fetch" \notin ops => \A k \in Slots : g.tag["FETCH"][k] = NoTag
  <2> SUFFICES ASSUME "fetch" \notin ops, NEW k \in Slots PROVE g.tag["FETCH"][k] = NoTag
    OBVIOUS
  <2>1. type # "FETCH" /\ \A j \in Slots : h.tag["FETCH"][j] = NoTag
    BY DEF TlbOK
  <2> HIDE DEF i
  <2> QED BY <1>1, <1>5, <2>1 DEF Access
<1>9. g.sptbr \in Nat /\ g.stale \in BOOLEAN
  BY <1>4 DEF TlbOK, SameWay
<1> QED BY <1>6, <1>7, <1>8, <1>9 DEF TlbOK, g

-----------------------------------------------------------------------------
(* The functions of a step empty the TLB or leave what it depends on.      *)

LEMMA FlushEmpties ==
    ASSUME NEW h, DOMAIN h = Fields
    PROVE  Emptied(flush_tlb(h), h) /\ DOMAIN flush_tlb(h) = Fields
<1> DEFINE g == flush_tlb(h)
<1>1. /\ DOMAIN g = Fields /\ g.sptbr = h.sptbr /\ g.stale = FALSE
      /\ g.data = [i \in Slots |-> 0]
      /\ g.tag = [t \in Access |-> [i \in Slots |-> NoTag]]
  BY DEF Fields, flush_tlb, Slots
<1> HIDE DEF g
<1>2. /\ g.data = [i \in Slots |-> g.data[i]]
      /\ \A t \in Access, i \in Slots : g.tag[t][i] = NoTag
  BY <1>1
<1>3. Emptied(g, h)
  BY <1>1, <1>2 DEF Emptied
<1> QED BY <1>1, <1>3 DEF g

LEMMA PrivilegeEmpties ==
    ASSUME NEW h, DOMAIN h = Fields, NEW prv
    PROVE  Emptied(set_privilege(h, prv), h) /\ DOMAIN set_privilege(h, prv) = Fields
<1> DEFINE f == flush_tlb(h)
           g == [f EXCEPT !.prv = IF prv = "H" THEN "U" ELSE prv]
<1>1. Emptied(f, h) /\ DOMAIN f = Fields
  BY FlushEmpties
<1> HIDE DEF f
<1>2. DOMAIN g = Fields /\ g.sptbr = f.sptbr /\ g.stale = f.stale /\ g.data = f.data /\ g.tag = f.tag
  BY <1>1 DEF Fields
<1> HIDE DEF g
<1>3. Emptied(g, h) /\ DOMAIN g = Fields
  BY <1>1, <1>2 DEF Emptied
<1> QED BY <1>3 DEF g, f, set_privilege

\* A write of mstatus flushes if it changes a translation.
LEMMA StatusSettles ==
    ASSUME NEW h, DOMAIN h = Fields, NEW val
    PROVE  LET g == set_mstatus(h, val)
           IN  /\ Settled(g, h) /\ DOMAIN g = Fields
               /\ Emptied(h, h) => Emptied(g, h)
<1> DEFINE s == h.mstatus
           c == /\ val.vm = s.vm /\ val.mpp = s.mpp /\ val.mprv = s.mprv
                /\ val.pum = s.pum /\ val.mxr = s.mxr
           f == IF c THEN h ELSE flush_tlb(h)
           g == [f EXCEPT !.mstatus = val]
<1>1. set_mstatus(h, val) = g
  BY DEF set_mstatus
<1>2. DOMAIN f = Fields /\ (c => f = h) /\ (~c => Emptied(f, h))
  BY FlushEmpties
<1> HIDE DEF f
<1>3. /\ DOMAIN g = Fields /\ g.mstatus = val /\ g.sptbr = f.sptbr /\ g.stale = f.stale
      /\ g.data = f.data /\ g.tag = f.tag /\ g.cause = f.cause /\ g.prv = f.prv
  BY <1>2 DEF Fields
<1> HIDE DEF g
<1>4. CASE c
  <2>1. SameView(g, h)
    BY <1>2, <1>3, <1>4 DEF SameView, SameWay, AlikeStatus
  <2>2. Emptied(h, h) => Emptied(g, h)
    BY <1>2, <1>3, <1>4 DEF Emptied
  <2> QED BY <1>1, <1>3, <2>1, <2>2 DEF Settled
<1>5. CASE ~c
  <2>1. Emptied(g, h)
    BY <1>2, <1>3, <1>5 DEF Emptied
  <2> QED BY <1>1, <1>3, <2>1 DEF Settled
<1> QED BY <1>4, <1>5

\* What is emptied on the way stays so.
LEMMA EmptiedThrough ==
    ASSUME NEW g, NEW f, NEW h, f.sptbr = h.sptbr,
           Emptied(g, f)
    PROVE  Emptied(g, h)
  BY DEF Emptied

LEMMA EnterDebugSettles ==
    ASSUME NEW h, DOMAIN h = Fields, NEW cause
    PROVE  Settled(enter_debug_mode(h, cause), h)
<1> DEFINE e == [h EXCEPT !.cause = cause, !.dprv = h.prv]
           f == set_privilege(e, "M")
           g == [f EXCEPT !.pc = "rom"]
<1>1. DOMAIN e = Fields /\ e.sptbr = h.sptbr
  BY DEF Fields
<1> HIDE DEF e
<1>2. Emptied(f, h) /\ DOMAIN f = Fields
  BY <1>1, PrivilegeEmpties, EmptiedThrough
<1> HIDE DEF f
<1>3. g.sptbr = f.sptbr /\ g.stale = f.stale /\ g.data = f.data /\ g.tag = f.tag
  BY <1>2 DEF Fields
<1> HIDE DEF g
<1>4. Emptied(g, h)
  BY <1>2, <1>3 DEF Emptied
<1> QED BY <1>4 DEF g, f, e, enter_debug_mode, Settled

LEMMA TrapSettles ==
    ASSUME NEW h, DOMAIN h = Fields, NEW cause
    PROVE  Settled(take_trap(h, cause), h)
<1>1. CASE ToDebugger(h, cause)
  BY <1>1, EnterDebugSettles DEF take_trap
<1>2. CASE ~ToDebugger(h, cause) /\ h.cause # "none"
  <2> DEFINE g == [h EXCEPT !.pc = "rom exception"]
  <2>1. take_trap(h, cause) = g
    BY <1>2 DEF take_trap
  <2>2. SameView(g, h)
    BY DEF Fields, SameView, SameWay, AlikeStatus
  <2> QED BY <2>1, <2>2 DEF Settled
<1>3. CASE ~ToDebugger(h, cause) /\ h.cause = "none"
  <2>1. ASSUME NEW pc, NEW s, NEW m
        PROVE  Emptied(set_privilege(set_mstatus([h EXCEPT !.pc = pc], s), m), h)
    <3> DEFINE e == [h EXCEPT !.pc = pc]
               f == set_mstatus(e, s)
    <3>1. DOMAIN e = Fields /\ e.sptbr = h.sptbr
      BY DEF Fields
    <3> HIDE DEF e
    <3>2. DOMAIN f = Fields /\ f.sptbr = e.sptbr
      BY <3>1, StatusSettles DEF Settled, Emptied, SameView, SameWay
    <3> HIDE DEF f
    <3>3. Emptied(set_privilege(f, m), h)
      BY <3>1, <3>2, PrivilegeEmpties, EmptiedThrough
    <3> QED BY <3>3 DEF f, e
  <2>2. CASE ToS(h, cause)
    <3> DEFINE s == [h.mstatus EXCEPT !.spie = IE(h.mstatus, h.prv),
                                      !.spp = h.prv, !.sie = FALSE]
    <3>1. take_trap(h, cause) = set_privilege(set_mstatus([h EXCEPT !.pc = "stvec"], s), "S")
      BY <1>3, <2>2 DEF take_trap
    <3> HIDE DEF s
    <3> QED BY <2>1, <3>1 DEF Settled
  <2>3. CASE ~ToS(h, cause)
    <3> DEFINE s == [h.mstatus EXCEPT !.mpie = IE(h.mstatus, h.prv),
                                      !.mpp = h.prv, !.mie = FALSE]
    <3>1. take_trap(h, cause) = set_privilege(set_mstatus([h EXCEPT !.pc = "mtvec"], s), "M")
      BY <1>3, <2>3 DEF take_trap
    <3> HIDE DEF s
    <3> QED BY <2>1, <3>1 DEF Settled
  <2> QED BY <2>2, <2>3
<1> QED BY <1>1, <1>2, <1>3

\* A return changes the privilege first, which flushes, then mstatus.
LEMMA ReturnSettles ==
    ASSUME NEW h, DOMAIN h = Fields, NEW prv, NEW val
    PROVE  Settled(set_mstatus(set_privilege(h, prv), val), h)
<1> DEFINE f == set_privilege(h, prv)
<1>1. Emptied(f, h) /\ DOMAIN f = Fields
  BY PrivilegeEmpties
<1> HIDE DEF f
<1>2. f.sptbr = h.sptbr /\ Emptied(f, f)
  BY <1>1 DEF Emptied
<1>3. Emptied(set_mstatus(f, val), h)
  BY <1>1, <1>2, StatusSettles, EmptiedThrough
<1> QED BY <1>3 DEF f, Settled

LEMMA DretSettles ==
    ASSUME NEW h, DOMAIN h = Fields
    PROVE  Settled(dret(h), h)
<1> DEFINE f == set_privilege(h, h.dprv)
           g == [f EXCEPT !.cause = "none", !.pc = "program"]
<1>1. Emptied(f, h) /\ DOMAIN f = Fields
  BY PrivilegeEmpties
<1> HIDE DEF f
<1>2. g.sptbr = f.sptbr /\ g.stale = f.stale /\ g.data = f.data /\ g.tag = f.tag
  BY <1>1 DEF Fields
<1> HIDE DEF g
<1>3. Emptied(g, h)
  BY <1>1, <1>2 DEF Emptied
<1> QED BY <1>3 DEF g, f, dret, Settled

\* A write of a CSR, but for sptbr, which leaves what is cached out of date
\* until sfence.vm.
LEMMA CsrTlb ==
    ASSUME NEW h, HartOK(h), NEW which, NEW val, CsrValue(which, val),
           NEW tab, TableOK(tab), NEW ops, TlbOK(h, tab, ops)
    PROVE  TlbOK(set_csr(h, which, val), tab, ops)
<1> DEFINE g == set_csr(h, which, val)
<1>0. DOMAIN h = Fields
  BY DEF HartOK, RegsOK
<1>1. CASE which \in {"mstatus", "sstatus"}
  <2>1. \E v : g = set_mstatus(h, v)
    <3>1. CASE which = "mstatus"
      BY <3>1 DEF set_csr
    <3>2. CASE which = "sstatus"
      <4> DEFINE v == [h.mstatus EXCEPT !.sie = val.sie, !.spie = val.spie,
                                        !.spp = val.spp, !.pum = val.pum]
      <4>1. g = set_mstatus(h, v)
        BY <3>2 DEF set_csr
      <4> QED BY <4>1
    <3> QED BY <1>1, <3>1, <3>2
  <2> HIDE DEF g
  <2>2. Settled(g, h)
    BY <1>0, <2>1, StatusSettles
  <2> QED BY <2>2, SettledOK DEF g
<1>2. CASE which = "sptbr"
  <2>1. g = [h EXCEPT !.sptbr = val, !.stale = TRUE] /\ val \in Nat
    BY <1>2, HartConstants DEF set_csr, CsrValue, HartConstants
  <2> HIDE DEF g
  <2>2. g.sptbr = val /\ g.stale = TRUE /\ g.tag = h.tag /\ g.data = h.data
    BY <1>0, <2>1 DEF Fields
  <2>3. TlbOK(g, tab, ops)
    BY <2>1, <2>2 DEF TlbOK
  <2> QED BY <2>3 DEF g
<1>3. CASE which = "tdata1"
  <2> DEFINE locked == h.mcontrol[h.tselect].dmode /\ h.cause = "none"
             e == [h EXCEPT !.mcontrol[h.tselect] = val]
             f == flush_tlb(e)
             k == [f EXCEPT !.check_triggers =
                     [t \in Access |-> \E i \in 0 .. NTRIGGERS - 1 : t \in e.mcontrol[i].kinds]]
  <2>1. g = IF locked THEN h ELSE k
    BY <1>3 DEF set_csr, trigger_updated
  <2>2. DOMAIN e = Fields /\ e.sptbr = h.sptbr
    BY <1>0 DEF Fields
  <2> HIDE DEF e, g, locked
  <2>3. Emptied(f, h) /\ DOMAIN f = Fields
    BY <2>2, FlushEmpties, EmptiedThrough
  <2> HIDE DEF f
  <2>4. k.sptbr = f.sptbr /\ k.stale = f.stale /\ k.data = f.data /\ k.tag = f.tag
    BY <2>3 DEF Fields
  <2> HIDE DEF k
  <2>5. Emptied(k, h)
    BY <2>3, <2>4 DEF Emptied
  <2>6. TlbOK(g, tab, ops)
    BY <2>1, <2>5, SettledOK DEF Settled
  <2> QED BY <2>6 DEF g
<1>4. CASE which \notin {"mstatus", "sstatus", "sptbr", "tdata1"}
  <2>1. AllBut({"mip", "mie", "mideleg", "medeleg", "tselect", "tdata2", "ebreak", "dprv"}, g, h)
    <3>1. CASE which = "mip"
      BY <1>0, <3>1 DEF set_csr, AllBut, Fields
    <3>2. CASE which = "sip"
      BY <1>0, <3>2 DEF set_csr, AllBut, Fields
    <3>3. CASE which = "mie"
      BY <1>0, <3>3 DEF set_csr, AllBut, Fields
    <3>4. CASE which = "sie"
      BY <1>0, <3>4 DEF set_csr, AllBut, Fields
    <3>5. CASE which = "mideleg"
      BY <1>0, <3>5 DEF set_csr, AllBut, Fields
    <3>6. CASE which = "medeleg"
      BY <1>0, <3>6 DEF set_csr, AllBut, Fields
    <3>7. CASE which = "tselect"
      <4>1. g = IF val < NTRIGGERS THEN [h EXCEPT !.tselect = val] ELSE h
        BY <3>7 DEF set_csr
      <4> HIDE DEF g
      <4> QED BY <1>0, <4>1 DEF AllBut, Fields
    <3>8. CASE which = "tdata2"
      <4> DEFINE locked == h.mcontrol[h.tselect].dmode /\ h.cause = "none"
      <4>1. g = IF locked THEN h ELSE [h EXCEPT !.tdata2[h.tselect] = val]
        BY <3>8 DEF set_csr
      <4> HIDE DEF g, locked
      <4> QED BY <1>0, <4>1 DEF AllBut, Fields
    <3>9. CASE which \notin {"mip", "sip", "mie", "sie", "mideleg", "medeleg", "tselect", "tdata2"}
      <4>1. g = [h EXCEPT !.ebreak = val.ebreak, !.dprv = val.prv]
        BY <1>4, <3>9 DEF set_csr
      <4> HIDE DEF g
      <4> QED BY <1>0, <4>1 DEF AllBut, Fields
    <3> QED BY <3>1, <3>2, <3>3, <3>4, <3>5, <3>6, <3>7, <3>8, <3>9
  <2> HIDE DEF g
  <2>2. SameView(g, h)
    BY <2>1 DEF AllBut, Fields, SameView, SameWay, AlikeStatus
  <2>3. TlbOK(g, tab, ops)
    BY <2>2, SettledOK DEF Settled
  <2> QED BY <2>3 DEF g
<1> QED BY <1>1, <1>2, <1>3, <1>4

\* The hart fetches its program in the mode it accesses data in.
FetchesAsItLoads == SameMode(hart, prog.ops)

LEMMA TlbStays ==
    ASSUME HartInv, TlbInv, pt' = pt, prog' = prog, Settled(hart', hart)
    PROVE  TlbInv'
<1>1. TlbOK(hart', pt, prog.ops)
  BY SettledOK DEF TlbInv
<1> DEFINE g == hart'  tab == pt'  ops == prog'.ops
<1>2. TlbOK(g, pt, prog.ops) /\ tab = pt /\ ops = prog.ops /\ TableOK(tab)
  BY <1>1 DEF TlbInv
<1> HIDE DEF g, tab, ops
<1>3. TlbOK(g, tab, ops) /\ TableOK(tab)
  BY <1>2
<1> QED BY <1>3 DEF TlbInv, g, tab, ops

LEMMA DataTlb ==
    ASSUME HartInv, TlbInv, FetchesAsItLoads, NEW vpn \in Vpns, NEW type \in Access,
           type = "FETCH" => "fetch" \in prog.ops, Data(vpn, type)
    PROVE  TlbInv'
<1>0. /\ HartOK(hart) /\ DOMAIN hart = Fields
      /\ TableOK(pt) /\ TlbOK(hart, pt, prog.ops)
  BY DEF HartInv, HartOK, RegsOK, TlbInv
<1> DEFINE hit == Cached(hart, vpn, type) # -1
           r == translate(hart, pt, vpn, type)
           t == trigger_match(hart, type, vpn)
           g == hart'  tab == pt'  ops == prog'.ops
<1>1. prog' = prog /\ ops = prog.ops
  BY DEF Data
<1>2. CASE Trap(type) /\ pt' = pt
  BY <1>0, <1>1, <1>2, TlbStays, TrapSettles DEF Trap
<1>3. CASE pt' = IF hit THEN pt ELSE SetBits(pt, r, type)
  <2>1. r.leaf # <<>> => r.leaf \in DOMAIN pt
    BY <1>0, AlikeSelf, TranslationsAgree DEF TlbOK
  <2>2. /\ TableOK(tab) /\ MoreBits(pt, tab)
        /\ ~hit /\ r.leaf # <<>> => tab[r.leaf].a /\ (type = "STORE" => tab[r.leaf].d)
    <3>1. CASE hit
      <4>1. tab = pt
        BY <1>3, <3>1
      <4> HIDE DEF tab, hit
      <4> QED BY <1>0, <3>1, <4>1, AlikeSelf
    <3>2. CASE ~hit
      <4>1. tab = SetBits(pt, r, type)
        BY <1>3, <3>2
      <4> HIDE DEF tab, hit, r
      <4> QED BY <1>0, <2>1, <4>1, BitsSet
    <3> QED BY <3>1, <3>2
  <2>3. TlbOK(hart, tab, ops)
    <3>1. SameView(hart, hart)
      BY DEF SameView, SameWay, AlikeStatus
    <3> HIDE DEF tab, ops
    <3> QED BY <1>0, <1>1, <2>2, <3>1, SameViewOK
  <2>4. CASE Fires(t)
    <3>1. Settled(g, hart)
      <4>1. CASE Trap("break")
        BY <1>0, <4>1, TrapSettles DEF Trap
      <4>2. CASE hart' = enter_debug_mode(hart, "hwbp")
        BY <1>0, <4>2, EnterDebugSettles
      <4> QED BY <2>4, <4>1, <4>2 DEF Fires
    <3> HIDE DEF g, tab, ops
    <3>2. TlbOK(g, tab, ops)
      BY <2>2, <2>3, <3>1, SettledOK
    <3> QED BY <2>2, <3>2 DEF TlbInv, g, tab, ops
  <2>5. CASE g = IF hit \/ r.page \notin MemPages THEN hart
                 ELSE refill_tlb(hart, vpn, r.page, type)
    <3>1. CASE g = hart
      <4> HIDE DEF g, tab, ops
      <4>1. TlbOK(g, tab, ops)
        BY <2>3, <3>1
      <4> QED BY <2>2, <4>1 DEF TlbInv, g, tab, ops
    <3>2. CASE ~hit /\ r.page \in MemPages /\ g = refill_tlb(hart, vpn, r.page, type)
      <4> DEFINE q == translate(hart, tab, vpn, type)
      <4>1. q = r
        <5>1. AlikeTables(pt, tab) /\ hart.sptbr \in Nat /\ TableOK(pt) /\ TableOK(tab)
              /\ AlikeStatus(hart.mstatus, hart.mstatus)
          BY <1>0, <2>2 DEF MoreBits, TlbOK, AlikeStatus
        <5> HIDE DEF tab
        <5> QED BY <5>1, TranslationsAgree
      <4>2. SameMode(hart, ops) /\ (type = "FETCH" => "fetch" \in ops)
        BY <1>1 DEF FetchesAsItLoads
      <4> HIDE DEF r, hit, q, g, tab, ops
      <4>3. TlbOK(refill_tlb(hart, vpn, q.page, type), tab, ops)
        <5>1. q.page \in MemPages /\ q = translate(hart, tab, vpn, type)
              /\ (q.leaf # <<>> => tab[q.leaf].a /\ (type = "STORE" => tab[q.leaf].d))
          BY <2>2, <3>2, <4>1 DEF q
        <5> QED BY <1>0, <2>2, <2>3, <4>2, <5>1, RefillOK
      <4>4. TlbOK(g, tab, ops)
        BY <3>2, <4>1, <4>3
      <4> QED BY <2>2, <4>4 DEF TlbInv, g, tab, ops
    <3> QED BY <2>5, <3>1, <3>2
  <2> HIDE DEF t, hit, r
  <2> QED BY <1>2, <2>4, <2>5 DEF Data, t, hit, r, g
<1> HIDE DEF t, hit, r
<1> QED BY <1>2, <1>3 DEF Data, t, hit, r

LEMMA PrivilegedTlb ==
    ASSUME HartInv, TlbInv, NEW prv, NEW h, NEW b, Privileged(prv, h, b),
           TlbOK(h, pt, prog.ops)
    PROVE  TlbInv'
<1>0. DOMAIN hart = Fields /\ pt' = pt /\ prog' = prog
  BY DEF HartInv, HartOK, RegsOK, Privileged
<1>1. CASE Trap("illegal")
  BY <1>0, <1>1, TlbStays, TrapSettles DEF Trap
<1>2. CASE hart' = h
  <2> DEFINE g == hart'  tab == pt'  ops == prog'.ops
  <2>1. g = h /\ tab = pt /\ ops = prog.ops /\ TableOK(pt)
    BY <1>0, <1>2 DEF TlbInv
  <2> HIDE DEF g, tab, ops
  <2>2. TlbOK(g, tab, ops) /\ TableOK(tab)
    BY <2>1
  <2> QED BY <2>2 DEF TlbInv, g, tab, ops
<1> QED BY <1>1, <1>2 DEF Privileged

LEMMA NextTlb ==
    ASSUME HartInv, TlbInv, FetchesAsItLoads, HartNext
    PROVE  TlbInv'
<1>0. /\ HartOK(hart) /\ DOMAIN hart = Fields
      /\ TableOK(pt) /\ TlbOK(hart, pt, prog.ops)
  BY DEF HartInv, HartOK, RegsOK, TlbInv
<1>1. CASE Interrupt
  BY <1>0, <1>1, TlbStays, TrapSettles DEF Interrupt, Trap
<1>2. CASE Load
  BY <1>2, DataTlb, ProgramTyped DEF Load, Access
<1>3. CASE Store
  BY <1>3, DataTlb, ProgramTyped DEF Store, Access
<1>4. CASE Fetch
  BY <1>4, DataTlb, ProgramTyped DEF Fetch, Executes, Access
<1>5. CASE Csrw
  <2>1. PICK w \in prog.csrw :
          Privileged(CsrPriv(w[1]), set_csr(hart, w[1], w[2]), Closed(w[1]))
    BY <1>5 DEF Csrw
  <2>2. CsrValue(w[1], w[2])
    BY ProgramTyped
  <2>3. TlbOK(set_csr(hart, w[1], w[2]), pt, prog.ops)
    BY <1>0, <2>2, CsrTlb
  <2> QED BY <2>1, <2>3, PrivilegedTlb
<1>6. CASE sfence_vm \/ Mret \/ Sret \/ Dret
  <2>1. PICK prv, h, b : /\ Privileged(prv, h, b)
                         /\ h \in {flush_tlb(hart), mret(hart), sret(hart), dret(hart)}
    <3>1. CASE sfence_vm
      BY <3>1 DEF sfence_vm
    <3>2. CASE Mret
      BY <3>2 DEF Mret
    <3>3. CASE Sret
      BY <3>3 DEF Sret
    <3>4. CASE Dret
      BY <3>4 DEF Dret
    <3> QED BY <1>6, <3>1, <3>2, <3>3, <3>4
  <2>2. Settled(flush_tlb(hart), hart)
    BY <1>0, FlushEmpties DEF Settled
  <2>3. Settled(mret(hart), hart)
    <3>1. \A val : Settled(set_mstatus(set_privilege(hart, hart.mstatus.mpp), val), hart)
      BY <1>0, ReturnSettles
    <3> QED BY <3>1 DEF mret
  <2>4. Settled(sret(hart), hart)
    <3>1. \A val : Settled(set_mstatus(set_privilege(hart, hart.mstatus.spp), val), hart)
      BY <1>0, ReturnSettles
    <3> QED BY <3>1 DEF sret
  <2>5. Settled(dret(hart), hart)
    BY <1>0, DretSettles
  <2>6. Settled(h, hart)
    BY <2>1, <2>2, <2>3, <2>4, <2>5
  <2>7. TlbOK(h, pt, prog.ops)
    BY <1>0, <2>6, SettledOK
  <2> QED BY <2>1, <2>7, PrivilegedTlb
<1>7. CASE Ecall \/ Ebreak
  BY <1>0, <1>7, TlbStays, TrapSettles DEF Ecall, Ebreak, Trap
<1>8. CASE WritePte
  <2>1. PICK w \in prog.ptes : pt' = [pt EXCEPT ![w[1]] = w[2]]
    BY <1>8 DEF WritePte
  <2> DEFINE g == hart'  tab == pt'  ops == prog'.ops  l == w[1]  e == w[2]
  <2>2. e \in PageTableEntry
    BY <2>1, ProgramsAssumption DEF HartInv
  <2>3. tab = [pt EXCEPT ![l] = e]
    BY <2>1
  <2>4. g = [hart EXCEPT !.stale = TRUE] /\ ops = prog.ops
    BY <1>8 DEF WritePte
  <2> HIDE DEF g, tab, ops, l, e
  <2>5. TableOK(tab)
    BY <1>0, <2>2, <2>3 DEF TableOK
  <2>6. g.sptbr = hart.sptbr /\ g.stale = TRUE /\ g.tag = hart.tag /\ g.data = hart.data
    BY <1>0, <2>4 DEF Fields
  <2>7. TlbOK(g, tab, ops)
    BY <1>0, <2>4, <2>6 DEF TlbOK
  <2> QED BY <2>5, <2>7 DEF TlbInv, g, tab, ops
<1>9. CASE DebugInt
  BY <1>0, <1>9, TlbStays, EnterDebugSettles DEF DebugInt
<1>10. CASE Device
  <2>1. SameView(hart', hart) /\ pt' = pt /\ prog' = prog
    BY <1>0, <1>10 DEF Device, Fields, SameView, SameWay, AlikeStatus
  <2> QED BY <2>1, TlbStays DEF Settled
<1> QED BY <1>1, <1>2, <1>3, <1>4, <1>5, <1>6, <1>7, <1>8, <1>9, <1>10 DEF HartNext

LEMMA InitTlb == HartInit => TlbInv
<1> SUFFICES ASSUME HartInit PROVE TlbInv
  OBVIOUS
<1>1. TableOK(pt)
  BY HartConstants DEF HartConstants, HartInit, TableOK
<1>2. hart.sptbr = 0 /\ Emptied(hart, hart)
  <2>1. PICK h : DOMAIN h = Fields /\ h.sptbr = 0 /\ hart = flush_tlb(h)
    BY DEF HartInit, Reset, Fields
  <2>2. Emptied(hart, h)
    BY <2>1, FlushEmpties
  <2> QED BY <2>1, <2>2 DEF Emptied
<1>3. TlbOK(hart, pt, prog.ops)
  BY <1>2, EmptiedOK
<1> QED BY <1>1, <1>3 DEF TlbInv

\* A translation that load_func, store_func or the fetch finds cached is what
\* mmu_t::walk would find now, with the accessed and dirty bits set, unless the
\* page tables or sptbr changed since the last sfence.vm: set_privilege,
\* set_mstatus, take_trap, the returns and Debug Mode flush whenever they
\* change what a translation depends on, and refill_tlb gives up what shares
\* its place.  A program that fetches must not have MPRV make its data accesses
\* in another mode, because the three tag arrays share tlb_data.
THEOREM TlbFaithfulHolds == HartSpec /\ []FetchesAsItLoads => []TlbFaithful
<1>1. HartInv /\ TlbInv /\ FetchesAsItLoads /\ [HartNext]_hvars => TlbInv'
  <2> SUFFICES ASSUME HartInv, TlbInv, FetchesAsItLoads, [HartNext]_hvars PROVE TlbInv'
    OBVIOUS
  <2>1. CASE UNCHANGED hvars
    <3>1. pt' = pt /\ prog' = prog /\ SameView(hart', hart)
      BY <2>1 DEF hvars, SameView, SameWay, AlikeStatus
    <3> QED BY <3>1, TlbStays DEF Settled
  <2> QED BY <2>1, NextTlb
<1>2. TlbInv => TlbFaithful
  <2> SUFFICES ASSUME TlbInv, NEW type \in Access, NEW vpn \in Vpns,
                      Cached(hart, vpn, type) # -1, ~hart.stale
               PROVE  LET r == translate(hart, pt, vpn, type)
                      IN  /\ r.page = Cached(hart, vpn, type)
                          /\ r.leaf # <<>> => pt[r.leaf].a /\ (type = "STORE" => pt[r.leaf].d)
    BY DEF TlbFaithful
  <2>1. /\ hart.tag[type][vpn % TLB_ENTRIES] = vpn
        /\ Cached(hart, vpn, type) = vpn + hart.data[vpn % TLB_ENTRIES]
    BY DEF Cached
  <2>2. Right(hart, pt, vpn, type)
    BY <2>1 DEF TlbInv, TlbOK
  <2> QED BY <2>1, <2>2 DEF Right
<1> QED BY <1>1, <1>2, InitTlb, HartInvariant, PTL DEF HartSpec
=============================================================================
