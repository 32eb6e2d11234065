------------------------------ MODULE SpikeHart ------------------------------
(***************************************************************************)
(* A hart of the instruction set simulator: its privilege and trap logic   *)
(* (riscv/processor.cc, processor.h, execute.cc, insns/mret.h, sret.h,     *)
(* dret.h, sfence_vm.h) and its port to memory with the translation cache  *)
(* kept for the simulator's speed (riscv/mmu.cc, mmu.h).                   *)
(*                                                                         *)
(* An address is its page number; an instruction is the one operation it   *)
(* performs.  The three tag arrays of the TLB share one array of host      *)
(* addresses, and no instruction but sfence.vm flushes for the program's   *)
(* sake: everything else that changes a translation must.                  *)
(***************************************************************************)
EXTENDS Integers, FiniteSets, Sequences

CONSTANTS
    LEVELS,        \* levels of the page table
    IDXBITS,       \* ptidxbits: index bits of a level
    Vpns,          \* virtual pages
    Roots,         \* values of sptbr
    MemPages,      \* physical pages that are memory; the rest is I/O
    TLB_ENTRIES,
    NTRIGGERS,     \* num_triggers
    PageTables,    \* initial page tables: functions from <<page, index>>
    Programs       \* what the software on the hart may do, one record each:
                   \* csrw: CSR writes <<csr, value>>, vpns: pages accessed,
                   \* ptes: entries stored <<address, entry>>,
                   \* ints: interrupts devices raise, ops: instructions

PageTableEntry == [v : BOOLEAN, r : BOOLEAN, w : BOOLEAN, x : BOOLEAN, u : BOOLEAN,
                   a : BOOLEAN, d : BOOLEAN, ppn : Nat]

ASSUME HartConstants ==
    /\ LEVELS \in Nat \ {0} /\ IDXBITS \in Nat \ {0}
    /\ TLB_ENTRIES \in Nat \ {0} /\ NTRIGGERS \in Nat \ {0}
    /\ Vpns \subseteq Nat /\ \A vpn \in Vpns : vpn < 2 ^ (LEVELS * IDXBITS + 1)
    /\ Roots \subseteq Nat /\ MemPages \subseteq Nat
    /\ \A tab \in PageTables : tab \in [DOMAIN tab -> PageTableEntry]

Ints == {"SSI", "MSI", "STI", "MTI"}
Access == {"FETCH", "LOAD", "STORE"}
Status == [vm : BOOLEAN, mprv : BOOLEAN, mpp : {"U", "S", "H", "M"}, pum : BOOLEAN,
           mxr : BOOLEAN, mie : BOOLEAN, sie : BOOLEAN, mpie : BOOLEAN,
           spie : BOOLEAN, spp : {"U", "S"}]

\* What fits in a register
CsrValue(which, val) ==
    CASE which \in {"mstatus", "sstatus"} -> val \in Status
      [] which \in {"mip", "sip", "mie", "sie", "mideleg"} -> val \subseteq Ints
      [] which = "sptbr" -> val \in Roots
      [] which = "tselect" -> val \in Nat
      [] which = "tdata1" -> val.kinds \subseteq Access
      [] which = "dcsr" -> val.prv \in {"U", "S", "H", "M"}
      [] OTHER -> which \in {"medeleg", "tdata2"}

ASSUME ProgramsAssumption ==
    \A p \in Programs :
      /\ p.vpns \subseteq Vpns /\ p.ints \subseteq Ints
      /\ \A w \in p.csrw : CsrValue(w[1], w[2])
      /\ \A w \in p.ptes : w[2] \in PageTableEntry

VARIABLES
    hart,    \* state_t and mmu_t of the hart
    pt,      \* the page tables in memory
    prog,    \* the program it runs
    back     \* what each open trap must return to: history

hvars == <<hart, pt, prog, back>>

Rank(prv) == CASE prv = "U" -> 0 [] prv = "S" -> 1 [] prv = "H" -> 2 [] OTHER -> 3
Bit(irq) == CASE irq = "SSI" -> 1 [] irq = "MSI" -> 3 [] irq = "STI" -> 5 [] OTHER -> 7
DelegableInts == {"SSI", "STI"}
NoTag == -1
Fault == [leaf |-> <<>>, page |-> -1]
NoTrap == "none"

-----------------------------------------------------------------------------
(* The TLB.                                                                *)

\* tlb_data is left as it is; it is cleared here because no tag names it until
\* it is written again.  stale: the page tables changed since the last flush.
flush_tlb(h) ==
    [h EXCEPT !.data = [i \in 0 .. TLB_ENTRIES - 1 |-> 0],
               !.tag = [t \in Access |-> [i \in 0 .. TLB_ENTRIES - 1 |-> NoTag]],
              !.check = [t \in Access |-> [i \in 0 .. TLB_ENTRIES - 1 |-> FALSE]],
              !.stale = FALSE]

\* Mutant: only the array that is filled is looked after.
refill_tlb_OwnTag(h, vpn, page, type) ==
    LET i == vpn % TLB_ENTRIES
    IN  [h EXCEPT !.tag[type][i] = vpn,
                  !.check[type][i] = h.check_triggers[type],
                  !.data[i] = page - vpn]

\* An entry of another page in the same place gives way in all three arrays,
\* for they share tlb_data.
refill_tlb(h, vpn, page, type) ==
    LET i == vpn % TLB_ENTRIES
    IN  [h EXCEPT
          !.tag = [t \in Access |->
                     [h.tag[t] EXCEPT ![i] = IF t = type \/ @ = vpn THEN vpn ELSE NoTag]],
          !.check = [t \in Access |->
                       [h.check[t] EXCEPT ![i] = IF t = type THEN h.check_triggers[type]
                                                 ELSE @ /\ h.tag[t][i] = vpn]],
          !.data[i] = page - vpn]

-----------------------------------------------------------------------------
(* The page table walk.                                                    *)

PTE_TABLE(pte) == pte.v /\ ~pte.r /\ ~pte.w /\ ~pte.x

Permitted(h, pte, type, mode) ==
    LET supervisor == mode = "S"
    IN  /\ IF pte.u THEN ~(supervisor /\ h.mstatus.pum) ELSE supervisor
        /\ pte.v /\ (pte.r \/ ~pte.w)
        /\ CASE type = "FETCH" -> pte.x
             [] type = "LOAD" -> pte.r \/ (h.mstatus.mxr /\ pte.x)
             [] OTHER -> pte.r /\ pte.w

\* The bits above the translated ones are all equal.
Canonical(vpn) == vpn \div 2 ^ (LEVELS * IDXBITS - 1) \in {0, 3}

\* The span of an entry of level i, and the entry for vpn in the table at base
Size(i) == 2 ^ ((LEVELS - 1 - i) * IDXBITS)
pte_addr(vpn, i, base) == <<base, (vpn \div Size(i)) % 2 ^ IDXBITS>>

\* From each level and table on, the leaf entry and the page it maps to;
\* superpages are aligned.
walk_from(h, tab, vpn, type, mode) ==
    LET w[i \in 0 .. LEVELS] ==
          [base \in Nat |->
             LET a == pte_addr(vpn, i, base)
             IN  IF i = LEVELS \/ a \notin DOMAIN tab THEN Fault
                 ELSE IF PTE_TABLE(tab[a]) THEN w[i + 1][tab[a].ppn]
                 ELSE IF Permitted(h, tab[a], type, mode)
                 THEN [leaf |-> a, page |-> tab[a].ppn + (vpn % Size(i))]
                 ELSE Fault]
    IN  w

walk(h, tab, vpn, type, mode) ==
    IF Canonical(vpn) THEN walk_from(h, tab, vpn, type, mode)[0][h.sptbr] ELSE Fault

\* The mode an access is made in: MPRV counts for data, outside Debug Mode.
AccessMode(h, type) ==
    IF ~h.mstatus.vm THEN "M"
    ELSE IF type # "FETCH" /\ h.cause = "none" /\ h.mstatus.mprv
    THEN h.mstatus.mpp ELSE h.prv

translate(h, tab, vpn, type) ==
    LET mode == AccessMode(h, type)
    IN  IF mode = "M" THEN [leaf |-> <<>>, page |-> vpn]
        ELSE walk(h, tab, vpn, type, mode)

\* The accessed and dirty bits the walk leaves behind
SetBits(tab, r, type) ==
    IF r.leaf = <<>> THEN tab
    ELSE [tab EXCEPT ![r.leaf].a = TRUE, ![r.leaf].d = @ \/ type = "STORE"]

-----------------------------------------------------------------------------
(* Triggers.                                                               *)

cto(v) == IF v % 2 = 0 THEN 0 ELSE IF v % 4 = 1 THEN 1 ELSE 2

\* The value compared is the address; MASK_LOW and MASK_HIGH compare halves
\* of a word and are left out.
Matches(match, tdata2, v) ==
    CASE match = "EQUAL" -> v = tdata2
      [] match = "NAPOT" -> v \div 2 ^ cto(tdata2) = tdata2 \div 2 ^ cto(tdata2)
      [] match = "GE" -> v >= tdata2
      [] OTHER -> v < tdata2

\* The first trigger that matches and is not chained to the next: as written,
\* nothing ever clears chain_ok, so a chain fires on its last trigger alone.
trigger_match(h, type, vpn) ==
    LET hit == {i \in 0 .. NTRIGGERS - 1 :
                  /\ type \in h.mcontrol[i].kinds
                  /\ h.prv \in h.mcontrol[i].prvs
                  /\ Matches(h.mcontrol[i].match, h.tdata2[i], vpn)
                  /\ ~h.mcontrol[i].chain}
    IN  IF h.cause # "none" \/ hit = {} THEN -1
        ELSE CHOOSE i \in hit : \A j \in hit : i <= j

\* Mutant: the entries already cached stay unchecked.
trigger_updated_NoFlush(h) ==
    [h EXCEPT !.check_triggers =
       [t \in Access |-> \E i \in 0 .. NTRIGGERS - 1 : t \in h.mcontrol[i].kinds]]

\* Writing tdata1 flushes the TLB and recomputes which accesses need a check.
trigger_updated(h) ==
    [flush_tlb(h) EXCEPT !.check_triggers =
       [t \in Access |-> \E i \in 0 .. NTRIGGERS - 1 : t \in h.mcontrol[i].kinds]]

-----------------------------------------------------------------------------
(* Privilege, traps and CSRs.                                              *)

\* There is no H-mode: a return to it is a return to U-mode.
set_privilege(h, prv) == [flush_tlb(h) EXCEPT !.prv = IF prv = "H" THEN "U" ELSE prv]

\* A change of what translation depends on flushes.  Every VM value written
\* is a valid one.
set_mstatus(h, val) ==
    LET s == h.mstatus
        f == IF /\ val.vm = s.vm /\ val.mpp = s.mpp /\ val.mprv = s.mprv
                /\ val.pum = s.pum /\ val.mxr = s.mxr
             THEN h ELSE flush_tlb(h)
    IN  [f EXCEPT !.mstatus = val]

\* The supervisor's registers are views of the machine's: sstatus of mstatus,
\* sip and sie of the delegated interrupts.  A trigger of the debugger's is
\* not the program's to change.
set_csr(h, which, val) ==
    LET locked == h.mcontrol[h.tselect].dmode /\ h.cause = "none"
        view(all, v) == (all \ h.mideleg) \cup (v \cap h.mideleg)
        mip(v) == [h EXCEPT !.mip = (@ \ DelegableInts) \cup (v \cap DelegableInts)]
    IN  CASE which = "mstatus" -> set_mstatus(h, val)
          [] which = "sstatus" ->
               set_mstatus(h, [h.mstatus EXCEPT !.sie = val.sie, !.spie = val.spie,
                                                !.spp = val.spp, !.pum = val.pum])
          [] which = "mip" -> mip(val)
          [] which = "sip" -> mip(view(h.mip, val))
          [] which = "mie" -> [h EXCEPT !.mie = val]
          [] which = "sie" -> [h EXCEPT !.mie = view(@, val)]
          [] which = "mideleg" -> [h EXCEPT !.mideleg = val \cap DelegableInts]
          [] which = "medeleg" -> [h EXCEPT !.medeleg = val]
          [] which = "sptbr" -> [h EXCEPT !.sptbr = val, !.stale = TRUE]
          [] which = "tselect" -> IF val < NTRIGGERS THEN [h EXCEPT !.tselect = val] ELSE h
          [] which = "tdata1" ->
               IF locked THEN h
               ELSE trigger_updated([h EXCEPT !.mcontrol[h.tselect] = val])
          [] which = "tdata2" -> IF locked THEN h ELSE [h EXCEPT !.tdata2[h.tselect] = val]
          [] OTHER -> [h EXCEPT !.ebreak = val.ebreak, !.dprv = val.prv]  \* dcsr

CsrPriv(which) == IF which \in {"sstatus", "sip", "sie", "sptbr"} THEN "S" ELSE "M"

enter_debug_mode(h, cause) ==
    [set_privilege([h EXCEPT !.cause = cause, !.dprv = h.prv], "M")
       EXCEPT !.pc = "rom"]

\* UIE << prv; the enable bits of U-mode and H-mode cannot be set
IE(s, prv) == CASE prv = "S" -> s.sie [] prv = "M" -> s.mie [] OTHER -> FALSE
SetIE(s, prv, b) == CASE prv = "S" -> [s EXCEPT !.sie = b]
                      [] prv = "M" -> [s EXCEPT !.mie = b]
                      [] OTHER -> s

ToS(h, cause) == Rank(h.prv) <= 1 /\ cause \in h.medeleg \cup h.mideleg
ToDebugger(h, cause) == cause = "break" /\ h.prv \in h.ebreak

take_trap(h, cause) ==
    IF ToDebugger(h, cause) THEN enter_debug_mode(h, "swbp")
    ELSE IF h.cause # "none" THEN [h EXCEPT !.pc = "rom exception"]
    ELSE IF ToS(h, cause)
    THEN LET s == [h.mstatus EXCEPT !.spie = IE(h.mstatus, h.prv),
                                    !.spp = h.prv, !.sie = FALSE]
         IN  set_privilege(set_mstatus([h EXCEPT !.pc = "stvec"], s), "S")
    ELSE LET s == [h.mstatus EXCEPT !.mpie = IE(h.mstatus, h.prv),
                                    !.mpp = h.prv, !.mie = FALSE]
         IN  set_privilege(set_mstatus([h EXCEPT !.pc = "mtvec"], s), "M")

\* What a trap that is really taken leaves to be returned to
Opened(h, cause) ==
    IF ToDebugger(h, cause) \/ h.cause # "none" THEN back
    ELSE [back EXCEPT ![IF ToS(h, cause) THEN "S" ELSE "M"] =
            [open |-> TRUE, prv |-> h.prv, ie |-> IE(h.mstatus, h.prv)]]

mret(h) ==
    LET s == h.mstatus
    IN  set_mstatus(set_privilege(h, s.mpp),
                    [SetIE(s, s.mpp, s.mpie) EXCEPT !.mpie = FALSE, !.mpp = "U"])

\* Mutant: the stacked enable bit is cleared before it is read.
sret_ClearsFirst(h) ==
    LET s == [h.mstatus EXCEPT !.spie = FALSE, !.spp = "U"]
    IN  set_mstatus(set_privilege(h, h.mstatus.spp), SetIE(s, h.mstatus.spp, s.spie))

sret(h) ==
    LET s == h.mstatus
    IN  set_mstatus(set_privilege(h, s.spp),
                    [SetIE(s, s.spp, s.spie) EXCEPT !.spie = FALSE, !.spp = "U"])

dret(h) == [set_privilege(h, h.dprv) EXCEPT !.cause = "none", !.pc = "program"]

\* Mutant: an interrupt that is not the supervisor's waits for MIE there too.
take_interrupt_MieBelow(h) ==
    LET m == h.mstatus.mie
        s == Rank(h.prv) < 1 \/ (h.prv = "S" /\ h.mstatus.sie)
        enabled == {i \in h.mip \cap h.mie : IF i \in h.mideleg THEN s ELSE m}
    IN  IF enabled = {} THEN NoTrap
        ELSE CHOOSE i \in enabled : \A j \in enabled : Bit(i) <= Bit(j)

\* The enabled interrupt of the lowest number, or none
take_interrupt(h) ==
    LET m == Rank(h.prv) < 3 \/ h.mstatus.mie
        s == Rank(h.prv) < 1 \/ (h.prv = "S" /\ h.mstatus.sie)
        enabled == {i \in h.mip \cap h.mie : IF i \in h.mideleg THEN s ELSE m}
    IN  IF enabled = {} THEN NoTrap
        ELSE CHOOSE i \in enabled : \A j \in enabled : Bit(i) <= Bit(j)

-----------------------------------------------------------------------------
(* Steps of the hart: each is one turn of the loop of processor_t::step,   *)
(* which takes a pending interrupt first.                                  *)

Trap(cause) == /\ hart' = take_trap(hart, cause)
               /\ back' = Opened(hart, cause)

Interrupt ==
    /\ take_interrupt(hart) # NoTrap
    /\ Trap(take_interrupt(hart))
    /\ UNCHANGED <<pt, prog>>

Executes(op) == take_interrupt(hart) = NoTrap /\ op \in prog.ops

\* The page an access reaches through the cached entry, or -1
Cached(h, vpn, type) ==
    LET i == vpn % TLB_ENTRIES
    IN  IF h.tag[type][i] = vpn THEN vpn + h.data[i] ELSE -1

\* What a trigger that fires does; Debug Mode or a breakpoint exception.
Fires(t) == IF hart.mcontrol[t].action = "debug"
            THEN hart' = enter_debug_mode(hart, "hwbp") /\ back' = back
            ELSE Trap("break")

\* An access by a cached entry compares the triggers only if the entry says
\* so, one that walks does always, but for a fetch.
Data(vpn, type) ==
    LET hit == Cached(hart, vpn, type) # -1
        r == translate(hart, pt, vpn, type)
        t == trigger_match(hart, type, vpn)
        looks == IF hit THEN hart.check[type][vpn % TLB_ENTRIES] ELSE type # "FETCH"
    IN  IF ~hit /\ r = Fault
        THEN Trap(type) /\ UNCHANGED <<pt, prog>>
        ELSE /\ pt' = IF hit THEN pt ELSE SetBits(pt, r, type)
             /\ prog' = prog
             /\ IF looks /\ t # -1 THEN Fires(t)
                ELSE /\ hart' = IF hit \/ r.page \notin MemPages THEN hart
                                ELSE refill_tlb(hart, vpn, r.page, type)
                     /\ back' = back

Load == Executes("load") /\ \E vpn \in prog.vpns : Data(vpn, "LOAD")
Store == Executes("store") /\ \E vpn \in prog.vpns : Data(vpn, "STORE")
\* The code of the program: that of the Debug ROM is not in its pages.
Fetch == /\ Executes("fetch") /\ hart.cause = "none"
         /\ \E vpn \in prog.vpns : Data(vpn, "FETCH")

\* An instruction below its privilege is illegal.
Privileged(prv, h, b) ==
    /\ IF Rank(hart.prv) < Rank(prv) THEN Trap("illegal")
       ELSE hart' = h /\ back' = b
    /\ UNCHANGED <<pt, prog>>

\* A program that overwrites the stacked fields gives up its way back: with
\* mstatus both, with sstatus the supervisor's and SIE of an M-mode handler
\* that returns there.
Closed(which) ==
    [m \in {"M", "S"} |->
       [back[m] EXCEPT !.open =
          @ /\ which # "mstatus"
            /\ (which = "sstatus" => m = "M" /\ back[m].prv # "S")]]

Csrw == /\ take_interrupt(hart) = NoTrap
        /\ \E w \in prog.csrw :
             Privileged(CsrPriv(w[1]), set_csr(hart, w[1], w[2]), Closed(w[1]))
sfence_vm == Executes("sfence.vm") /\ Privileged("S", flush_tlb(hart), back)
\* Returns are the program's: neither the Debug ROM nor what the debugger puts
\* into Debug RAM has any but dret.
Mret == /\ Executes("mret") /\ hart.cause = "none"
        /\ Privileged("M", mret(hart), [back EXCEPT !["M"].open = FALSE])
Sret == /\ Executes("sret") /\ hart.cause = "none"
        /\ Privileged("S", sret(hart), [back EXCEPT !["S"].open = FALSE])
Dret == Executes("dret") /\ Privileged("M", dret(hart), back)
Ecall == /\ Executes("ecall")
         /\ Trap(IF hart.prv = "U" THEN "ecall U" ELSE "ecall")
         /\ UNCHANGED <<pt, prog>>
Ebreak == Executes("ebreak") /\ Trap("break") /\ UNCHANGED <<pt, prog>>

\* The program stores to a page table: the TLB may be out of date until it
\* executes sfence.vm.
WritePte ==
    /\ take_interrupt(hart) = NoTrap
    /\ \E w \in prog.ptes : pt' = [pt EXCEPT ![w[1]] = w[2]]
    /\ hart' = [hart EXCEPT !.stale = TRUE]
    /\ UNCHANGED <<back, prog>>

\* The debug module interrupts the hart, or it finds itself asked to halt.
DebugInt ==
    /\ hart.cause = "none" /\ "dret" \in prog.ops
    /\ \E c \in {"debugint", "halt"} : hart' = enter_debug_mode(hart, c)
    /\ UNCHANGED <<pt, back, prog>>

\* A device raises an interrupt or withdraws it.
Device ==
    /\ \E i \in prog.ints :
         hart' = [hart EXCEPT !.mip = IF i \in @ THEN @ \ {i} ELSE @ \cup {i}]
    /\ UNCHANGED <<pt, back, prog>>

\* state_t::reset, with nothing in the TLB
Reset == flush_tlb(
    [prv |-> "M", pc |-> "program", cause |-> "none", dprv |-> "U", ebreak |-> {},
     sptbr |-> 0,
     mstatus |-> [vm |-> FALSE, mprv |-> FALSE, mpp |-> "U", pum |-> FALSE,
                  mxr |-> FALSE, mie |-> FALSE, sie |-> FALSE, mpie |-> FALSE,
                  spie |-> FALSE, spp |-> "U"],
     mip |-> {}, mie |-> {}, mideleg |-> {}, medeleg |-> {},
     tag |-> <<>>, check |-> <<>>, data |-> <<>>,
     check_triggers |-> [k \in Access |-> FALSE], stale |-> FALSE, tselect |-> 0,
     tdata2 |-> [i \in 0 .. NTRIGGERS - 1 |-> 0],
     mcontrol |-> [i \in 0 .. NTRIGGERS - 1 |->
        [dmode |-> FALSE, action |-> "exception", chain |-> FALSE,
         match |-> "EQUAL", prvs |-> {}, kinds |-> {}]]])

HartInit ==
    /\ pt \in PageTables
    /\ prog \in Programs
    /\ hart = Reset
    /\ back = [m \in {"M", "S"} |-> [open |-> FALSE, prv |-> "U", ie |-> FALSE]]

HartNext ==
    \/ Interrupt \/ Load \/ Store \/ Fetch \/ Csrw \/ sfence_vm \/ WritePte
    \/ Mret \/ Sret \/ Dret \/ Ecall \/ Ebreak \/ DebugInt \/ Device

HartSpec == HartInit /\ [][HartNext]_hvars

-----------------------------------------------------------------------------
\* A cached translation is the one a walk would find now, in the mode and with
\* the mstatus the next access is made with, unless the program has changed
\* its page tables and not executed sfence.vm since; and a page that is stored
\* to without a walk is marked dirty already (mmu.h, load_func, store_func).
TlbFaithful ==
    \A type \in Access, vpn \in Vpns :
      (Cached(hart, vpn, type) # -1 /\ ~hart.stale) =>
        LET r == translate(hart, pt, vpn, type)
        IN  /\ r.page = Cached(hart, vpn, type)
            /\ r.leaf # <<>> => pt[r.leaf].a /\ (type = "STORE" => pt[r.leaf].d)

\* No load or store that a trigger is armed for is completed unseen, however
\* its page came into the TLB: a cached entry that skips the comparison is one
\* no trigger could match (mmu.h, TLB_CHECK_TRIGGERS).
WatchedAccessStops ==
    \A type \in {"LOAD", "STORE"}, vpn \in Vpns :
      (Cached(hart, vpn, type) # -1 /\ trigger_match(hart, type, vpn) # -1)
        => hart.check[type][vpn % TLB_ENTRIES]

\* A trap handler that returns finds its way back: the privilege that was
\* interrupted, with its interrupts enabled as they were, whatever traps of
\* the other mode and visits to Debug Mode came between (take_trap, mret,
\* sret).
ReturnRestores ==
    [][\A m \in {"M", "S"} :
         (/\ back[m].open /\ ~back'[m].open
          /\ hart.prv = m /\ hart.cause = "none"
          /\ IF m = "M" THEN Mret ELSE Sret)
         => /\ hart'.prv = back[m].prv
            /\ IE(hart'.mstatus, hart'.prv) = back[m].ie]_hvars

\* The machine's interrupts are not in the supervisor's hands: software below
\* M-mode can neither mask nor withdraw one, nor execute an instruction while
\* an enabled one is pending; only a delegated interrupt of a lower number
\* goes before it (take_interrupt, the views sie and sip of set_csr).
MachineInterruptsKept ==
    [][hart.prv # "M" =>
         /\ hart'.mie \ DelegableInts = hart.mie \ DelegableInts
         /\ Device \/ hart'.mip \ DelegableInts = hart.mip \ DelegableInts
         /\ (hart.mip \cap hart.mie) \ DelegableInts # {}
              => Device \/ hart'.prv = "M" \/ hart'.pc = "stvec"]_hvars
=============================================================================
