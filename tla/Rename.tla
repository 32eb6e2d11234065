------------------------------- MODULE Rename -------------------------------
(***************************************************************************)
(* Register renaming and in-order commit of the I-class out-of-order core  *)
(* (cores/iclass/BSV_source: map.bsv, frq.bsv, fRAM.bsv, rRAM.bsv, IQ.bsv, *)
(* wakeup.bsv, commit.bsv and the rules of Processor.bsv joining them).    *)
(*                                                                         *)
(* A step is one rule of the processor.  The rules of one clock cycle read *)
(* the registers' old values and write disjoint parts of the state, so a   *)
(* cycle in which commit, write-back and dispatch all fire is the sequence *)
(* Commit, Execute, Map of this model.  Issue timing (select, drive, the   *)
(* shift registers) is abstracted to "both operands have been produced".   *)
(***************************************************************************)
EXTENDS Integers, Sequences

CONSTANTS
    REGFILE_SIZE,     \* architectural registers (32)
    ENTRY_ROB_SIZE,   \* entries of the ROB and of the free register queue (16)
    PRF_SIZE,         \* physical registers (128)
    CSR_STAGES,       \* stages between commit and the CSR file (2)
    Val,              \* register contents
    Eval(_, _, _),    \* result of a decoded instruction on two operand values
    Decoded           \* the decoded instructions the front end may deliver

Arch == 0 .. REGFILE_SIZE - 1
Phys == 0 .. PRF_SIZE - 1
Slot == 0 .. ENTRY_ROB_SIZE - 1

(* "MUL" stands for multiplications and divisions, "ALU" for the other     *)
(* arithmetic, "JUMP" for JAL and JALR, "COND" for conditional branches,   *)
(* "SYS" for CSR accesses, "RET" for System returns, which redirect the PC.*)
Op == {"ALU", "MUL", "LD", "STR", "COND", "JUMP", "SYS", "RET"}

DecodedType ==
    [op : Op, rd : Arch, rs1 : Arch, rs2 : Arch, rs1_valid : BOOLEAN,
     rs2_valid : BOOLEAN, imm_valid : BOOLEAN, rd_valid : BOOLEAN, exception : BOOLEAN]

isSTR(d)    == d.op = "STR"
isLD(d)     == d.op = "LD"
isMemory(d) == d.op \in {"LD", "STR"}
isCond(d)   == d.op = "COND"
isSystem(d) == d.op \in {"SYS", "RET"}

(* What a failed fetch is decoded to, and the initial contents of the ROB. *)
NOP == [op |-> "ALU", rd |-> 0, rs1 |-> 0, rs2 |-> 0, rs1_valid |-> TRUE,
        rs2_valid |-> TRUE, imm_valid |-> FALSE, rd_valid |-> TRUE, exception |-> FALSE]

(* The pointers are Bit#(TLog#(ENTRY_ROB_SIZE)) and wrap around.           *)
Inc(i) == IF i = ENTRY_ROB_SIZE - 1 THEN 0 ELSE i + 1

(* Defective variant of Advance: a move by two that does not wrap.         *)
AdvanceNoWrap(i, n) == IF n = 2 THEN i + 2 ELSE Inc(i)

(* A pointer moves by the number of instructions dispatched or committed.  *)
Advance(i, n) == IF n = 2 THEN Inc(Inc(i)) ELSE Inc(i)

ASSUME SizeAssumption ==
    /\ REGFILE_SIZE \in Nat \ {0}
    /\ ENTRY_ROB_SIZE \in Nat \ {0, 1}
    /\ PRF_SIZE \in Nat
    /\ CSR_STAGES \in Nat
    /\ REGFILE_SIZE + ENTRY_ROB_SIZE <= PRF_SIZE

(* fn_decoder clears rd of stores and conditional branches.  It sets a     *)
(* source register where it sets its valid bit, and rs1 of a System        *)
(* instruction always; what has rs2 has no immediate next to an rd.        *)
ASSUME DecodedAssumption ==
    /\ Decoded \subseteq DecodedType
    /\ \A d \in Decoded : /\ isSTR(d) \/ isCond(d) => d.rd = 0
                          /\ ~d.rs1_valid /\ ~isSystem(d) => d.rs1 = 0
                          /\ ~d.rs2_valid => d.rs2 = 0
                          /\ d.imm_valid /\ d.rd_valid => ~d.rs2_valid

ASSUME ValAssumption ==
    /\ 0 \in Val
    /\ \A d \in Decoded \cup {NOP}, v1 \in Val, v2 \in Val : Eval(d, v1, v2) \in Val

VARIABLES
    fRAM,            \* front-end map: architectural -> physical
    rRAM,            \* retirement map, the state of committed instructions
    frq,             \* free register queue, a circular buffer
    rg_frq_head,     \* next register to allocate
    rg_frq_tail,     \* where commit returns a register
    entry_rob,       \* the re-order buffer
    rg_erob_head,    \* oldest instruction
    rg_erob_tail,    \* where dispatch enters the next instruction
    prf_valid,       \* the tag of the register has been broadcast
    regFile,         \* physical register file
    csr_pending,     \* System instructions on their way to the CSR file
    rg_revert_map    \* a flush is to be performed

vars == <<fRAM, rRAM, frq, rg_frq_head, rg_frq_tail, entry_rob, rg_erob_head,
          rg_erob_tail, prf_valid, regFile, csr_pending, rg_revert_map>>

Entry_rob_type ==
    [valid : BOOLEAN, inst : Decoded \cup {NOP}, dest_op : Phys, op_1 : Phys,
     op_2 : Phys, op1_ready : BOOLEAN, op2_ready : BOOLEAN,
     execute_done : BOOLEAN, squash : BOOLEAN, aliased : BOOLEAN]

Init ==
    /\ fRAM = [r \in Arch |-> r]
    /\ rRAM = [r \in Arch |-> r]
    /\ frq = [i \in Slot |-> i + REGFILE_SIZE]
    /\ rg_frq_head = 0
    /\ rg_frq_tail = 0
    /\ entry_rob = [i \in Slot |->
         [valid |-> FALSE, inst |-> NOP, dest_op |-> 0, op_1 |-> 0, op_2 |-> 0,
          op1_ready |-> FALSE, op2_ready |-> FALSE, execute_done |-> FALSE,
          squash |-> FALSE, aliased |-> FALSE]]
    /\ rg_erob_head = 0
    /\ rg_erob_tail = 0
    /\ prf_valid = [p \in Phys |-> TRUE]
    /\ regFile = [p \in Phys |-> 0]
    /\ csr_pending = <<>>
    /\ rg_revert_map = FALSE

-----------------------------------------------------------------------------
(***************************************************************************)
(* Dispatch: rl_connect_decode_map and map_and_rename.                     *)
(***************************************************************************)

erob_full ==
    \/ rg_erob_head = rg_erob_tail /\ entry_rob[rg_erob_head].valid
    \/ Inc(rg_erob_tail) = rg_erob_head

(* frq[_].valid is never cleared, so head = tail does not count as empty.  *)
frq_empty == Inc(rg_frq_head) = rg_frq_tail

CanMap == ~rg_revert_map /\ ~erob_full /\ ~frq_empty

dest_0 == frq[rg_frq_head]

(* Defective variant of dest_1: both instructions get the same register.   *)
dest_1_Shared == frq[rg_frq_head]

dest_1 == frq[Inc(rg_frq_head)]

(* Defective variant of next_frq_head: always past both registers.         *)
next_frq_head_Both(n) == Advance(rg_frq_head, 2)

(* The queue's head moves past the registers taken from it.                *)
next_frq_head(n) == Advance(rg_frq_head, n)

(* Entry of instruction d; r1 and r2 say whether its operands are ready.   *)
NewEntry(d, dest, s1, s2, r1, r2) ==
    [valid |-> TRUE, inst |-> d, dest_op |-> dest, op_1 |-> s1, op_2 |-> s2,
     op1_ready |-> r1 \/ ~d.rs1_valid,
     op2_ready |-> r2 \/ (d.imm_valid /\ d.rd_valid),
     execute_done |-> FALSE, squash |-> FALSE, aliased |-> FALSE]

EntryOf(d, dest) ==
    NewEntry(d, dest, fRAM[d.rs1], fRAM[d.rs2],
             prf_valid[fRAM[d.rs1]], prf_valid[fRAM[d.rs2]])

(* Defective variant of SecondEntry: no bypass inside the packet.          *)
SecondEntryNoBypass(d0, d1) == EntryOf(d1, dest_1)

(* The second instruction of a packet whose first one is d0: a source that *)
(* d0 writes comes from d0's new register, which is not ready yet.         *)
SecondEntry(d0, d1) ==
    LET m1 == d0.rd # 0 /\ d1.rs1_valid /\ d0.rd = d1.rs1
        m2 == d0.rd # 0 /\ d1.rs2_valid /\ d0.rd = d1.rs2
    IN  NewEntry(d1, dest_1,
                 IF m1 THEN dest_0 ELSE fRAM[d1.rs1],
                 IF m2 THEN dest_0 ELSE fRAM[d1.rs2],
                 ~m1 /\ prf_valid[fRAM[d1.rs1]],
                 ~m2 /\ prf_valid[fRAM[d1.rs2]])

(* Defective variant of UpdateMap: x0 is renamed like the others.          *)
UpdateMapZero(m, r, p) == [m EXCEPT ![r] = p]

UpdateMap(m, r, p) == IF r # 0 THEN [m EXCEPT ![r] = p] ELSE m

(* Both registers offered by the queue are marked as not produced, also    *)
(* when the packet holds a single instruction.                             *)
InvalidateDests == prf_valid' = [prf_valid EXCEPT ![dest_0] = FALSE, ![dest_1] = FALSE]

MapOne(d) ==
    /\ CanMap
    /\ entry_rob' = [entry_rob EXCEPT ![rg_erob_tail] = EntryOf(d, dest_0)]
    /\ fRAM' = UpdateMap(fRAM, d.rd, dest_0)
    /\ InvalidateDests
    /\ rg_frq_head' = next_frq_head(1)
    /\ rg_erob_tail' = Advance(rg_erob_tail, 1)
    /\ UNCHANGED <<rRAM, frq, rg_frq_tail, rg_erob_head, regFile, csr_pending,
                   rg_revert_map>>

MapTwo(d0, d1) ==
    /\ CanMap
    /\ entry_rob' = [entry_rob EXCEPT ![rg_erob_tail] = EntryOf(d0, dest_0),
                                      ![Inc(rg_erob_tail)] = SecondEntry(d0, d1)]
    /\ fRAM' = UpdateMap(UpdateMap(fRAM, d0.rd, dest_0), d1.rd, dest_1)
    /\ InvalidateDests
    /\ rg_frq_head' = next_frq_head(2)
    /\ rg_erob_tail' = Advance(rg_erob_tail, 2)
    /\ UNCHANGED <<rRAM, frq, rg_frq_tail, rg_erob_head, regFile, csr_pending,
                   rg_revert_map>>

-----------------------------------------------------------------------------
(***************************************************************************)
(* Execution and write-back.  A result is broadcast with its register tag; *)
(* every ROB slot compares the tag, whether or not the slot is valid.      *)
(***************************************************************************)

(* Defective variant of Wakeup: the second operand does not listen.        *)
WakeupFirstOnly(e, tag) == [e EXCEPT !.op1_ready = e.op1_ready \/ e.op_1 = tag]

Wakeup(e, tag) ==
    [e EXCEPT !.op1_ready = e.op1_ready \/ e.op_1 = tag,
              !.op2_ready = e.op2_ready \/ e.op_2 = tag]

(* rl_wakeup: the instruction waiting for this tag is done; the branch     *)
(* unit delivers its squash bit along with the tag.                        *)
ExecuteDone(e, tag, squash) ==
    [e EXCEPT !.execute_done = e.execute_done \/ e.dest_op = tag,
              !.squash = e.squash \/ (squash /\ e.dest_op = tag)]

Broadcast(rob, tag, squash) ==
    [i \in Slot |-> ExecuteDone(Wakeup(rob[i], tag), tag, squash)]

(* Defective variant of Ready: the second operand is not waited for.       *)
ReadyFirstOnly(e) == e.valid /\ ~e.execute_done /\ e.op1_ready

Ready(e) == e.valid /\ ~e.execute_done /\ e.op1_ready /\ e.op2_ready

Operate(e) == Eval(e.inst, regFile[e.op_1], regFile[e.op_2])

(* Instructions other than loads produce their value; JAL never squashes,  *)
(* JALR always, a conditional branch when it was mispredicted.             *)
Execute(i) ==
    LET e == entry_rob[i]
    IN  /\ ~rg_revert_map
        /\ Ready(e) /\ ~isSystem(e.inst) /\ ~isLD(e.inst)
        /\ \E squash \in BOOLEAN :
             /\ squash => e.inst.op \in {"COND", "JUMP"}
             /\ entry_rob' = Broadcast(entry_rob, e.dest_op, squash)
        /\ regFile' = [regFile EXCEPT ![e.dest_op] = Operate(e)]
        /\ prf_valid' = [prf_valid EXCEPT ![e.dest_op] = TRUE]
        /\ UNCHANGED <<fRAM, rRAM, frq, rg_frq_head, rg_frq_tail, rg_erob_head,
                       rg_erob_tail, csr_pending, rg_revert_map>>

(* A load may run ahead of older stores and return any stale value; the    *)
(* load/store unit then reports it as aliased when it commits.             *)
ExecuteLoad(i) ==
    LET e == entry_rob[i]
    IN  /\ ~rg_revert_map
        /\ Ready(e) /\ isLD(e.inst)
        /\ \E v \in Val, aliased \in BOOLEAN :
             /\ ~aliased => v = Operate(e)
             /\ regFile' = [regFile EXCEPT ![e.dest_op] = v]
             /\ entry_rob' = [Broadcast(entry_rob, e.dest_op, FALSE)
                                EXCEPT ![i].aliased = aliased]
        /\ prf_valid' = [prf_valid EXCEPT ![e.dest_op] = TRUE]
        /\ UNCHANGED <<fRAM, rRAM, frq, rg_frq_head, rg_frq_tail, rg_erob_head,
                       rg_erob_tail, csr_pending, rg_revert_map>>

-----------------------------------------------------------------------------
(***************************************************************************)
(* Commit: rl_commit and the rules of Processor.bsv it drives.             *)
(***************************************************************************)

head_0 == entry_rob[rg_erob_head]
head_1 == entry_rob[Inc(rg_erob_head)]

(* Stores, conditional branches and writes to x0 keep no register.         *)
NoDest(e) == isSTR(e.inst) \/ isCond(e.inst) \/ e.inst.rd = 0

LoadAliased(e) == isLD(e.inst) /\ e.aliased

CanCommit ==
    /\ ~rg_revert_map
    /\ head_0.valid
    /\ head_0.execute_done \/ head_0.inst.exception \/ isSystem(head_0.inst)

(* The second instruction leaves with the first one.  The last conjunct is *)
(* the code's !isNoTrap(wr_entry_rob_exception[0]).  imm_differ compares   *)
(* two immediate-buffer words the ROB head does not really select.         *)
CommitSecond(imm_differ) ==
    /\ head_1.valid /\ head_1.execute_done /\ ~isSystem(head_0.inst)
    /\ imm_differ
    /\ head_0.dest_op # head_1.op_1
    /\ ~(isSTR(head_0.inst) /\ isMemory(head_1.inst))
    /\ ~head_0.squash
    /\ head_0.inst.exception

(* Defective variant of reg_to_free_0: a replayed load counts as retired.  *)
reg_to_free_0_Replayed == IF NoDest(head_0) THEN head_0.dest_op ELSE rRAM[head_0.inst.rd]

(* The old register of rd, or the dummy destination of an instruction      *)
(* without one; the register a squashed load never delivered.              *)
reg_to_free_0 ==
    IF NoDest(head_0) \/ LoadAliased(head_0) THEN head_0.dest_op
                                             ELSE rRAM[head_0.inst.rd]

reg_to_free_1 ==
    IF LoadAliased(head_0) \/ LoadAliased(head_1) THEN head_1.dest_op
    ELSE IF ~NoDest(head_1) /\ ~isSTR(head_0.inst) /\ ~isCond(head_0.inst)
            /\ head_0.inst.rd = head_1.inst.rd
         THEN head_0.dest_op
    ELSE IF NoDest(head_1) THEN head_1.dest_op
    ELSE rRAM[head_1.inst.rd]

Retire(m, e) == IF NoDest(e) THEN m ELSE [m EXCEPT ![e.inst.rd] = e.dest_op]

rRAM_one == IF LoadAliased(head_0) THEN rRAM ELSE Retire(rRAM, head_0)

rRAM_two == IF LoadAliased(head_0) \/ LoadAliased(head_1)
            THEN rRAM_one ELSE Retire(rRAM_one, head_1)

(* Conditions under which commit sends a PC to fetch.  The exception of    *)
(* the second entry is looked at even when it is not committed.            *)
FlushFirst == head_0.inst.exception \/ head_0.squash \/ LoadAliased(head_0)

(* A System instruction may be selected only while it is at the head, and  *)
(* it leaves the head in that very cycle.  It is granted when its operands *)
(* are ready and encoder_tree prefers no multiplication or division in a   *)
(* lower slot, which competes unless it has been selected before.          *)
SystemReady == head_0.op1_ready /\ head_0.op2_ready

MulDivCompetes ==
    \E i \in Slot : i < rg_erob_head /\ Ready(entry_rob[i]) /\ entry_rob[i].inst.op = "MUL"

SystemIssue ==
    [dest_op |-> head_0.dest_op, ret |-> head_0.inst.op = "RET"]

CommitSystem ==
    \/ /\ isSystem(head_0.inst)
       /\ Len(csr_pending) < CSR_STAGES
       /\ \/ SystemReady /\ csr_pending' = Append(csr_pending, SystemIssue)
          \/ (SystemReady => MulDivCompetes) /\ csr_pending' = csr_pending
    \/ ~isSystem(head_0.inst) /\ csr_pending' = csr_pending

CommitOne ==
    /\ CanCommit
    /\ \E imm_differ \in BOOLEAN : ~CommitSecond(imm_differ)
    /\ entry_rob' = [entry_rob EXCEPT ![rg_erob_head].valid = FALSE]
    /\ rRAM' = rRAM_one
    /\ frq' = [frq EXCEPT ![rg_frq_tail] = reg_to_free_0]
    /\ rg_frq_tail' = Advance(rg_frq_tail, 1)
    /\ rg_erob_head' = Advance(rg_erob_head, 1)
    /\ rg_revert_map' = (FlushFirst \/ head_1.inst.exception)
    /\ CommitSystem
    /\ UNCHANGED <<fRAM, rg_frq_head, rg_erob_tail, prf_valid, regFile>>

CommitTwo ==
    /\ CanCommit
    /\ \E imm_differ \in BOOLEAN : CommitSecond(imm_differ)
    /\ entry_rob' = [entry_rob EXCEPT ![rg_erob_head].valid = FALSE,
                                      ![Inc(rg_erob_head)].valid = FALSE]
    /\ rRAM' = rRAM_two
    /\ frq' = [frq EXCEPT ![rg_frq_tail] = reg_to_free_0,
                          ![Inc(rg_frq_tail)] = reg_to_free_1]
    /\ rg_frq_tail' = Advance(rg_frq_tail, 2)
    /\ rg_erob_head' = Advance(rg_erob_head, 2)
    /\ rg_revert_map' = TRUE
    /\ UNCHANGED <<fRAM, rg_frq_head, rg_erob_tail, prf_valid, regFile, csr_pending>>

-----------------------------------------------------------------------------
(***************************************************************************)
(* rl_update_csr_registers: a System instruction reaches the CSR file after*)
(* it has left the ROB.                                                    *)
(***************************************************************************)

CsrResult ==
    /\ ~rg_revert_map
    /\ csr_pending # <<>> /\ ~Head(csr_pending).ret
    /\ csr_pending' = Tail(csr_pending)
    /\ LET tag == Head(csr_pending).dest_op
       IN  /\ \E v \in Val : regFile' = [regFile EXCEPT ![tag] = v]
           /\ prf_valid' = [prf_valid EXCEPT ![tag] = TRUE]
           /\ entry_rob' = Broadcast(entry_rob, tag, FALSE)
    /\ UNCHANGED <<fRAM, rRAM, frq, rg_frq_head, rg_frq_tail, rg_erob_head,
                   rg_erob_tail, rg_revert_map>>

CsrRedirect ==
    /\ ~rg_revert_map
    /\ csr_pending # <<>> /\ Head(csr_pending).ret
    /\ csr_pending' = Tail(csr_pending)
    /\ rg_revert_map' = TRUE
    /\ UNCHANGED <<fRAM, rRAM, frq, rg_frq_head, rg_frq_tail, entry_rob,
                   rg_erob_head, rg_erob_tail, prf_valid, regFile>>

(* Defective variants of RevertMap: the ROB entries stay valid; the tail   *)
(* of the queue stays where it is; the front-end map keeps dropped names.  *)
RevertMapKeepsEntries ==
    /\ rg_revert_map
    /\ fRAM' = rRAM
    /\ rg_erob_head' = 0 /\ rg_erob_tail' = 0 /\ rg_frq_head' = 0 /\ rg_frq_tail' = 0
    /\ csr_pending' = <<>> /\ rg_revert_map' = FALSE
    /\ UNCHANGED <<entry_rob, rRAM, frq, prf_valid, regFile>>

RevertMapKeepsFront ==
    /\ rg_revert_map
    /\ entry_rob' = [i \in Slot |-> [entry_rob[i] EXCEPT !.valid = FALSE]]
    /\ rg_erob_head' = 0 /\ rg_erob_tail' = 0 /\ rg_frq_head' = 0 /\ rg_frq_tail' = 0
    /\ csr_pending' = <<>> /\ rg_revert_map' = FALSE
    /\ UNCHANGED <<fRAM, rRAM, frq, prf_valid, regFile>>

(***************************************************************************)
(* rl_revert_map, rl_revert_map_2: everything in flight is dropped and all *)
(* pointers return to zero; the contents of frq stay where they are.       *)
(***************************************************************************)
RevertMap ==
    /\ rg_revert_map
    /\ entry_rob' = [i \in Slot |-> [entry_rob[i] EXCEPT !.valid = FALSE]]
    /\ fRAM' = rRAM
    /\ rg_erob_head' = 0
    /\ rg_erob_tail' = 0
    /\ rg_frq_head' = 0
    /\ rg_frq_tail' = 0
    /\ csr_pending' = <<>>
    /\ rg_revert_map' = FALSE
    /\ UNCHANGED <<rRAM, frq, prf_valid, regFile>>

Next ==
    \/ \E d \in Decoded : MapOne(d)
    \/ \E d0, d1 \in Decoded : MapTwo(d0, d1)
    \/ \E i \in Slot : Execute(i) \/ ExecuteLoad(i)
    \/ CommitOne
    \/ CommitTwo
    \/ CsrResult
    \/ CsrRedirect
    \/ RevertMap

Spec == Init /\ [][Next]_vars

(* An instruction whose operands are ready is issued in the end: the       *)
(* encoders prefer low slots, but nothing younger enters a full ROB.       *)
FairSpec ==
    /\ Spec
    /\ \A i \in Slot : WF_vars(Execute(i)) /\ WF_vars(ExecuteLoad(i))
    /\ WF_vars(CommitOne \/ CommitTwo)
    /\ WF_vars(RevertMap)

-----------------------------------------------------------------------------
(***************************************************************************)
(* Properties                                                              *)
(***************************************************************************)

(* Every variable has its type.                                            *)
TypeOK ==
    /\ fRAM \in [Arch -> Phys]
    /\ rRAM \in [Arch -> Phys]
    /\ frq \in [Slot -> Phys]
    /\ rg_frq_head \in Slot
    /\ rg_frq_tail \in Slot
    /\ entry_rob \in [Slot -> Entry_rob_type]
    /\ rg_erob_head \in Slot
    /\ rg_erob_tail \in Slot
    /\ prf_valid \in [Phys -> BOOLEAN]
    /\ regFile \in [Phys -> Val]
    /\ csr_pending \in Seq([dest_op : Phys, ret : BOOLEAN])
    /\ rg_revert_map \in BOOLEAN

(* Position of slot i counted from the ROB head, and the number of         *)
(* instructions in flight.                                                 *)
Age(i) == IF i >= rg_erob_head THEN i - rg_erob_head
                               ELSE i - rg_erob_head + ENTRY_ROB_SIZE

InFlight == IF rg_erob_head = rg_erob_tail
            THEN IF entry_rob[rg_erob_head].valid THEN ENTRY_ROB_SIZE ELSE 0
            ELSE Age(rg_erob_tail)

(* The free register queue has no full or empty state of its own: it is    *)
(* sound only because its pointers move in step with the ROB's, dispatch   *)
(* with dispatch and commit with commit, also across flushes.              *)
Lockstep == rg_frq_head = rg_erob_tail /\ rg_frq_tail = rg_erob_head

(* The valid ROB entries are exactly those between head and tail, so that  *)
(* the full test of rl_check_erob_status can rely on the head's bit.       *)
Window == \A i \in Slot : entry_rob[i].valid <=> Age(i) < InFlight

(* No physical register is lost or handed out twice: the registers of the  *)
(* retirement map and the entries of the queue, allocated or free, are all *)
(* different.                                                              *)
RegistersConserved ==
    /\ \A r, s \in Arch : rRAM[r] = rRAM[s] => r = s
    /\ \A i, j \in Slot : frq[i] = frq[j] => i = j
    /\ \A r \in Arch, i \in Slot : rRAM[r] # frq[i]

(* An allocated register stays in the queue slot of its ROB entry, so that *)
(* zeroing both queue pointers on a flush returns every squashed register. *)
DestInQueue == \A i \in Slot : entry_rob[i].valid => entry_rob[i].dest_op = frq[i]

Writes(i, r) == entry_rob[i].valid /\ entry_rob[i].inst.rd = r /\ r # 0

(* p is the register holding architectural register r as seen by an        *)
(* instruction of age n: that of the youngest older writer in flight, or   *)
(* the retired one.                                                        *)
MappedAt(p, r, n) ==
    \/ \E i \in Slot : /\ Writes(i, r) /\ Age(i) < n /\ p = entry_rob[i].dest_op
                       /\ \A j \in Slot : Writes(j, r) /\ Age(j) < n => Age(j) <= Age(i)
    \/ /\ \A i \in Slot : Writes(i, r) => Age(i) >= n
       /\ p = rRAM[r]

(* The front-end map is the retirement map overlaid with the instructions  *)
(* in flight, in program order.                                            *)
FrontMapCorrect ==
    ~rg_revert_map => \A r \in Arch : MappedAt(fRAM[r], r, ENTRY_ROB_SIZE)

(* Renaming keeps read-after-write dependences: however the older ones     *)
(* have retired since it was dispatched, each operand an instruction in    *)
(* flight reads names the register of the youngest older writer of its     *)
(* source.                                                                 *)
OperandsCorrect ==
    ~rg_revert_map =>
      \A i \in Slot : entry_rob[i].valid =>
        /\ entry_rob[i].inst.rs1_valid =>
             MappedAt(entry_rob[i].op_1, entry_rob[i].inst.rs1, Age(i))
        /\ entry_rob[i].inst.rs2_valid =>
             MappedAt(entry_rob[i].op_2, entry_rob[i].inst.rs2, Age(i))

(* No lost wakeup, no circular wait: every instruction in flight commits   *)
(* or is flushed.                                                          *)
InstructionsLeave == \A i \in Slot : entry_rob[i].valid ~> ~entry_rob[i].valid

(* In-order commit: while a trap is at the ROB head no instruction retires *)
(* a register; the younger ones are fetched again after the handler.       *)
TrapRetiresNothing == [][head_0.valid /\ head_0.inst.exception => rRAM' = rRAM]_vars
=============================================================================
