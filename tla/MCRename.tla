------------------------------ MODULE MCRename ------------------------------
(***************************************************************************)
(* Small instances of Rename for TLC.                                      *)
(***************************************************************************)
EXTENDS RenameISA

Inst(op, rd, rs1, rs2) ==
    [op |-> op, rd |-> rd, rs1 |-> rs1, rs2 |-> rs2, rs1_valid |-> TRUE,
     rs2_valid |-> op \in {"ALU", "MUL", "STR", "COND"},
     imm_valid |-> op \notin {"ALU", "MUL", "SYS", "RET"},
     rd_valid |-> op \notin {"STR", "COND"}, exception |-> FALSE]

Fault(d) == [d EXCEPT !.exception = TRUE]

(* An instruction fetch that failed is dispatched as a NOP with a trap.    *)
FetchFault == Fault(NOP)


FewKinds == {Inst("ALU", 1, 1, 0), FetchFault}

LiveKinds == {Inst("ALU", 1, 0, 1), Inst("LD", 1, 1, 0)}

UserKinds == {Inst("ALU", 1, 1, 0), Inst("LD", 1, 1, 0), Inst("STR", 0, 1, 1),
             Inst("JUMP", 1, 0, 0), FetchFault, Fault(Inst("LD", 1, 1, 0))}

SystemKinds == {Inst("MUL", 1, 1, 0), Inst("SYS", 1, 1, 0), Inst("RET", 0, 0, 0)}

EveryKind == UserKinds \cup SystemKinds

ISAKinds == {Inst("ALU", 1, 1, 2), Inst("LD", 2, 1, 0), Inst("JUMP", 1, 2, 0)}

Zero(d, v1, v2) == 0

Mix(d, v1, v2) == IF d.op = "ALU" THEN (v1 + v2 + 1) % 2 ELSE v1

(* Registers somebody may still read.                                      *)
Live(p) == \/ \E r \in Arch : rRAM[r] = p
           \/ \E i \in Slot : entry_rob[i].valid /\ entry_rob[i].dest_op = p

MinPlace(f, S, p) == CHOOSE i \in S : f[i] = p /\ \A j \in S : f[j] = p => i <= j

(* Nothing depends on the number of a physical register: it is named by    *)
(* the place it has in the free register queue or in the retirement map.   *)
Name(p) ==
    IF \E i \in Slot : frq[i] = p THEN MinPlace(frq, Slot, p)
    ELSE IF \E r \in Arch : rRAM[r] = p
    THEN ENTRY_ROB_SIZE + MinPlace(rRAM, Arch, p)
    ELSE ENTRY_ROB_SIZE + REGFILE_SIZE + p

(* States are the same when they differ only in the numbers of registers   *)
(* or in fields nobody reads before they are written again: those of an    *)
(* invalid ROB entry, except its trap, and the contents of a free register.*)
LiveState ==
    LET name == [p \in Phys |-> Name(p)]
    IN  <<[r \in Arch |-> <<name[fRAM[r]], name[rRAM[r]]>>], [i \in Slot |-> name[frq[i]]],
          rg_frq_head, rg_frq_tail, rg_erob_head, rg_erob_tail, rg_revert_map,
          [k \in DOMAIN csr_pending |-> [csr_pending[k] EXCEPT !.dest_op = name[@]]],
          [i \in Slot |-> IF entry_rob[i].valid
                          THEN [entry_rob[i] EXCEPT !.dest_op = name[@], !.op_1 = name[@],
                                                    !.op_2 = name[@]]
                          ELSE entry_rob[i].inst.exception],
          {<<name[p], prf_valid[p], regFile[p]>> : p \in {q \in Phys : Live(q)}}>>
=============================================================================
