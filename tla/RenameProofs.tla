---------------------------- MODULE RenameProofs ----------------------------
(***************************************************************************)
(* Theorems about Rename, for every size of the register file, the ROB and *)
(* the physical register file and every set of decoded instructions.       *)
(***************************************************************************)
EXTENDS Rename, SequenceTheorems, TLAPS

(* The wrap-around increment of rg_erob_head and its companions stays a    *)
(* slot number.                                                            *)
LEMMA IncType == \A i \in Slot : Inc(i) \in Slot
  BY SizeAssumption DEF Slot, Inc

(* Registers offered by the free register queue are physical registers.    *)
LEMMA DestType == TypeOK => dest_0 \in Phys /\ dest_1 \in Phys
  BY IncType DEF TypeOK, dest_0, dest_1

(* What map_and_rename enters into the ROB has the type of an entry.       *)
LEMMA NewEntryType ==
  ASSUME NEW d \in Decoded, NEW dest \in Phys, NEW s1 \in Phys, NEW s2 \in Phys,
         NEW r1 \in BOOLEAN, NEW r2 \in BOOLEAN
  PROVE  NewEntry(d, dest, s1, s2, r1, r2) \in Entry_rob_type
  BY DecodedAssumption DEF NewEntry, Entry_rob_type, DecodedType

LEMMA EntryOfType ==
  ASSUME TypeOK, NEW d \in Decoded, NEW dest \in Phys
  PROVE  EntryOf(d, dest) \in Entry_rob_type
<1>1. fRAM[d.rs1] \in Phys /\ fRAM[d.rs2] \in Phys
  BY DecodedAssumption DEF TypeOK, DecodedType
<1>2. prf_valid[fRAM[d.rs1]] \in BOOLEAN /\ prf_valid[fRAM[d.rs2]] \in BOOLEAN
  BY <1>1 DEF TypeOK
<1> QED
  BY <1>1, <1>2, NewEntryType DEF EntryOf

LEMMA SecondEntryType ==
  ASSUME TypeOK, NEW d0 \in Decoded, NEW d1 \in Decoded
  PROVE  SecondEntry(d0, d1) \in Entry_rob_type
<1> DEFINE m1 == d0.rd # 0 /\ d1.rs1_valid /\ d0.rd = d1.rs1
           m2 == d0.rd # 0 /\ d1.rs2_valid /\ d0.rd = d1.rs2
           s1 == IF m1 THEN dest_0 ELSE fRAM[d1.rs1]
           s2 == IF m2 THEN dest_0 ELSE fRAM[d1.rs2]
           r1 == ~m1 /\ prf_valid[fRAM[d1.rs1]]
           r2 == ~m2 /\ prf_valid[fRAM[d1.rs2]]
<1>1. SecondEntry(d0, d1) = NewEntry(d1, dest_1, s1, s2, r1, r2)
  BY DEF SecondEntry
<1>2. s1 \in Phys /\ s2 \in Phys
  BY DestType, DecodedAssumption DEF TypeOK, DecodedType
<1>3. r1 \in BOOLEAN /\ r2 \in BOOLEAN
  OBVIOUS
<1>4. dest_1 \in Phys
  BY DestType
<1> HIDE DEF s1, s2, r1, r2
<1>5. NewEntry(d1, dest_1, s1, s2, r1, r2) \in Entry_rob_type
  BY <1>2, <1>3, <1>4, NewEntryType
<1> QED
  BY <1>1, <1>5

LEMMA UpdateMapType ==
  ASSUME NEW m \in [Arch -> Phys], NEW r \in Arch, NEW p \in Phys
  PROVE  UpdateMap(m, r, p) \in [Arch -> Phys]
  BY DEF UpdateMap

(* A broadcast changes flags of ROB entries only.                          *)
LEMMA BroadcastType ==
  ASSUME TypeOK, NEW tag, NEW squash \in BOOLEAN
  PROVE  Broadcast(entry_rob, tag, squash) \in [Slot -> Entry_rob_type]
<1>1. ASSUME NEW e \in Entry_rob_type
      PROVE  Wakeup(e, tag) \in Entry_rob_type
  BY DEF Wakeup, Entry_rob_type
<1>2. ASSUME NEW e \in Entry_rob_type
      PROVE  ExecuteDone(e, tag, squash) \in Entry_rob_type
  BY DEF ExecuteDone, Entry_rob_type
<1> QED
  BY <1>1, <1>2 DEF Broadcast, TypeOK

LEMMA RetireType ==
  ASSUME NEW m \in [Arch -> Phys], NEW e \in Entry_rob_type, e.inst.rd \in Arch
  PROVE  Retire(m, e) \in [Arch -> Phys]
<1>1. e.dest_op \in Phys
  BY DEF Entry_rob_type
<1> QED
  BY <1>1 DEF Retire

LEMMA HeadType ==
  TypeOK => /\ head_0 \in Entry_rob_type /\ head_0.inst.rd \in Arch
            /\ head_1 \in Entry_rob_type /\ head_1.inst.rd \in Arch
            /\ head_0.dest_op \in Phys /\ head_1.dest_op \in Phys
<1> SUFFICES ASSUME TypeOK
             PROVE  \A i \in Slot : /\ entry_rob[i] \in Entry_rob_type
                                    /\ entry_rob[i].inst.rd \in Arch
                                    /\ entry_rob[i].dest_op \in Phys
  BY IncType DEF TypeOK, head_0, head_1
<1> TAKE i \in Slot
<1>1. entry_rob[i] \in Entry_rob_type
  BY DEF TypeOK
<1>2. entry_rob[i].inst \in Decoded \cup {NOP} /\ entry_rob[i].dest_op \in Phys
  BY <1>1 DEF Entry_rob_type
<1>3. 0 \in Arch
  BY SizeAssumption DEF Arch
<1>4. entry_rob[i].inst.rd \in Arch
  BY <1>2, <1>3, DecodedAssumption DEF DecodedType, NOP
<1> QED
  BY <1>1, <1>2, <1>4

(* Commit keeps the type of the retirement map and of the queue.           *)
LEMMA CommitType ==
  ASSUME TypeOK
  PROVE  /\ rRAM_one \in [Arch -> Phys] /\ rRAM_two \in [Arch -> Phys]
         /\ reg_to_free_0 \in Phys /\ reg_to_free_1 \in Phys
<1>1. rRAM \in [Arch -> Phys]
  BY DEF TypeOK
<1>2. rRAM_one \in [Arch -> Phys]
  BY <1>1, HeadType, RetireType DEF rRAM_one
<1>3. rRAM_two \in [Arch -> Phys]
  BY <1>2, HeadType, RetireType DEF rRAM_two
<1>4. reg_to_free_0 \in Phys /\ reg_to_free_1 \in Phys
  BY <1>1, HeadType DEF reg_to_free_0, reg_to_free_1
<1> QED
  BY <1>2, <1>3, <1>4

(* Clearing the valid bit of an entry keeps its type.                      *)
LEMMA InvalidType ==
  ASSUME NEW e \in Entry_rob_type
  PROVE  [e EXCEPT !.valid = FALSE] \in Entry_rob_type
  BY DEF Entry_rob_type

LEMMA MapOneType ==
  ASSUME TypeOK, NEW d \in Decoded, MapOne(d)
  PROVE  TypeOK'
<1>1. entry_rob' \in [Slot -> Entry_rob_type]
  BY DestType, EntryOfType DEF MapOne, TypeOK
<1>2. fRAM' \in [Arch -> Phys]
  BY DestType, UpdateMapType, DecodedAssumption DEF MapOne, TypeOK, DecodedType
<1>3. prf_valid' \in [Phys -> BOOLEAN]
  BY DEF MapOne, InvalidateDests, TypeOK
<1> QED
  BY <1>1, <1>2, <1>3, IncType DEF MapOne, TypeOK, Advance, next_frq_head

LEMMA MapTwoType ==
  ASSUME TypeOK, NEW d0 \in Decoded, NEW d1 \in Decoded, MapTwo(d0, d1)
  PROVE  TypeOK'
<1>1. entry_rob' \in [Slot -> Entry_rob_type]
  BY DestType, EntryOfType, SecondEntryType DEF MapTwo, TypeOK
<1>2. d0.rd \in Arch /\ d1.rd \in Arch
  BY DecodedAssumption DEF DecodedType
<1>3. fRAM' \in [Arch -> Phys]
  BY <1>2, DestType, UpdateMapType DEF MapTwo, TypeOK
<1>4. prf_valid' \in [Phys -> BOOLEAN]
  BY DEF MapTwo, InvalidateDests, TypeOK
<1> QED
  BY <1>1, <1>3, <1>4, IncType DEF MapTwo, TypeOK, Advance, next_frq_head

(* The operands of an entry hold values, and so does its result.           *)
LEMMA OperateType ==
  ASSUME TypeOK, NEW i \in Slot
  PROVE  /\ entry_rob[i].dest_op \in Phys
         /\ Operate(entry_rob[i]) \in Val
<1>1. entry_rob[i] \in Entry_rob_type
  BY DEF TypeOK
<1>2. /\ entry_rob[i].op_1 \in Phys /\ entry_rob[i].op_2 \in Phys
      /\ entry_rob[i].dest_op \in Phys
      /\ entry_rob[i].inst \in Decoded \cup {NOP}
  BY <1>1 DEF Entry_rob_type
<1> QED
  BY <1>2, ValAssumption DEF Operate, TypeOK

LEMMA ExecuteType ==
  ASSUME TypeOK, NEW i \in Slot, Execute(i)
  PROVE  TypeOK'
<1>1. entry_rob' \in [Slot -> Entry_rob_type]
  BY BroadcastType DEF Execute
<1> QED
  BY <1>1, OperateType DEF Execute, TypeOK

LEMMA ExecuteLoadType ==
  ASSUME TypeOK, NEW i \in Slot, ExecuteLoad(i)
  PROVE  TypeOK'
<1>1. PICK v \in Val, aliased \in BOOLEAN :
        /\ regFile' = [regFile EXCEPT ![entry_rob[i].dest_op] = v]
        /\ entry_rob' = [Broadcast(entry_rob, entry_rob[i].dest_op, FALSE)
                           EXCEPT ![i].aliased = aliased]
  BY DEF ExecuteLoad
<1> DEFINE b == Broadcast(entry_rob, entry_rob[i].dest_op, FALSE)
<1>2. b \in [Slot -> Entry_rob_type]
  BY BroadcastType
<1> HIDE DEF b
<1>3. [b[i] EXCEPT !.aliased = aliased] \in Entry_rob_type
  BY <1>2 DEF Entry_rob_type
<1>4. entry_rob' = [b EXCEPT ![i] = [b[i] EXCEPT !.aliased = aliased]]
  BY <1>1 DEF b
<1>5. entry_rob' \in [Slot -> Entry_rob_type]
  BY <1>2, <1>3, <1>4
<1> QED
  BY <1>1, <1>5, OperateType DEF ExecuteLoad, TypeOK

LEMMA CommitOneType ==
  ASSUME TypeOK, CommitOne
  PROVE  TypeOK'
<1>1. entry_rob' \in [Slot -> Entry_rob_type]
<2>1. entry_rob' = [entry_rob EXCEPT ![rg_erob_head] =
                      [entry_rob[rg_erob_head] EXCEPT !.valid = FALSE]]
  BY DEF CommitOne
<2> QED
  BY <2>1, InvalidType DEF TypeOK
<1>2. csr_pending' \in Seq([dest_op : Phys, ret : BOOLEAN])
<2>1. SystemIssue \in [dest_op : Phys, ret : BOOLEAN]
  BY HeadType DEF SystemIssue
<2>2. csr_pending' = csr_pending \/ csr_pending' = Append(csr_pending, SystemIssue)
  BY DEF CommitOne, CommitSystem
<2> DEFINE T == [dest_op : Phys, ret : BOOLEAN]
<2>3. csr_pending \in Seq(T)
  BY DEF TypeOK
<2>4. SystemIssue \in T
  BY <2>1
<2> HIDE DEF T
<2>5. csr_pending' \in Seq(T)
  BY <2>2, <2>3, <2>4
<2> QED
  BY <2>5 DEF T
<1>3. rg_revert_map' \in BOOLEAN
  BY DEF CommitOne
<1> QED
  BY <1>1, <1>2, <1>3, CommitType, IncType DEF CommitOne, TypeOK, Advance

LEMMA CommitTwoType ==
  ASSUME TypeOK, CommitTwo
  PROVE  TypeOK'
<1>1. entry_rob' \in [Slot -> Entry_rob_type]
<2>1. ASSUME NEW i \in Slot PROVE [entry_rob[i] EXCEPT !.valid = FALSE] \in Entry_rob_type
  BY InvalidType DEF TypeOK
<2>2. rg_erob_head \in Slot /\ Inc(rg_erob_head) \in Slot /\ rg_erob_head # Inc(rg_erob_head)
  BY IncType, SizeAssumption DEF TypeOK, Inc, Slot
<2>3. entry_rob' = [entry_rob EXCEPT
        ![rg_erob_head] = [entry_rob[rg_erob_head] EXCEPT !.valid = FALSE],
        ![Inc(rg_erob_head)] = [entry_rob[Inc(rg_erob_head)] EXCEPT !.valid = FALSE]]
  BY <2>2 DEF CommitTwo, TypeOK
<2> QED
  BY <2>1, <2>2, <2>3 DEF TypeOK
<1> QED
  BY <1>1, CommitType, IncType DEF CommitTwo, TypeOK, Advance

LEMMA CsrType ==
  ASSUME TypeOK, CsrResult \/ CsrRedirect
  PROVE  TypeOK'
<1>1. csr_pending # <<>> /\ csr_pending \in Seq([dest_op : Phys, ret : BOOLEAN])
  BY DEF CsrResult, CsrRedirect, TypeOK
<1>2. /\ Head(csr_pending) \in [dest_op : Phys, ret : BOOLEAN]
      /\ Tail(csr_pending) \in Seq([dest_op : Phys, ret : BOOLEAN])
  BY <1>1, HeadTailProperties
<1>3. Head(csr_pending).dest_op \in Phys
  BY <1>2
<1>4. CASE CsrResult
<2>1. entry_rob' \in [Slot -> Entry_rob_type]
  BY <1>4, BroadcastType DEF CsrResult
<2>2. regFile' \in [Phys -> Val] /\ prf_valid' \in [Phys -> BOOLEAN]
  BY <1>3, <1>4 DEF CsrResult, TypeOK
<2>3. csr_pending' \in Seq([dest_op : Phys, ret : BOOLEAN])
  BY <1>2, <1>4 DEF CsrResult
<2> QED
  BY <1>4, <2>1, <2>2, <2>3 DEF CsrResult, TypeOK
<1>5. CASE CsrRedirect
  BY <1>2, <1>5 DEF CsrRedirect, TypeOK
<1> QED
  BY <1>4, <1>5

LEMMA RevertMapType ==
  ASSUME TypeOK, RevertMap
  PROVE  TypeOK'
<1>1. 0 \in Slot
  BY SizeAssumption DEF Slot
<1>2. entry_rob' \in [Slot -> Entry_rob_type]
  BY InvalidType DEF RevertMap, TypeOK
<1>3. csr_pending' \in Seq([dest_op : Phys, ret : BOOLEAN])
  BY DEF RevertMap
<1> QED
  BY <1>1, <1>2, <1>3 DEF RevertMap, TypeOK

LEMMA InitType == Init => TypeOK
<1> SUFFICES ASSUME Init PROVE TypeOK
  OBVIOUS
<1>1. 0 \in Slot /\ 0 \in Phys /\ Arch \subseteq Phys
      /\ \A i \in Slot : i + REGFILE_SIZE \in Phys
  BY SizeAssumption DEF Slot, Phys, Arch
<1>2. entry_rob \in [Slot -> Entry_rob_type]
  BY <1>1 DEF Init, Entry_rob_type
<1>3. fRAM \in [Arch -> Phys] /\ rRAM \in [Arch -> Phys] /\ frq \in [Slot -> Phys]
  BY <1>1 DEF Init
<1>4. prf_valid \in [Phys -> BOOLEAN] /\ regFile \in [Phys -> Val]
  BY ValAssumption DEF Init
<1>5. csr_pending \in Seq([dest_op : Phys, ret : BOOLEAN])
  BY DEF Init
<1> QED
  BY <1>1, <1>2, <1>3, <1>4, <1>5 DEF Init, TypeOK

LEMMA TypeInductive == TypeOK /\ [Next]_vars => TypeOK'
<1> SUFFICES ASSUME TypeOK, [Next]_vars PROVE TypeOK'
  OBVIOUS
<1>1. CASE UNCHANGED vars
  BY <1>1 DEF vars, TypeOK
<1>2. CASE Next
  BY <1>2, MapOneType, MapTwoType, ExecuteType, ExecuteLoadType, CommitOneType,
     CommitTwoType, CsrType, RevertMapType DEF Next
<1> QED
  BY <1>1, <1>2

(* In every reachable state the maps hold physical registers, the pointers *)
(* are slot numbers and the ROB holds decoded instructions.                *)
THEOREM TypeCorrect == Spec => []TypeOK
  BY InitType, TypeInductive, PTL DEF Spec

-----------------------------------------------------------------------------
(***************************************************************************)
(* The register invariants.  They are inductive together: conservation     *)
(* needs the destination of the head to sit in the queue slot that commit  *)
(* overwrites, hence DestInQueue, hence the pointers in Lockstep.          *)
(***************************************************************************)

(* A broadcast leaves alone what identifies an instruction.                *)
LEMMA BroadcastKeeps ==
  ASSUME TypeOK, NEW tag, NEW squash \in BOOLEAN, NEW i \in Slot
  PROVE  LET f == Broadcast(entry_rob, tag, squash)[i]
         IN  /\ f.valid = entry_rob[i].valid /\ f.inst = entry_rob[i].inst
             /\ f.dest_op = entry_rob[i].dest_op
             /\ f.op_1 = entry_rob[i].op_1 /\ f.op_2 = entry_rob[i].op_2
<1> DEFINE Same(f, e) == /\ f.valid = e.valid /\ f.inst = e.inst
                         /\ f.dest_op = e.dest_op /\ f.op_1 = e.op_1 /\ f.op_2 = e.op_2
<1>1. ASSUME NEW e \in Entry_rob_type
      PROVE  Same(Wakeup(e, tag), e) /\ Wakeup(e, tag) \in Entry_rob_type
  BY DEF Wakeup, Entry_rob_type
<1>2. ASSUME NEW e \in Entry_rob_type
      PROVE  Same(ExecuteDone(e, tag, squash), e)
  BY DEF ExecuteDone, Entry_rob_type
<1>3. entry_rob[i] \in Entry_rob_type
  BY DEF TypeOK
<1>4. Broadcast(entry_rob, tag, squash)[i] = ExecuteDone(Wakeup(entry_rob[i], tag), tag, squash)
  BY DEF Broadcast
<1> QED
  BY <1>1, <1>2, <1>3, <1>4

(* Clearing the valid bit leaves the rest of an entry alone.               *)
LEMMA InvalidKeeps ==
  ASSUME NEW e \in Entry_rob_type
  PROVE  LET f == [e EXCEPT !.valid = FALSE]
         IN  /\ ~f.valid /\ f.inst = e.inst /\ f.dest_op = e.dest_op
             /\ f.op_1 = e.op_1 /\ f.op_2 = e.op_2
  BY DEF Entry_rob_type

(* Steps that write results: they change neither which instructions are in *)
(* flight nor any map, queue or pointer.                                   *)
WriteBack == (\E i \in Slot : Execute(i) \/ ExecuteLoad(i)) \/ CsrResult \/ CsrRedirect

LEMMA WriteBackKeeps ==
  ASSUME TypeOK, WriteBack
  PROVE  /\ \A j \in Slot : /\ entry_rob'[j].valid = entry_rob[j].valid
                            /\ entry_rob'[j].inst = entry_rob[j].inst
                            /\ entry_rob'[j].dest_op = entry_rob[j].dest_op
                            /\ entry_rob'[j].op_1 = entry_rob[j].op_1
                            /\ entry_rob'[j].op_2 = entry_rob[j].op_2
         /\ UNCHANGED <<fRAM, rRAM, frq, rg_frq_head, rg_frq_tail, rg_erob_head, rg_erob_tail>>
<1> DEFINE Keeps == \A j \in Slot : /\ entry_rob'[j].valid = entry_rob[j].valid
                                    /\ entry_rob'[j].inst = entry_rob[j].inst
                                    /\ entry_rob'[j].dest_op = entry_rob[j].dest_op
                                    /\ entry_rob'[j].op_1 = entry_rob[j].op_1
                                    /\ entry_rob'[j].op_2 = entry_rob[j].op_2
<1>1. ASSUME NEW i \in Slot, Execute(i) PROVE Keeps
  BY <1>1, BroadcastKeeps DEF Execute
<1>2. ASSUME NEW i \in Slot, ExecuteLoad(i) PROVE Keeps
<2> DEFINE b == Broadcast(entry_rob, entry_rob[i].dest_op, FALSE)
<2>1. PICK aliased \in BOOLEAN : entry_rob' = [b EXCEPT ![i].aliased = aliased]
  BY <1>2 DEF ExecuteLoad
<2>2. b \in [Slot -> Entry_rob_type]
  BY BroadcastType
<2>3. \A j \in Slot : /\ b[j].valid = entry_rob[j].valid /\ b[j].inst = entry_rob[j].inst
                      /\ b[j].dest_op = entry_rob[j].dest_op
                      /\ b[j].op_1 = entry_rob[j].op_1 /\ b[j].op_2 = entry_rob[j].op_2
  BY BroadcastKeeps
<2> HIDE DEF b
<2>4. entry_rob' = [b EXCEPT ![i] = [b[i] EXCEPT !.aliased = aliased]]
  BY <2>1
<2> DEFINE f == [b[i] EXCEPT !.aliased = aliased]
<2>5. /\ f.valid = b[i].valid /\ f.inst = b[i].inst /\ f.dest_op = b[i].dest_op
      /\ f.op_1 = b[i].op_1 /\ f.op_2 = b[i].op_2
  BY <2>2 DEF Entry_rob_type
<2>6. \A j \in Slot : entry_rob'[j] = IF j = i THEN f ELSE b[j]
  BY <2>2, <2>4
<2> HIDE DEF f
<2>7. \A j \in Slot : /\ entry_rob'[j].valid = b[j].valid /\ entry_rob'[j].inst = b[j].inst
                      /\ entry_rob'[j].dest_op = b[j].dest_op
                      /\ entry_rob'[j].op_1 = b[j].op_1 /\ entry_rob'[j].op_2 = b[j].op_2
  BY <2>5, <2>6
<2> QED
  BY <2>3, <2>7
<1>3. ASSUME CsrResult PROVE Keeps
<2>1. entry_rob' = Broadcast(entry_rob, Head(csr_pending).dest_op, FALSE)
  BY <1>3 DEF CsrResult
<2> QED
  BY <2>1, BroadcastKeeps
<1>4. CsrRedirect => Keeps
  BY DEF CsrRedirect
<1>5. Keeps
  BY <1>1, <1>2, <1>3, <1>4 DEF WriteBack
<1>6. UNCHANGED <<fRAM, rRAM, frq, rg_frq_head, rg_frq_tail, rg_erob_head, rg_erob_tail>>
  BY DEF WriteBack, Execute, ExecuteLoad, CsrResult, CsrRedirect
<1> QED
  BY <1>5, <1>6

(* Dispatch: the new entries are valid and own the registers of the queue  *)
(* slots at its head.                                                      *)
LEMMA MapOneRob ==
  ASSUME TypeOK, NEW d \in Decoded, MapOne(d)
  PROVE  /\ \A i \in Slot \ {rg_erob_tail} : entry_rob'[i] = entry_rob[i]
         /\ entry_rob'[rg_erob_tail].valid
         /\ entry_rob'[rg_erob_tail].inst = d
         /\ entry_rob'[rg_erob_tail].dest_op = frq[rg_frq_head]
<1>1. \A i \in Slot : entry_rob'[i] = IF i = rg_erob_tail THEN EntryOf(d, dest_0) ELSE entry_rob[i]
  BY DEF MapOne, TypeOK
<1>2. LET f == EntryOf(d, dest_0) IN f.valid /\ f.inst = d /\ f.dest_op = dest_0
  BY DEF EntryOf, NewEntry
<1> QED
  BY <1>1, <1>2 DEF dest_0, TypeOK

LEMMA MapTwoRob ==
  ASSUME TypeOK, NEW d0 \in Decoded, NEW d1 \in Decoded, MapTwo(d0, d1)
  PROVE  /\ \A i \in Slot \ {rg_erob_tail, Inc(rg_erob_tail)} : entry_rob'[i] = entry_rob[i]
         /\ entry_rob'[rg_erob_tail].valid
         /\ entry_rob'[rg_erob_tail].inst = d0
         /\ entry_rob'[rg_erob_tail].dest_op = frq[rg_frq_head]
         /\ entry_rob'[Inc(rg_erob_tail)].valid
         /\ entry_rob'[Inc(rg_erob_tail)].inst = d1
         /\ entry_rob'[Inc(rg_erob_tail)].dest_op = frq[Inc(rg_frq_head)]
<1>1. \A i \in Slot : entry_rob'[i] = IF i = Inc(rg_erob_tail) THEN SecondEntry(d0, d1)
                                      ELSE IF i = rg_erob_tail THEN EntryOf(d0, dest_0)
                                      ELSE entry_rob[i]
  BY DEF MapTwo, TypeOK
<1>2. LET f == EntryOf(d0, dest_0) IN f.valid /\ f.inst = d0 /\ f.dest_op = dest_0
  BY DEF EntryOf, NewEntry
<1>3. LET f == SecondEntry(d0, d1) IN f.valid /\ f.inst = d1 /\ f.dest_op = dest_1
  BY DEF SecondEntry, NewEntry
<1>4. rg_erob_tail \in Slot /\ Inc(rg_erob_tail) \in Slot /\ rg_erob_tail # Inc(rg_erob_tail)
  BY IncType, SizeAssumption DEF TypeOK, Inc, Slot
<1> QED
  BY <1>1, <1>2, <1>3, <1>4 DEF dest_0, dest_1

(* Commit: only the valid bits of the committed entries change.            *)
LEMMA CommitOneRob ==
  ASSUME TypeOK, CommitOne
  PROVE  /\ \A i \in Slot \ {rg_erob_head} : entry_rob'[i] = entry_rob[i]
         /\ head_0.valid /\ ~entry_rob'[rg_erob_head].valid
<1>1. \A i \in Slot : entry_rob'[i] = IF i = rg_erob_head
                                      THEN [entry_rob[i] EXCEPT !.valid = FALSE]
                                      ELSE entry_rob[i]
  BY DEF CommitOne, TypeOK
<1>2. entry_rob[rg_erob_head] \in Entry_rob_type /\ rg_erob_head \in Slot
  BY DEF TypeOK
<1> QED
  BY <1>1, <1>2, InvalidKeeps DEF CommitOne, CanCommit

LEMMA CommitTwoRob ==
  ASSUME TypeOK, CommitTwo
  PROVE  /\ \A i \in Slot \ {rg_erob_head, Inc(rg_erob_head)} : entry_rob'[i] = entry_rob[i]
         /\ head_0.valid /\ ~entry_rob'[rg_erob_head].valid
         /\ head_1.valid /\ ~entry_rob'[Inc(rg_erob_head)].valid
<1>1. rg_erob_head \in Slot /\ Inc(rg_erob_head) \in Slot /\ rg_erob_head # Inc(rg_erob_head)
  BY IncType, SizeAssumption DEF TypeOK, Inc, Slot
<1>2. \A i \in Slot : entry_rob'[i] = IF i \in {rg_erob_head, Inc(rg_erob_head)}
                                      THEN [entry_rob[i] EXCEPT !.valid = FALSE]
                                      ELSE entry_rob[i]
  BY <1>1 DEF CommitTwo, TypeOK
<1>3. /\ entry_rob[rg_erob_head] \in Entry_rob_type
      /\ entry_rob[Inc(rg_erob_head)] \in Entry_rob_type
  BY <1>1 DEF TypeOK
<1>4. head_0.valid /\ head_1.valid
  BY DEF CommitTwo, CanCommit, CommitSecond
<1>5. ~entry_rob'[rg_erob_head].valid
  BY <1>1, <1>2, <1>3, InvalidKeeps
<1>6. ~entry_rob'[Inc(rg_erob_head)].valid
  BY <1>1, <1>2, <1>3, InvalidKeeps
<1> QED
  BY <1>2, <1>4, <1>5, <1>6

LEMMA RevertMapRob ==
  ASSUME TypeOK, RevertMap
  PROVE  \A i \in Slot : ~entry_rob'[i].valid
  BY InvalidKeeps DEF RevertMap, TypeOK

(* Retiring the head exchanges its queue slot with an entry of the         *)
(* retirement map, or leaves both alone.                                   *)
LEMMA FirstSwap ==
  ASSUME TypeOK, DestInQueue, head_0.valid
  PROVE  LET h == rg_erob_head
             r == head_0.inst.rd
             q == [frq EXCEPT ![h] = reg_to_free_0]
         IN  \/ rRAM_one = rRAM /\ q = frq
             \/ /\ rRAM_one = [rRAM EXCEPT ![r] = frq[h]]
                /\ q = [frq EXCEPT ![h] = rRAM[r]]
<1>1. head_0.dest_op = frq[rg_erob_head]
  BY DEF DestInQueue, TypeOK, head_0
<1>2. CASE NoDest(head_0) \/ LoadAliased(head_0)
<2>1. [frq EXCEPT ![rg_erob_head] = reg_to_free_0] = frq
  BY <1>1, <1>2 DEF reg_to_free_0, TypeOK
<2>2. rRAM_one = rRAM
  BY <1>2 DEF rRAM_one, Retire
<2> QED
  BY <2>1, <2>2
<1>3. CASE ~NoDest(head_0) /\ ~LoadAliased(head_0)
  BY <1>1, <1>3 DEF rRAM_one, Retire, reg_to_free_0
<1> QED
  BY <1>2, <1>3

(* An exchange of a retired register and a queued one conserves registers. *)
Conserved(m, q) ==
    /\ \A r, s \in Arch : m[r] = m[s] => r = s
    /\ \A i, j \in Slot : q[i] = q[j] => i = j
    /\ \A r \in Arch, i \in Slot : m[r] # q[i]

LEMMA SwapConserves ==
  ASSUME NEW m \in [Arch -> Phys], NEW q \in [Slot -> Phys], Conserved(m, q),
         NEW r \in Arch, NEW h \in Slot
  PROVE  Conserved([m EXCEPT ![r] = q[h]], [q EXCEPT ![h] = m[r]])
  BY DEF Conserved

(* Commit of two instructions is two exchanges, the second one on the maps *)
(* left by the first.                                                      *)
LEMMA CommitTwoSwap ==
  ASSUME TypeOK, Lockstep, DestInQueue, CommitTwo,
         NEW m, m = rRAM_one, NEW q, q = [frq EXCEPT ![rg_erob_head] = reg_to_free_0]
  PROVE  LET h == Inc(rg_erob_head)
             r == head_1.inst.rd
         IN  \/ rRAM' = m /\ frq' = q
             \/ /\ rRAM' = [m EXCEPT ![r] = q[h]]
                /\ frq' = [q EXCEPT ![h] = m[r]]
<1> DEFINE h == Inc(rg_erob_head)
           r == head_1.inst.rd
<1>1. rg_erob_head \in Slot /\ h \in Slot /\ h # rg_erob_head
  BY IncType, SizeAssumption DEF TypeOK, Inc, Slot
<1>2. rg_frq_tail = rg_erob_head /\ head_1.dest_op = frq[h] /\ q[h] = frq[h]
  BY <1>1, CommitTwoRob DEF Lockstep, DestInQueue, TypeOK, head_1
<1>3. rRAM' = rRAM_two /\ frq' = [q EXCEPT ![h] = reg_to_free_1]
  BY <1>2 DEF CommitTwo, TypeOK
<1>4. CASE LoadAliased(head_0) \/ LoadAliased(head_1) \/ NoDest(head_1)
<2>1. reg_to_free_1 = q[h]
  BY <1>2, <1>4 DEF reg_to_free_1
<2>2. frq' = q
  BY <1>1, <1>3, <2>1 DEF TypeOK
<2>3. rRAM' = m
  BY <1>3, <1>4 DEF rRAM_two, Retire
<2> QED
  BY <2>2, <2>3
<1>5. CASE ~LoadAliased(head_0) /\ ~LoadAliased(head_1) /\ ~NoDest(head_1)
<2>1. rRAM' = [m EXCEPT ![r] = q[h]]
  BY <1>2, <1>3, <1>5 DEF rRAM_two, Retire
<2>2. reg_to_free_1 = m[r]
<3>1. head_0.inst.rd \in Arch /\ r \in Arch /\ rRAM \in [Arch -> Phys] /\ r # 0
  BY <1>5, HeadType DEF TypeOK, NoDest
<3>2. m = Retire(rRAM, head_0)
  BY <1>5 DEF rRAM_one
<3>3. CASE NoDest(head_0)
<4>1. isSTR(head_0.inst) \/ isCond(head_0.inst) \/ head_0.inst.rd # r
  BY <3>1, <3>3 DEF NoDest
<4> QED
  BY <1>5, <3>2, <3>3, <4>1 DEF reg_to_free_1, Retire
<3>4. CASE ~NoDest(head_0)
  BY <1>5, <3>1, <3>2, <3>4 DEF reg_to_free_1, Retire, NoDest
<3> QED
  BY <3>3, <3>4
<2> QED
  BY <1>3, <2>1, <2>2
<1> QED
  BY <1>4, <1>5

LEMMA FirstConserves ==
  ASSUME TypeOK, DestInQueue, RegistersConserved, head_0.valid
  PROVE  /\ Conserved(rRAM_one, [frq EXCEPT ![rg_erob_head] = reg_to_free_0])
         /\ [frq EXCEPT ![rg_erob_head] = reg_to_free_0] \in [Slot -> Phys]
<1>1. Conserved(rRAM, frq)
  BY DEF RegistersConserved, Conserved
<1>2. /\ rRAM \in [Arch -> Phys] /\ frq \in [Slot -> Phys]
      /\ head_0.inst.rd \in Arch /\ rg_erob_head \in Slot
  BY HeadType DEF TypeOK
<1>3. Conserved([rRAM EXCEPT ![head_0.inst.rd] = frq[rg_erob_head]],
                [frq EXCEPT ![rg_erob_head] = rRAM[head_0.inst.rd]])
  BY <1>1, <1>2, SwapConserves
<1> QED
  BY <1>1, <1>2, <1>3, FirstSwap, CommitType

LEMMA CommitConserves ==
  ASSUME TypeOK, Lockstep, DestInQueue, RegistersConserved, CommitOne \/ CommitTwo
  PROVE  RegistersConserved'
<1> DEFINE m == rRAM_one
           q == [frq EXCEPT ![rg_erob_head] = reg_to_free_0]
<1>1. Conserved(m, q) /\ q \in [Slot -> Phys] /\ m \in [Arch -> Phys]
  BY FirstConserves, CommitOneRob, CommitTwoRob, CommitType
<1>2. CASE CommitOne
<2>1. rRAM' = m /\ frq' = q
  BY <1>2 DEF CommitOne, Lockstep
<2> QED
  BY <1>1, <2>1 DEF Conserved, RegistersConserved
<1>3. CASE CommitTwo
<2>1. head_1.inst.rd \in Arch /\ Inc(rg_erob_head) \in Slot
  BY HeadType, IncType DEF TypeOK
<2>2. /\ m = rRAM_one
      /\ q = [frq EXCEPT ![rg_erob_head] = reg_to_free_0]
  OBVIOUS
<2> HIDE DEF m, q
<2>3. \/ rRAM' = m /\ frq' = q
      \/ /\ rRAM' = [m EXCEPT ![head_1.inst.rd] = q[Inc(rg_erob_head)]]
         /\ frq' = [q EXCEPT ![Inc(rg_erob_head)] = m[head_1.inst.rd]]
  BY <1>3, <2>2, CommitTwoSwap
<2>4. Conserved([m EXCEPT ![head_1.inst.rd] = q[Inc(rg_erob_head)]],
                [q EXCEPT ![Inc(rg_erob_head)] = m[head_1.inst.rd]])
  BY <1>1, <2>1, SwapConserves
<2>5. Conserved(rRAM', frq')
  BY <1>1, <2>3, <2>4
<2> QED
  BY <2>5 DEF Conserved, RegistersConserved
<1> QED
  BY <1>2, <1>3

RegInv == TypeOK /\ Lockstep /\ DestInQueue /\ RegistersConserved

LEMMA RegInductive == RegInv /\ [Next]_vars => RegInv'
<1> SUFFICES ASSUME TypeOK, Lockstep, DestInQueue, RegistersConserved, [Next]_vars
             PROVE  RegInv'
  BY DEF RegInv
<1>1. TypeOK'
  BY TypeInductive
<1>2. ASSUME NEW d \in Decoded, MapOne(d)
      PROVE  Lockstep' /\ DestInQueue' /\ RegistersConserved'
<2>1. UNCHANGED <<frq, rRAM>> /\ Lockstep'
  BY <1>2 DEF MapOne, Lockstep, Advance, next_frq_head
<2>2. DestInQueue'
  BY <1>2, <2>1, MapOneRob DEF Lockstep, DestInQueue
<2> QED
  BY <2>1, <2>2 DEF RegistersConserved
<1>3. ASSUME NEW d0 \in Decoded, NEW d1 \in Decoded, MapTwo(d0, d1)
      PROVE  Lockstep' /\ DestInQueue' /\ RegistersConserved'
<2>1. UNCHANGED <<frq, rRAM>> /\ Lockstep'
  BY <1>3 DEF MapTwo, Lockstep, Advance, next_frq_head
<2>2. DestInQueue'
  BY <1>3, <2>1, MapTwoRob DEF Lockstep, DestInQueue
<2> QED
  BY <2>1, <2>2 DEF RegistersConserved
<1>4. CASE WriteBack
  BY <1>1, <1>4, WriteBackKeeps DEF Lockstep, DestInQueue, RegistersConserved, RegInv
<1>5. CASE CommitOne
<2>1. Lockstep' /\ \A i \in Slot \ {rg_erob_head} : frq'[i] = frq[i]
  BY <1>5 DEF CommitOne, Lockstep, TypeOK
<2>2. DestInQueue'
  BY <1>5, <2>1, CommitOneRob DEF DestInQueue
<2> QED
  BY <1>1, <1>5, <2>1, <2>2, CommitConserves DEF RegInv
<1>6. CASE CommitTwo
<2>1. Lockstep' /\ \A i \in Slot \ {rg_erob_head, Inc(rg_erob_head)} : frq'[i] = frq[i]
  BY <1>6 DEF CommitTwo, Lockstep, TypeOK
<2>2. DestInQueue'
  BY <1>6, <2>1, CommitTwoRob DEF DestInQueue
<2> QED
  BY <1>1, <1>6, <2>1, <2>2, CommitConserves DEF RegInv
<1>7. CASE RevertMap
  BY <1>1, <1>7, RevertMapRob DEF RevertMap, Lockstep, DestInQueue, RegistersConserved, RegInv
<1>8. CASE UNCHANGED vars
  BY <1>8 DEF vars, TypeOK, Lockstep, DestInQueue, RegistersConserved, RegInv
<1> QED
  BY <1>1, <1>2, <1>3, <1>4, <1>5, <1>6, <1>7, <1>8 DEF Next, WriteBack, RegInv

LEMMA RegInit == Init => RegInv
<1> SUFFICES ASSUME Init PROVE RegInv
  OBVIOUS
<1>1. Lockstep /\ DestInQueue
  BY DEF Init, Lockstep, DestInQueue
<1>2. RegistersConserved
  BY SizeAssumption DEF Init, RegistersConserved, Arch, Slot
<1> QED
  BY <1>1, <1>2, InitType DEF RegInv

LEMMA RegInvariant == Spec => []RegInv
  BY RegInit, RegInductive, PTL DEF Spec

(* Dispatch and commit move the pointers of the free register queue and of *)
(* the ROB in step, through every commit, flush and replay.                *)
THEOREM LockstepHolds == Spec => []Lockstep
<1>1. RegInv => Lockstep
  BY DEF RegInv
<1> QED
  BY <1>1, RegInvariant, PTL

(* Commit and flush neither lose a physical register nor hand it out       *)
(* twice, whatever is squashed, replayed or committed in pairs.            *)
THEOREM RegistersConservedHolds == Spec => []RegistersConserved
<1>1. RegInv => RegistersConserved
  BY DEF RegInv
<1> QED
  BY <1>1, RegInvariant, PTL

(* An allocated register stays in the queue slot of its ROB entry, which   *)
(* is why a flush may simply zero the queue's pointers.                    *)
THEOREM DestInQueueHolds == Spec => []DestInQueue
<1>1. RegInv => DestInQueue
  BY DEF RegInv
<1> QED
  BY <1>1, RegInvariant, PTL

-----------------------------------------------------------------------------
(***************************************************************************)
(* The valid entries are the window between head and tail.                 *)
(***************************************************************************)

LEMMA MapOneWindow ==
  ASSUME TypeOK, Window, NEW d \in Decoded, MapOne(d)
  PROVE  Window'
<1>1. /\ rg_erob_head' = rg_erob_head /\ rg_erob_tail' = Inc(rg_erob_tail)
      /\ Inc(rg_erob_tail) # rg_erob_head
      /\ rg_erob_head = rg_erob_tail => ~entry_rob[rg_erob_head].valid
  BY DEF MapOne, CanMap, erob_full, Advance
<1>2. rg_erob_head \in Slot /\ rg_erob_tail \in Slot
  BY DEF TypeOK
<1>3. \A i \in Slot : entry_rob'[i].valid <=> entry_rob[i].valid \/ i = rg_erob_tail
  BY <1>2, MapOneRob
<1> QED
  BY <1>1, <1>2, <1>3, SizeAssumption DEF Window, InFlight, Age, Inc, Slot

LEMMA MapTwoWindow ==
  ASSUME TypeOK, Window, NEW d0 \in Decoded, NEW d1 \in Decoded, MapTwo(d0, d1)
  PROVE  Window'
<1>1. /\ rg_erob_head' = rg_erob_head /\ rg_erob_tail' = Inc(Inc(rg_erob_tail))
      /\ Inc(rg_erob_tail) # rg_erob_head
      /\ rg_erob_head = rg_erob_tail => ~entry_rob[rg_erob_head].valid
  BY DEF MapTwo, CanMap, erob_full, Advance
<1>2. rg_erob_head \in Slot /\ rg_erob_tail \in Slot /\ Inc(rg_erob_tail) \in Slot
  BY IncType DEF TypeOK
<1>3. \A i \in Slot : entry_rob'[i].valid <=>
                        entry_rob[i].valid \/ i = rg_erob_tail \/ i = Inc(rg_erob_tail)
  BY <1>2, MapTwoRob
<1> QED
  BY <1>1, <1>2, <1>3, SizeAssumption DEF Window, InFlight, Age, Inc, Slot

LEMMA CommitOneWindow ==
  ASSUME TypeOK, Window, CommitOne
  PROVE  Window'
<1>1. /\ rg_erob_head' = Inc(rg_erob_head) /\ rg_erob_tail' = rg_erob_tail
      /\ entry_rob[rg_erob_head].valid
  BY CommitOneRob DEF CommitOne, head_0, Advance
<1>2. rg_erob_head \in Slot /\ rg_erob_tail \in Slot
  BY DEF TypeOK
<1>3. \A i \in Slot : entry_rob'[i].valid <=> entry_rob[i].valid /\ i # rg_erob_head
  BY <1>2, CommitOneRob
<1> QED
  BY <1>1, <1>2, <1>3, SizeAssumption DEF Window, InFlight, Age, Inc, Slot

LEMMA CommitTwoWindow ==
  ASSUME TypeOK, Window, CommitTwo
  PROVE  Window'
<1>1. /\ rg_erob_head' = Inc(Inc(rg_erob_head)) /\ rg_erob_tail' = rg_erob_tail
      /\ entry_rob[rg_erob_head].valid /\ entry_rob[Inc(rg_erob_head)].valid
  BY CommitTwoRob DEF CommitTwo, head_0, head_1, Advance
<1>2. rg_erob_head \in Slot /\ rg_erob_tail \in Slot /\ Inc(rg_erob_head) \in Slot
  BY IncType DEF TypeOK
<1>3. \A i \in Slot : entry_rob'[i].valid <=>
                        entry_rob[i].valid /\ i # rg_erob_head /\ i # Inc(rg_erob_head)
  BY <1>2, CommitTwoRob
<1> QED
  BY <1>1, <1>2, <1>3, SizeAssumption DEF Window, InFlight, Age, Inc, Slot

LEMMA WindowInductive == TypeOK /\ Window /\ [Next]_vars => Window'
<1> SUFFICES ASSUME TypeOK, Window, [Next]_vars PROVE Window'
  OBVIOUS
<1>1. CASE WriteBack
  BY <1>1, WriteBackKeeps DEF Window, InFlight, Age, TypeOK
<1>2. CASE RevertMap
<2>1. rg_erob_head' = 0 /\ rg_erob_tail' = 0 /\ \A i \in Slot : ~entry_rob'[i].valid
  BY <1>2, RevertMapRob DEF RevertMap
<2> QED
  BY <2>1, SizeAssumption DEF Window, InFlight, Age, Slot
<1>3. CASE UNCHANGED vars
  BY <1>3 DEF vars, Window, InFlight, Age
<1> QED
  BY <1>1, <1>2, <1>3, MapOneWindow, MapTwoWindow, CommitOneWindow, CommitTwoWindow
     DEF Next, WriteBack

(* Dispatch never overwrites an instruction in flight and commit never     *)
(* leaves a hole, although the ROB has no counter: its full test looks at  *)
(* the pointers and the valid bit of the head only.                        *)
THEOREM WindowHolds == Spec => []Window
<1>1. Init => Window
  BY SizeAssumption DEF Init, Window, InFlight, Age, Slot
<1> QED
  BY <1>1, WindowInductive, TypeCorrect, PTL DEF Spec

-----------------------------------------------------------------------------
(***************************************************************************)
(* The maps: the front-end map is the retirement map overlaid with the     *)
(* instructions in flight, and the operands of each of these are the       *)
(* registers of its youngest older writers.                                *)
(***************************************************************************)

(***************************************************************************)
(* The overlay, apart from the ROB it is read off: wr[i] is the register   *)
(* the instruction in slot i writes (0 if none), dst[i] its destination,   *)
(* m the retirement map and ag[i] the age of slot i.                       *)
(***************************************************************************)
Writer(wr, ag, r, n, i) == wr[i] = r /\ r # 0 /\ ag[i] < n

Overlay(wr, dst, m, ag, p, r, n) ==
    \/ \E i \in Slot : /\ Writer(wr, ag, r, n, i) /\ p = dst[i]
                       /\ \A j \in Slot : Writer(wr, ag, r, n, j) => ag[j] <= ag[i]
    \/ (\A i \in Slot : ~Writer(wr, ag, r, n, i)) /\ p = m[r]

(* Entering an instruction that is younger than all others.                *)
LEMMA OverlayEnter ==
  ASSUME NEW wr \in [Slot -> Arch], NEW dst \in [Slot -> Phys], NEW m, NEW ag \in [Slot -> Nat],
         NEW t \in Slot, NEW d \in Arch, NEW q \in Phys,
         wr[t] = 0, \A j \in Slot : wr[j] # 0 => ag[j] < ag[t],
         NEW p, NEW r \in Arch, NEW n \in Nat
  PROVE  LET w2 == [wr EXCEPT ![t] = d]
             d2 == [dst EXCEPT ![t] = q]
         IN  /\ Overlay(wr, dst, m, ag, p, r, n) /\ n <= ag[t] =>
                  Overlay(w2, d2, m, ag, p, r, n)
             /\ Overlay(wr, dst, m, ag, p, r, n) /\ n > ag[t] =>
                  Overlay(w2, d2, m, ag, p, r, ag[t])
             /\ Overlay(wr, dst, m, ag, p, r, n) /\ n > ag[t] =>
                  Overlay(w2, d2, m, ag, IF r = d /\ r # 0 THEN q ELSE p, r, n)
<1> DEFINE w2 == [wr EXCEPT ![t] = d]
           d2 == [dst EXCEPT ![t] = q]
<1>1. \A j \in Slot : /\ w2[j] = IF j = t THEN d ELSE wr[j]
                      /\ d2[j] = IF j = t THEN q ELSE dst[j]
                      /\ ag[j] \in Nat
  OBVIOUS
<1> HIDE DEF w2, d2
<1>2. ASSUME NEW k \in Nat, k <= ag[t], NEW j \in Slot
      PROVE  Writer(w2, ag, r, k, j) <=> Writer(wr, ag, r, k, j)
  BY <1>1, <1>2 DEF Writer
<1>3. ASSUME Overlay(wr, dst, m, ag, p, r, n), n <= ag[t]
      PROVE  Overlay(w2, d2, m, ag, p, r, n)
  <2>1. ASSUME NEW i \in Slot, Writer(wr, ag, r, n, i)
        PROVE  d2[i] = dst[i]
    BY <1>1, <2>1 DEF Writer
  <2> QED
    BY <1>2, <1>3, <2>1 DEF Overlay
<1>4. ASSUME n > ag[t], NEW j \in Slot
      PROVE  Writer(wr, ag, r, n, j) <=> Writer(wr, ag, r, ag[t], j)
  BY <1>4 DEF Writer
<1>5. ASSUME Overlay(wr, dst, m, ag, p, r, n), n > ag[t]
      PROVE  Overlay(w2, d2, m, ag, p, r, ag[t])
  <2>1. ASSUME NEW i \in Slot, Writer(wr, ag, r, n, i)
        PROVE  d2[i] = dst[i]
    BY <1>1, <2>1 DEF Writer
  <2>2. ag[t] \in Nat
    OBVIOUS
  <2> QED
    BY <1>2, <1>4, <1>5, <2>1, <2>2 DEF Overlay
<1>6. ASSUME Overlay(wr, dst, m, ag, p, r, n), n > ag[t]
      PROVE  Overlay(w2, d2, m, ag, IF r = d /\ r # 0 THEN q ELSE p, r, n)
  <2>1. CASE r = d /\ r # 0
    <3>1. Writer(w2, ag, r, n, t) /\ d2[t] = q
      BY <1>1, <1>6, <2>1 DEF Writer
    <3>2. \A j \in Slot : Writer(w2, ag, r, n, j) => ag[j] <= ag[t]
      BY <1>1 DEF Writer
    <3> QED
      BY <2>1, <3>1, <3>2 DEF Overlay
  <2>2. CASE ~(r = d /\ r # 0)
    <3>1. \A j \in Slot : Writer(w2, ag, r, n, j) <=> Writer(wr, ag, r, n, j)
      BY <1>1, <2>2 DEF Writer
    <3>2. \A j \in Slot : Writer(wr, ag, r, n, j) => d2[j] = dst[j]
      BY <1>1 DEF Writer
    <3> QED
      BY <1>6, <2>2, <3>1, <3>2 DEF Overlay
  <2> QED
    BY <2>1, <2>2
<1> QED
  BY <1>3, <1>5, <1>6 DEF w2, d2

(* Retiring the oldest instruction: the others become one younger, and its *)
(* register moves from the overlay to the map beneath.                     *)
LEMMA OverlayRetire ==
  ASSUME NEW wr \in [Slot -> Arch], NEW dst \in [Slot -> Phys], NEW m \in [Arch -> Phys],
         NEW ag \in [Slot -> Nat], NEW a2 \in [Slot -> Nat], NEW w2 \in [Slot -> Arch],
         NEW d2 \in [Slot -> Phys], NEW t \in Slot, ag[t] = 0, w2[t] = 0,
         \A j \in Slot : j # t => a2[j] + 1 = ag[j] /\ w2[j] = wr[j] /\ d2[j] = dst[j],
         NEW p, NEW r \in Arch, NEW n \in Nat, Overlay(wr, dst, m, ag, p, r, n + 1)
  PROVE  Overlay(w2, d2, IF wr[t] = 0 THEN m ELSE [m EXCEPT ![wr[t]] = dst[t]], a2, p, r, n)
<1> DEFINE m2 == IF wr[t] = 0 THEN m ELSE [m EXCEPT ![wr[t]] = dst[t]]
<1>1. ASSUME NEW j \in Slot
      PROVE  Writer(w2, a2, r, n, j) <=> j # t /\ Writer(wr, ag, r, n + 1, j)
  BY DEF Writer
<1>2. CASE \E i \in Slot : i # t /\ Writer(wr, ag, r, n + 1, i)
  <2>1. PICK k \in Slot : k # t /\ Writer(wr, ag, r, n + 1, k)
    BY <1>2
  <2>2. PICK i \in Slot : /\ Writer(wr, ag, r, n + 1, i) /\ p = dst[i]
                          /\ \A j \in Slot : Writer(wr, ag, r, n + 1, j) => ag[j] <= ag[i]
    BY <2>1 DEF Overlay
  <2>3. i # t
    BY <2>1, <2>2
  <2>4. Writer(w2, a2, r, n, i) /\ p = d2[i]
    BY <1>1, <2>2, <2>3
  <2>5. ASSUME NEW j \in Slot, Writer(w2, a2, r, n, j)
        PROVE  a2[j] <= a2[i]
    <3>1. j # t /\ ag[j] <= ag[i]
      BY <1>1, <2>2, <2>5
    <3> QED
      BY <2>3, <3>1
  <2> QED
    BY <2>4, <2>5 DEF Overlay
<1>3. CASE \A i \in Slot : i # t => ~Writer(wr, ag, r, n + 1, i)
  <2>1. \A i \in Slot : ~Writer(w2, a2, r, n, i)
    BY <1>1, <1>3
  <2>2. p = m2[r]
    <3>1. CASE Writer(wr, ag, r, n + 1, t)
      <4>1. p = dst[t] /\ wr[t] = r /\ r # 0
        BY <1>3, <3>1 DEF Overlay, Writer
      <4> QED
        BY <4>1
    <3>2. CASE ~Writer(wr, ag, r, n + 1, t)
      <4>1. p = m[r]
        BY <1>3, <3>2 DEF Overlay
      <4>2. wr[t] # r \/ r = 0
        BY <3>2 DEF Writer
      <4> QED
        BY <4>1, <4>2
    <3> QED
      BY <3>1, <3>2
  <2> QED
    BY <2>1, <2>2 DEF Overlay
<1> QED
  BY <1>2, <1>3

(* Where no instruction is as old as k, it does not matter how far beyond  *)
(* k one looks.                                                            *)
LEMMA OverlayBeyond ==
  ASSUME NEW wr \in [Slot -> Arch], NEW dst, NEW m, NEW ag \in [Slot -> Nat],
         NEW k \in Nat, NEW n \in Nat, k <= n, \A j \in Slot : wr[j] # 0 => ag[j] < k,
         NEW p, NEW r \in Arch
  PROVE  Overlay(wr, dst, m, ag, p, r, n) <=> Overlay(wr, dst, m, ag, p, r, k)
<1>1. \A j \in Slot : Writer(wr, ag, r, n, j) <=> Writer(wr, ag, r, k, j)
  BY DEF Writer
<1> QED
  BY <1>1 DEF Overlay

-----------------------------------------------------------------------------
(***************************************************************************)
(* The overlay of a ROB whose head is h.                                   *)
(***************************************************************************)
WrOf(rob) == [i \in Slot |-> IF rob[i].valid THEN rob[i].inst.rd ELSE 0]
DstOf(rob) == [i \in Slot |-> rob[i].dest_op]
AgeFrom(h) == [i \in Slot |-> IF i >= h THEN i - h ELSE i - h + ENTRY_ROB_SIZE]

(* FrontMapCorrect and OperandsCorrect, read off the overlay.  The rs1 of  *)
(* a System instruction that does not read it is not bypassed.             *)
Names1(d) == d.rs1_valid \/ d.rs1 = 0

SourcesIn(wr, dst, m, ag, e, n) ==
    /\ Names1(e.inst) => Overlay(wr, dst, m, ag, e.op_1, e.inst.rs1, n)
    /\ Overlay(wr, dst, m, ag, e.op_2, e.inst.rs2, n)

Right(wr, dst, m, ag, f, rob, S) ==
    /\ \A r \in Arch : Overlay(wr, dst, m, ag, f[r], r, ENTRY_ROB_SIZE)
    /\ \A i \in S : SourcesIn(wr, dst, m, ag, rob[i], ag[i])

ValidOf(rob) == {i \in Slot : rob[i].valid}

MapInv ==
    ~rg_revert_map =>
      Right(WrOf(entry_rob), DstOf(entry_rob), rRAM, AgeFrom(rg_erob_head), fRAM,
            entry_rob, ValidOf(entry_rob))

(* An entry names architectural and physical registers.                    *)
LEMMA EntryRegisters ==
  ASSUME NEW e \in Entry_rob_type
  PROVE  /\ e.valid \in BOOLEAN /\ e.inst.rd \in Arch /\ e.inst.rs1 \in Arch /\ e.inst.rs2 \in Arch
         /\ e.dest_op \in Phys /\ e.op_1 \in Phys /\ e.op_2 \in Phys
         /\ NoDest(e) <=> e.inst.rd = 0
<1>1. /\ e.inst \in Decoded \cup {NOP} /\ e.dest_op \in Phys /\ e.op_1 \in Phys /\ e.op_2 \in Phys
      /\ e.valid \in BOOLEAN
  BY DEF Entry_rob_type
<1>2. 0 \in Arch
  BY SizeAssumption DEF Arch
<1>3. /\ e.inst.rd \in Arch /\ e.inst.rs1 \in Arch /\ e.inst.rs2 \in Arch
      /\ isSTR(e.inst) \/ isCond(e.inst) => e.inst.rd = 0
  BY <1>1, <1>2, DecodedAssumption DEF DecodedType, NOP
<1> QED
  BY <1>1, <1>3 DEF NoDest

LEMMA RobFunctions ==
  ASSUME NEW rob \in [Slot -> Entry_rob_type]
  PROVE  WrOf(rob) \in [Slot -> Arch] /\ DstOf(rob) \in [Slot -> Phys]
<1>1. \A i \in Slot : rob[i].inst.rd \in Arch /\ rob[i].dest_op \in Phys
  BY EntryRegisters
<1>2. 0 \in Arch
  BY SizeAssumption DEF Arch
<1> QED
  BY <1>1, <1>2 DEF WrOf, DstOf

LEMMA AgeFunction ==
  ASSUME NEW h \in Slot
  PROVE  /\ AgeFrom(h) \in [Slot -> Nat]
         /\ AgeFrom(h)[h] = 0
         /\ AgeFrom(h) \in [Slot -> 0 .. ENTRY_ROB_SIZE - 1]
  BY SizeAssumption DEF AgeFrom, Slot

(* The next slot is one younger, unless it is the head.                    *)
LEMMA AgeNext ==
  ASSUME NEW h \in Slot, NEW i \in Slot
  PROVE  /\ Inc(i) # h => AgeFrom(h)[Inc(i)] = AgeFrom(h)[i] + 1
         /\ i # h => AgeFrom(Inc(h))[i] + 1 = AgeFrom(h)[i]
         /\ AgeFrom(Inc(h))[h] = ENTRY_ROB_SIZE - 1
  BY SizeAssumption, IncType DEF AgeFrom, Slot, Inc

(* The invariant is what the two properties say.                           *)
LEMMA MapInvMeaning ==
  ASSUME TypeOK, MapInv
  PROVE  FrontMapCorrect /\ OperandsCorrect
<1>1. ASSUME NEW p, NEW r \in Arch, NEW n \in Nat,
             Overlay(WrOf(entry_rob), DstOf(entry_rob), rRAM, AgeFrom(rg_erob_head), p, r, n)
      PROVE  MappedAt(p, r, n)
  <2> DEFINE wr == WrOf(entry_rob)
             dst == DstOf(entry_rob)
             ag == AgeFrom(rg_erob_head)
  <2>1. \A i \in Slot : /\ ag[i] = Age(i) /\ Age(i) \in Nat /\ dst[i] = entry_rob[i].dest_op
                         /\ wr[i] = IF entry_rob[i].valid THEN entry_rob[i].inst.rd ELSE 0
    BY SizeAssumption DEF AgeFrom, Age, WrOf, DstOf, TypeOK, Slot
  <2> HIDE DEF wr, dst, ag
  <2>2. \A i \in Slot : Writer(wr, ag, r, n, i) <=> Writes(i, r) /\ Age(i) < n
    BY <2>1 DEF Writer, Writes
  <2>3. Overlay(wr, dst, rRAM, ag, p, r, n)
    BY <1>1 DEF wr, dst, ag
  <2>4. CASE \E i \in Slot : /\ Writer(wr, ag, r, n, i) /\ p = dst[i]
                              /\ \A j \in Slot : Writer(wr, ag, r, n, j) => ag[j] <= ag[i]
    BY <2>1, <2>2, <2>4 DEF MappedAt
  <2>5. CASE (\A i \in Slot : ~Writer(wr, ag, r, n, i)) /\ p = rRAM[r]
    BY <2>1, <2>2, <2>5 DEF MappedAt
  <2> QED
    BY <2>3, <2>4, <2>5 DEF Overlay
<1>2. FrontMapCorrect
  BY <1>1, SizeAssumption DEF FrontMapCorrect, MapInv, Right
<1>3. OperandsCorrect
  <2> SUFFICES ASSUME ~rg_revert_map, NEW i \in Slot, entry_rob[i].valid
               PROVE  /\ entry_rob[i].inst.rs1_valid =>
                           MappedAt(entry_rob[i].op_1, entry_rob[i].inst.rs1, Age(i))
                      /\ MappedAt(entry_rob[i].op_2, entry_rob[i].inst.rs2, Age(i))
    BY DEF OperandsCorrect
  <2>1. entry_rob[i].inst.rs1 \in Arch /\ entry_rob[i].inst.rs2 \in Arch
    BY EntryRegisters DEF TypeOK
  <2>2. AgeFrom(rg_erob_head)[i] = Age(i) /\ Age(i) \in Nat
    BY SizeAssumption DEF AgeFrom, Age, TypeOK, Slot
  <2> QED
    BY <1>1, <2>1, <2>2 DEF MapInv, Right, ValidOf, SourcesIn, Names1
<1> QED
  BY <1>2, <1>3

-----------------------------------------------------------------------------
(***************************************************************************)
(* The steps.                                                              *)
(***************************************************************************)

(* Where map_and_rename may dispatch, the two slots at the tail are empty  *)
(* and younger than every instruction in flight.                           *)
LEMMA DispatchSlots ==
  ASSUME TypeOK, Window, CanMap
  PROVE  LET t == rg_erob_tail
             ag == AgeFrom(rg_erob_head)
         IN  /\ t \in Slot /\ Inc(t) \in Slot /\ Inc(t) # t
             /\ ~entry_rob[t].valid /\ ~entry_rob[Inc(t)].valid
             /\ ag[Inc(t)] = ag[t] + 1
             /\ \A j \in Slot : entry_rob[j].valid => ag[j] < ag[t]
<1>1. /\ Inc(rg_erob_tail) # rg_erob_head
      /\ rg_erob_head = rg_erob_tail => ~entry_rob[rg_erob_head].valid
  BY DEF CanMap, erob_full
<1>2. rg_erob_head \in Slot /\ rg_erob_tail \in Slot /\ Inc(rg_erob_tail) \in Slot
  BY IncType DEF TypeOK
<1>3. Inc(rg_erob_tail) # rg_erob_tail
  BY <1>2, SizeAssumption DEF Inc, Slot
<1>4. InFlight = AgeFrom(rg_erob_head)[rg_erob_tail]
  BY <1>1, <1>2, SizeAssumption DEF InFlight, Age, AgeFrom, Slot
<1>5. \A i \in Slot : entry_rob[i].valid <=> AgeFrom(rg_erob_head)[i] < InFlight
  BY <1>2 DEF Window, Age, AgeFrom
<1>6. AgeFrom(rg_erob_head)[Inc(rg_erob_tail)] = AgeFrom(rg_erob_head)[rg_erob_tail] + 1
  BY <1>1, <1>2, AgeNext
<1>7. AgeFrom(rg_erob_head)[rg_erob_tail] \in Nat
  BY <1>2, AgeFunction
<1> QED
  BY <1>2, <1>3, <1>4, <1>5, <1>6, <1>7

(* What a new entry reads and writes.                                      *)
LEMMA EntryOfFields ==
  ASSUME NEW d, NEW dest
  PROVE  /\ EntryOf(d, dest).valid /\ EntryOf(d, dest).inst = d /\ EntryOf(d, dest).dest_op = dest
         /\ EntryOf(d, dest).op_1 = fRAM[d.rs1] /\ EntryOf(d, dest).op_2 = fRAM[d.rs2]
  BY DEF EntryOf, NewEntry

(* The bypass inside a packet reads the front-end map that the first       *)
(* instruction leaves: a source the decoder did not set is x0.             *)
LEMMA SecondEntryFields ==
  ASSUME TypeOK, NEW d0 \in Decoded, NEW d1 \in Decoded
  PROVE  LET e == SecondEntry(d0, d1)
             f == UpdateMap(fRAM, d0.rd, dest_0)
         IN  /\ e.valid /\ e.inst = d1 /\ e.dest_op = dest_1
             /\ Names1(d1) => e.op_1 = f[d1.rs1]
             /\ e.op_2 = f[d1.rs2]
<1>1. LET e == SecondEntry(d0, d1)
          m1 == d0.rd # 0 /\ d1.rs1_valid /\ d0.rd = d1.rs1
          m2 == d0.rd # 0 /\ d1.rs2_valid /\ d0.rd = d1.rs2
      IN  /\ e.valid /\ e.inst = d1 /\ e.dest_op = dest_1
          /\ e.op_1 = IF m1 THEN dest_0 ELSE fRAM[d1.rs1]
          /\ e.op_2 = IF m2 THEN dest_0 ELSE fRAM[d1.rs2]
  BY DEF SecondEntry, NewEntry
<1>2. /\ d0.rd \in Arch /\ d1.rs1 \in Arch /\ d1.rs2 \in Arch
      /\ ~d1.rs2_valid => d1.rs2 = 0
  BY DecodedAssumption DEF DecodedType
<1>3. fRAM \in [Arch -> Phys]
  BY DEF TypeOK
<1> QED
  BY <1>1, <1>2, <1>3 DEF UpdateMap, Names1

(* One instruction entered at slot t, the youngest, of a ROB whose maps    *)
(* are right: the maps are right again.                                    *)
LEMMA EnterRight ==
  ASSUME NEW wr \in [Slot -> Arch], NEW dst \in [Slot -> Phys], NEW m,
         NEW ag \in [Slot -> 0 .. ENTRY_ROB_SIZE - 1], NEW f \in [Arch -> Phys],
         NEW rob \in [Slot -> Entry_rob_type], NEW S \in SUBSET Slot,
         NEW t \in Slot, wr[t] = 0, NEW d \in Arch, NEW q \in Phys,
         \A j \in Slot : wr[j] # 0 => ag[j] < ag[t],
         \A i \in S : ag[i] < ag[t],
         Right(wr, dst, m, ag, f, rob, S),
         Names1(rob[t].inst) => rob[t].op_1 = f[rob[t].inst.rs1],
         rob[t].op_2 = f[rob[t].inst.rs2]
  PROVE  Right([wr EXCEPT ![t] = d], [dst EXCEPT ![t] = q], m, ag, UpdateMap(f, d, q),
               rob, S \cup {t})
<1> DEFINE w2 == [wr EXCEPT ![t] = d]
           d2 == [dst EXCEPT ![t] = q]
<1>0. ag \in [Slot -> Nat] /\ ENTRY_ROB_SIZE \in Nat /\ \A i \in Slot : ENTRY_ROB_SIZE > ag[i]
  BY SizeAssumption
<1>1. ASSUME NEW p, NEW r \in Arch, NEW n \in Nat, Overlay(wr, dst, m, ag, p, r, n)
      PROVE  /\ n <= ag[t] => Overlay(w2, d2, m, ag, p, r, n)
             /\ n > ag[t] => Overlay(w2, d2, m, ag, p, r, ag[t])
             /\ n > ag[t] => Overlay(w2, d2, m, ag, IF r = d /\ r # 0 THEN q ELSE p, r, n)
  BY <1>0, <1>1, OverlayEnter
<1> HIDE DEF w2, d2
<1>2. ASSUME NEW r \in Arch
      PROVE  Overlay(w2, d2, m, ag, UpdateMap(f, d, q)[r], r, ENTRY_ROB_SIZE)
  <2>1. Overlay(wr, dst, m, ag, f[r], r, ENTRY_ROB_SIZE)
    BY DEF Right
  <2>2. UpdateMap(f, d, q)[r] = IF r = d /\ r # 0 THEN q ELSE f[r]
    BY DEF UpdateMap
  <2> QED
    BY <1>0, <1>1, <2>1, <2>2
<1>3. \A i \in Slot : rob[i].inst.rs1 \in Arch /\ rob[i].inst.rs2 \in Arch
  BY EntryRegisters
<1>4. ASSUME NEW i \in S
      PROVE  SourcesIn(w2, d2, m, ag, rob[i], ag[i])
  <2>1. SourcesIn(wr, dst, m, ag, rob[i], ag[i])
    BY DEF Right
  <2>2. ag[i] \in Nat /\ ag[t] \in Nat /\ ag[i] <= ag[t]
    BY <1>0
  <2> QED
    BY <1>1, <1>3, <2>1, <2>2 DEF SourcesIn
<1>5. SourcesIn(w2, d2, m, ag, rob[t], ag[t])
  <2>1. /\ Overlay(wr, dst, m, ag, f[rob[t].inst.rs1], rob[t].inst.rs1, ENTRY_ROB_SIZE)
        /\ Overlay(wr, dst, m, ag, f[rob[t].inst.rs2], rob[t].inst.rs2, ENTRY_ROB_SIZE)
    BY <1>3 DEF Right
  <2> QED
    BY <1>0, <1>1, <1>3, <2>1 DEF SourcesIn
<1> QED
  BY <1>2, <1>4, <1>5 DEF Right, w2, d2

LEMMA MapOneRight ==
  ASSUME TypeOK, Window, MapInv, NEW d \in Decoded, MapOne(d)
  PROVE  MapInv'
<1> DEFINE t == rg_erob_tail
           ag == AgeFrom(rg_erob_head)
           wr == WrOf(entry_rob)
           dst == DstOf(entry_rob)
<1>1. TypeOK' /\ CanMap
  BY MapOneType DEF MapOne
<1>2. /\ t \in Slot /\ ~entry_rob[t].valid
      /\ \A j \in Slot : entry_rob[j].valid => ag[j] < ag[t]
  BY <1>1, DispatchSlots
<1>3. \A i \in Slot : entry_rob'[i] = IF i = t THEN EntryOf(d, dest_0) ELSE entry_rob[i]
  BY DEF MapOne, TypeOK
<1>4. /\ entry_rob'[t].valid /\ entry_rob'[t].inst = d /\ entry_rob'[t].dest_op = dest_0
      /\ entry_rob'[t].op_1 = fRAM[d.rs1] /\ entry_rob'[t].op_2 = fRAM[d.rs2]
  BY <1>2, <1>3, EntryOfFields
<1>5. /\ wr \in [Slot -> Arch] /\ dst \in [Slot -> Phys] /\ wr[t] = 0
      /\ \A j \in Slot : wr[j] # 0 => ag[j] < ag[t]
      /\ ag \in [Slot -> 0 .. ENTRY_ROB_SIZE - 1]
  <2>1. wr \in [Slot -> Arch] /\ dst \in [Slot -> Phys]
    BY RobFunctions DEF TypeOK
  <2>2. \A j \in Slot : wr[j] # 0 => entry_rob[j].valid
    BY DEF WrOf
  <2>3. ag \in [Slot -> 0 .. ENTRY_ROB_SIZE - 1]
    BY AgeFunction DEF TypeOK
  <2> QED
    BY <1>2, <2>1, <2>2, <2>3 DEF WrOf
<1>6. /\ WrOf(entry_rob)' = [wr EXCEPT ![t] = d.rd]
      /\ DstOf(entry_rob)' = [dst EXCEPT ![t] = dest_0]
      /\ ValidOf(entry_rob)' = ValidOf(entry_rob) \cup {t}
  BY <1>2, <1>3, <1>4 DEF WrOf, DstOf, ValidOf
<1>7. /\ d.rd \in Arch /\ dest_0 \in Phys /\ fRAM \in [Arch -> Phys]
      /\ entry_rob' \in [Slot -> Entry_rob_type]
  BY <1>1, DestType, DecodedAssumption DEF DecodedType, TypeOK
<1>8. Right(wr, dst, rRAM, ag, fRAM, entry_rob', ValidOf(entry_rob))
  <2>1. Right(wr, dst, rRAM, ag, fRAM, entry_rob, ValidOf(entry_rob))
    BY <1>1 DEF MapInv, CanMap
  <2>2. \A i \in ValidOf(entry_rob) : entry_rob'[i] = entry_rob[i]
    BY <1>2, <1>3 DEF ValidOf
  <2> QED
    BY <2>1, <2>2 DEF Right
<1>9. ValidOf(entry_rob) \in SUBSET Slot /\ \A i \in ValidOf(entry_rob) : ag[i] < ag[t]
  BY <1>2 DEF ValidOf
<1> HIDE DEF wr, dst, ag
<1>10. Right([wr EXCEPT ![t] = d.rd], [dst EXCEPT ![t] = dest_0], rRAM, ag,
             UpdateMap(fRAM, d.rd, dest_0), entry_rob', ValidOf(entry_rob) \cup {t})
  BY <1>2, <1>4, <1>5, <1>7, <1>8, <1>9, EnterRight
<1>11. /\ fRAM' = UpdateMap(fRAM, d.rd, dest_0) /\ rRAM' = rRAM
       /\ AgeFrom(rg_erob_head)' = ag
  BY DEF MapOne, ag
<1> QED
  BY <1>6, <1>10, <1>11 DEF MapInv

LEMMA MapTwoRight ==
  ASSUME TypeOK, Window, MapInv, NEW d0 \in Decoded, NEW d1 \in Decoded, MapTwo(d0, d1)
  PROVE  MapInv'
<1> DEFINE t == rg_erob_tail
           u == Inc(rg_erob_tail)
           ag == AgeFrom(rg_erob_head)
           wr == WrOf(entry_rob)
           dst == DstOf(entry_rob)
           w1 == [wr EXCEPT ![t] = d0.rd]
           e1 == [dst EXCEPT ![t] = dest_0]
           f1 == UpdateMap(fRAM, d0.rd, dest_0)
           S == ValidOf(entry_rob)
<1>1. TypeOK' /\ CanMap
  BY MapTwoType DEF MapTwo
<1>2. /\ t \in Slot /\ u \in Slot /\ t # u /\ ~entry_rob[t].valid /\ ~entry_rob[u].valid
      /\ ag[u] = ag[t] + 1
      /\ \A j \in Slot : entry_rob[j].valid => ag[j] < ag[t]
  BY <1>1, DispatchSlots
<1>3. \A i \in Slot : entry_rob'[i] = IF i = u THEN SecondEntry(d0, d1)
                                      ELSE IF i = t THEN EntryOf(d0, dest_0) ELSE entry_rob[i]
  BY DEF MapTwo, TypeOK
<1>4. /\ entry_rob'[t].valid /\ entry_rob'[t].inst = d0 /\ entry_rob'[t].dest_op = dest_0
      /\ entry_rob'[t].op_1 = fRAM[d0.rs1] /\ entry_rob'[t].op_2 = fRAM[d0.rs2]
  BY <1>2, <1>3, EntryOfFields
<1>5. /\ entry_rob'[u].valid /\ entry_rob'[u].inst = d1 /\ entry_rob'[u].dest_op = dest_1
      /\ Names1(d1) => entry_rob'[u].op_1 = f1[d1.rs1]
      /\ entry_rob'[u].op_2 = f1[d1.rs2]
  BY <1>2, <1>3, SecondEntryFields
<1>6. /\ wr \in [Slot -> Arch] /\ dst \in [Slot -> Phys] /\ wr[t] = 0 /\ wr[u] = 0
      /\ \A j \in Slot : wr[j] # 0 => ag[j] < ag[t]
      /\ ag \in [Slot -> 0 .. ENTRY_ROB_SIZE - 1]
  <2>1. wr \in [Slot -> Arch] /\ dst \in [Slot -> Phys]
    BY RobFunctions DEF TypeOK
  <2>2. \A j \in Slot : wr[j] # 0 => entry_rob[j].valid
    BY DEF WrOf
  <2>3. ag \in [Slot -> 0 .. ENTRY_ROB_SIZE - 1]
    BY AgeFunction DEF TypeOK
  <2> QED
    BY <1>2, <2>1, <2>2, <2>3 DEF WrOf
<1>7. /\ WrOf(entry_rob)' = [w1 EXCEPT ![u] = d1.rd]
      /\ DstOf(entry_rob)' = [e1 EXCEPT ![u] = dest_1]
      /\ ValidOf(entry_rob)' = (S \cup {t}) \cup {u}
  BY <1>2, <1>3, <1>4, <1>5 DEF WrOf, DstOf, ValidOf
<1>8. /\ d0.rd \in Arch /\ d1.rd \in Arch /\ dest_0 \in Phys /\ dest_1 \in Phys
      /\ fRAM \in [Arch -> Phys] /\ entry_rob' \in [Slot -> Entry_rob_type]
  BY <1>1, DestType, DecodedAssumption DEF DecodedType, TypeOK
<1>9. Right(wr, dst, rRAM, ag, fRAM, entry_rob', S)
  <2>1. Right(wr, dst, rRAM, ag, fRAM, entry_rob, S)
    BY <1>1 DEF MapInv, CanMap
  <2>2. \A i \in S : entry_rob'[i] = entry_rob[i]
    BY <1>2, <1>3 DEF ValidOf
  <2> QED
    BY <2>1, <2>2 DEF Right
<1>10. S \in SUBSET Slot /\ \A i \in S : ag[i] < ag[t]
  BY <1>2 DEF ValidOf
<1> HIDE DEF wr, dst, ag, S
<1>11. Right(w1, e1, rRAM, ag, f1, entry_rob', S \cup {t})
  BY <1>2, <1>4, <1>6, <1>8, <1>9, <1>10, EnterRight
<1>12. /\ w1 \in [Slot -> Arch] /\ e1 \in [Slot -> Phys] /\ f1 \in [Arch -> Phys] /\ w1[u] = 0
       /\ \A j \in Slot : w1[j] # 0 => ag[j] < ag[u]
       /\ S \cup {t} \in SUBSET Slot /\ \A i \in S \cup {t} : ag[i] < ag[u]
  <2>1. ag[t] \in Int /\ \A j \in Slot : ag[j] \in Int
    BY <1>2, <1>6
  <2>2. f1 \in [Arch -> Phys]
    BY <1>8, UpdateMapType
  <2> QED
    BY <1>2, <1>6, <1>8, <1>10, <2>1, <2>2
<1> HIDE DEF w1, e1, f1
<1>13. Right([w1 EXCEPT ![u] = d1.rd], [e1 EXCEPT ![u] = dest_1], rRAM, ag,
             UpdateMap(f1, d1.rd, dest_1), entry_rob', (S \cup {t}) \cup {u})
  BY <1>2, <1>5, <1>6, <1>8, <1>11, <1>12, EnterRight
<1>14. /\ fRAM' = UpdateMap(f1, d1.rd, dest_1) /\ rRAM' = rRAM
       /\ AgeFrom(rg_erob_head)' = ag
  BY DEF MapTwo, ag, f1
<1> QED
  BY <1>7, <1>13, <1>14 DEF MapInv

(* Commit of one instruction without a flush: its register moves into the  *)
(* retirement map, and what the others and the front-end map name stays.   *)
LEMMA CommitOneRight ==
  ASSUME TypeOK, Window, DestInQueue, MapInv, CommitOne
  PROVE  MapInv'
<1> SUFFICES ASSUME ~rg_revert_map'
             PROVE  Right(WrOf(entry_rob)', DstOf(entry_rob)', rRAM', AgeFrom(rg_erob_head)',
                          fRAM', entry_rob', ValidOf(entry_rob)')
  BY DEF MapInv
<1> DEFINE t == rg_erob_head
           ag == AgeFrom(rg_erob_head)
           a2 == AgeFrom(Inc(rg_erob_head))
           wr == WrOf(entry_rob)
           dst == DstOf(entry_rob)
           w2 == WrOf(entry_rob')
           d2 == DstOf(entry_rob')
<1>1. /\ TypeOK' /\ ~LoadAliased(head_0) /\ ~rg_revert_map /\ fRAM' = fRAM
      /\ rRAM' = rRAM_one /\ rg_erob_head' = Inc(rg_erob_head)
  <2>1. TypeOK' /\ ~rg_revert_map /\ fRAM' = fRAM /\ rRAM' = rRAM_one
    BY CommitOneType DEF CommitOne, CanCommit
  <2>2. rg_erob_head' = Inc(rg_erob_head)
    BY DEF CommitOne, Advance
  <2>3. ~LoadAliased(head_0)
    BY Zenon DEF CommitOne, FlushFirst
  <2> QED
    BY <2>1, <2>2, <2>3
<1>2. /\ \A i \in Slot \ {t} : entry_rob'[i] = entry_rob[i]
      /\ entry_rob[t].valid /\ ~entry_rob'[t].valid /\ t \in Slot /\ Inc(t) \in Slot
  BY CommitOneRob, IncType DEF head_0, TypeOK
<1>3. /\ wr \in [Slot -> Arch] /\ dst \in [Slot -> Phys]
      /\ w2 \in [Slot -> Arch] /\ d2 \in [Slot -> Phys]
      /\ rRAM \in [Arch -> Phys] /\ fRAM \in [Arch -> Phys]
  BY <1>1, RobFunctions DEF TypeOK
<1>4. /\ ag \in [Slot -> Nat] /\ a2 \in [Slot -> Nat] /\ ag[t] = 0
      /\ a2 \in [Slot -> 0 .. ENTRY_ROB_SIZE - 1]
      /\ a2[t] = ENTRY_ROB_SIZE - 1
      /\ \A j \in Slot : j # t => a2[j] + 1 = ag[j]
      /\ ag \in [Slot -> 0 .. ENTRY_ROB_SIZE - 1]
  BY <1>2, AgeFunction, AgeNext
<1>5. w2[t] = 0 /\ \A j \in Slot : j # t => w2[j] = wr[j] /\ d2[j] = dst[j]
  BY <1>2 DEF WrOf, DstOf
<1>6. rRAM' = IF wr[t] = 0 THEN rRAM ELSE [rRAM EXCEPT ![wr[t]] = dst[t]]
  <2>1. wr[t] = head_0.inst.rd /\ dst[t] = head_0.dest_op
    BY <1>2 DEF WrOf, DstOf, head_0
  <2>2. NoDest(head_0) <=> head_0.inst.rd = 0
    BY HeadType, EntryRegisters
  <2> QED
    BY <1>1, <2>1, <2>2 DEF rRAM_one, Retire
<1>7. Right(wr, dst, rRAM, ag, fRAM, entry_rob, ValidOf(entry_rob))
  BY <1>1 DEF MapInv
<1> HIDE DEF wr, dst, w2, d2, ag, a2
<1>8. ASSUME NEW p, NEW r \in Arch, NEW n \in Nat, Overlay(wr, dst, rRAM, ag, p, r, n + 1)
      PROVE  Overlay(w2, d2, rRAM', a2, p, r, n)
  <2> DEFINE m2 == IF wr[t] = 0 THEN rRAM ELSE [rRAM EXCEPT ![wr[t]] = dst[t]]
  <2>1. /\ rRAM' = m2
        /\ \A j \in Slot : j # t => a2[j] + 1 = ag[j] /\ w2[j] = wr[j] /\ d2[j] = dst[j]
        /\ t \in Slot /\ ag[t] = 0 /\ w2[t] = 0
    BY <1>2, <1>4, <1>5, <1>6
  <2> HIDE DEF t
  <2>2. Overlay(w2, d2, m2, a2, p, r, n)
    BY <1>3, <1>4, <1>8, <2>1, OverlayRetire
  <2> QED
    BY <2>1, <2>2
<1>9. ASSUME NEW r \in Arch
      PROVE  Overlay(w2, d2, rRAM', a2, fRAM[r], r, ENTRY_ROB_SIZE)
  <2>1. Overlay(wr, dst, rRAM, ag, fRAM[r], r, ENTRY_ROB_SIZE)
    BY <1>7 DEF Right
  <2> DEFINE k == ENTRY_ROB_SIZE - 1
  <2>2. k \in Nat /\ k + 1 = ENTRY_ROB_SIZE /\ ENTRY_ROB_SIZE \in Nat /\ k <= ENTRY_ROB_SIZE
    BY SizeAssumption
  <2>3. \A j \in Slot : w2[j] # 0 => a2[j] < k
    <3>1. ASSUME NEW j \in Slot, j # t
          PROVE  a2[j] < k
      BY <1>4, <3>1, SizeAssumption
    <3> QED
      BY <1>5, <3>1
  <2> HIDE DEF k
  <2>4. Overlay(w2, d2, rRAM', a2, fRAM[r], r, k)
    BY <1>8, <2>1, <2>2
  <2> QED
    BY <1>3, <1>4, <2>2, <2>3, <2>4, OverlayBeyond
<1>10. ASSUME NEW i \in Slot, entry_rob'[i].valid
       PROVE  SourcesIn(w2, d2, rRAM', a2, entry_rob'[i], a2[i])
  <2>1. i # t /\ entry_rob'[i] = entry_rob[i] /\ i \in ValidOf(entry_rob)
    BY <1>2, <1>10 DEF ValidOf
  <2>2. SourcesIn(wr, dst, rRAM, ag, entry_rob[i], ag[i])
    BY <1>7, <2>1 DEF Right
  <2>3. a2[i] \in Nat /\ a2[i] + 1 = ag[i]
    BY <1>4, <2>1
  <2>4. entry_rob[i].inst.rs1 \in Arch /\ entry_rob[i].inst.rs2 \in Arch
    BY EntryRegisters DEF TypeOK
  <2> QED
    BY <1>8, <2>1, <2>2, <2>3, <2>4 DEF SourcesIn
<1>11. Right(w2, d2, rRAM', a2, fRAM, entry_rob', ValidOf(entry_rob'))
  BY <1>9, <1>10 DEF Right, ValidOf
<1> QED
  BY <1>1, <1>11 DEF w2, d2, a2

LEMMA MapInvInductive == TypeOK /\ Window /\ DestInQueue /\ MapInv /\ [Next]_vars => MapInv'
<1> SUFFICES ASSUME TypeOK, Window, DestInQueue, MapInv, [Next]_vars PROVE MapInv'
  OBVIOUS
<1>1. CASE WriteBack
  <2>1. /\ WrOf(entry_rob)' = WrOf(entry_rob) /\ DstOf(entry_rob)' = DstOf(entry_rob)
        /\ ValidOf(entry_rob)' = ValidOf(entry_rob)
    BY <1>1, WriteBackKeeps DEF WrOf, DstOf, ValidOf
  <2>2. /\ fRAM' = fRAM /\ rRAM' = rRAM /\ AgeFrom(rg_erob_head)' = AgeFrom(rg_erob_head)
        /\ ~rg_revert_map
    BY <1>1, WriteBackKeeps DEF WriteBack, Execute, ExecuteLoad, CsrResult, CsrRedirect
  <2>3. \A i \in ValidOf(entry_rob) : /\ entry_rob'[i].op_1 = entry_rob[i].op_1
                                       /\ entry_rob'[i].op_2 = entry_rob[i].op_2
                                       /\ entry_rob'[i].inst = entry_rob[i].inst
    BY <1>1, WriteBackKeeps DEF ValidOf
  <2> QED
    BY <2>1, <2>2, <2>3 DEF MapInv, Right, SourcesIn
<1>2. CASE RevertMap
  <2>1. ValidOf(entry_rob)' = {} /\ \A i \in Slot : WrOf(entry_rob)'[i] = 0
    BY <1>2, RevertMapRob DEF ValidOf, WrOf
  <2>2. fRAM' = rRAM'
    BY <1>2 DEF RevertMap
  <2> QED
    BY <2>1, <2>2 DEF MapInv, Right, Overlay, Writer
<1>3. CASE CommitTwo
  BY <1>3 DEF CommitTwo, MapInv
<1>4. CASE UNCHANGED vars
  BY <1>4 DEF vars, MapInv
<1> QED
  BY <1>1, <1>2, <1>3, <1>4, MapOneRight, MapTwoRight, CommitOneRight DEF Next, WriteBack

LEMMA MapInvariant == Spec => [](TypeOK /\ MapInv)
<1>1. Init => MapInv
  BY DEF Init, MapInv, Right, Overlay, Writer, WrOf, ValidOf
<1>2. RegInv => TypeOK /\ DestInQueue
  BY DEF RegInv
<1> QED
  BY <1>1, <1>2, MapInvInductive, RegInvariant, WindowHolds, PTL DEF Spec

(* The front-end map is the retirement map overlaid with the instructions  *)
(* in flight, in program order, through dispatch in pairs, commit, flush   *)
(* and replay (map_and_rename, rl_revert_map).                             *)
THEOREM FrontMapCorrectHolds == Spec => []FrontMapCorrect
<1>1. TypeOK /\ MapInv => FrontMapCorrect
  BY MapInvMeaning
<1> QED
  BY <1>1, MapInvariant, PTL

(* Each operand of an instruction in flight names the register of the      *)
(* youngest older writer of its source, however the older ones retire and  *)
(* their registers are recycled meanwhile (map_and_rename, rl_commit).     *)
THEOREM OperandsCorrectHolds == Spec => []OperandsCorrect
<1>1. TypeOK /\ MapInv => OperandsCorrect
  BY MapInvMeaning
<1> QED
  BY <1>1, MapInvariant, PTL
=============================================================================
