------------------------- MODULE RenameSystemProofs -------------------------
(***************************************************************************)
(* Rename with what surrounds it, for every size of the register file, the *)
(* ROB, the physical register file and the immediate buffer and every set  *)
(* of values and instructions: Rename implements ISA, as long as no        *)
(* instruction traps or is a System instruction; and the immediate buffer  *)
(* keeps the immediates of the instructions in flight.                     *)
(***************************************************************************)
EXTENDS RenameISA, RenameImm, RenameProofs, SequenceTheorems, FiniteSetTheorems

-----------------------------------------------------------------------------
(* Rename implements ISA.                                                  *)

(* A trap retires the instruction that raised it (TrapRetiresNothing does  *)
(* not hold) and a System instruction writes its result after it has left  *)
(* the ROB: neither is the in-order machine of ISA.                        *)
UserCode == \A d \in Decoded : ~d.exception /\ ~isSystem(d)

(* No instruction in flight is still to write p.                           *)
Settled(rob, p) ==
    \A k \in Slot : rob[k].valid /\ rob[k].dest_op = p => rob[k].execute_done

(* What an instruction in flight may rely on: an operand that is ready has *)
(* been written, and so the result of an instruction that has executed is  *)
(* the value of its operands still.                                        *)
ReadySettled(rob, e) ==
    /\ e.op1_ready => Settled(rob, e.op_1)
    /\ e.op2_ready => Settled(rob, e.op_2)

TagTrue(pv, e) == pv[e.dest_op] => e.execute_done

Result(rf, e) ==
    /\ e.execute_done => e.op1_ready /\ e.op2_ready
    /\ e.execute_done /\ ~LoadAliased(e) =>
         rf[e.dest_op] = Eval(e.inst, rf[e.op_1], rf[e.op_2])
    /\ e.squash => e.inst.op \in {"COND", "JUMP"}

ValueInv ==
    /\ csr_pending = <<>>
    /\ ~rg_revert_map => \A i \in Slot : entry_rob[i].valid =>
         /\ ReadySettled(entry_rob, entry_rob[i])
         /\ TagTrue(prf_valid, entry_rob[i])
         /\ Result(regFile, entry_rob[i])

(* What the earlier theorems say of a reachable state.                     *)
Reached == TypeOK /\ Lockstep /\ DestInQueue /\ RegistersConserved /\ Window /\ MapInv

(* Nothing in the ROB traps or is a System instruction.                    *)
LEMMA UserEntries ==
  ASSUME TypeOK, UserCode, NEW i \in Slot
  PROVE  /\ ~entry_rob[i].inst.exception /\ ~isSystem(entry_rob[i].inst)
         /\ Names1(entry_rob[i].inst)
<1>1. entry_rob[i].inst \in Decoded \cup {NOP}
  BY DEF TypeOK, Entry_rob_type
<1>2. \A d \in Decoded \cup {NOP} : ~d.exception /\ ~isSystem(d)
  BY DEF UserCode, NOP, isSystem
<1>3. \A d \in Decoded \cup {NOP} : Names1(d)
  <2>1. \A d \in Decoded : Names1(d)
    BY <1>2, DecodedAssumption DEF Names1
  <2>2. Names1(NOP)
    BY DEF Names1, NOP
  <2> QED
    BY <2>1, <2>2
<1> QED
  BY <1>1, <1>2, <1>3

-----------------------------------------------------------------------------
(***************************************************************************)
(* Dispatch.  The registers the maps name are those of the retirement map  *)
(* and of the instructions in flight, never the ones just allocated.       *)
(***************************************************************************)
LEMMA OverlayNames ==
  ASSUME TypeOK, DestInQueue, NEW p, NEW r \in Arch, NEW n \in Nat,
         Overlay(WrOf(entry_rob), DstOf(entry_rob), rRAM, AgeFrom(rg_erob_head), p, r, n)
  PROVE  \/ p = rRAM[r]
         \/ r # 0 /\ \E k \in Slot : entry_rob[k].valid /\ p = frq[k]
<1> DEFINE ag == AgeFrom(rg_erob_head)
           wr == WrOf(entry_rob)
           dst == DstOf(entry_rob)
<1>1. \A i \in Slot : wr[i] # 0 => entry_rob[i].valid
  BY DEF WrOf
<1>2. \A i \in Slot : entry_rob[i].valid => dst[i] = frq[i]
  BY DEF DstOf, DestInQueue
<1>3. Overlay(wr, dst, rRAM, ag, p, r, n)
  OBVIOUS
<1> HIDE DEF ag, wr, dst
<1> QED
  BY <1>1, <1>2, <1>3 DEF Overlay, Writer

LEMMA NamesOld ==
  ASSUME Reached, CanMap, NEW p, NEW r \in Arch, NEW n \in Nat,
         Overlay(WrOf(entry_rob), DstOf(entry_rob), rRAM, AgeFrom(rg_erob_head), p, r, n)
  PROVE  p # dest_0 /\ p # dest_1
<1>1. /\ ~entry_rob[rg_erob_tail].valid /\ ~entry_rob[Inc(rg_erob_tail)].valid
      /\ rg_erob_tail \in Slot /\ Inc(rg_erob_tail) \in Slot
  BY DispatchSlots DEF Reached
<1>2. dest_0 = frq[rg_erob_tail] /\ dest_1 = frq[Inc(rg_erob_tail)]
  BY DEF dest_0, dest_1, Reached, Lockstep
<1>3. \/ p = rRAM[r]
      \/ \E k \in Slot : entry_rob[k].valid /\ p = frq[k]
  BY OverlayNames DEF Reached
<1>4. ASSUME p = rRAM[r] PROVE p # dest_0 /\ p # dest_1
  BY <1>1, <1>2, <1>4 DEF Reached, RegistersConserved
<1>5. ASSUME NEW k \in Slot, entry_rob[k].valid, p = frq[k] PROVE p # dest_0 /\ p # dest_1
  BY <1>1, <1>2, <1>5 DEF Reached, RegistersConserved
<1> QED
  BY <1>3, <1>4, <1>5

(* A source whose tag has been broadcast, or x0, has been written.         *)
LEMMA FrontSettled ==
  ASSUME Reached, ValueInv, CanMap, NEW r \in Arch, prf_valid[fRAM[r]] \/ r = 0
  PROVE  Settled(entry_rob, fRAM[r])
<1>1. Overlay(WrOf(entry_rob), DstOf(entry_rob), rRAM, AgeFrom(rg_erob_head), fRAM[r], r,
              ENTRY_ROB_SIZE)
  BY DEF Reached, MapInv, CanMap, Right
<1>2. \/ fRAM[r] = rRAM[r]
      \/ r # 0 /\ \E k \in Slot : entry_rob[k].valid /\ fRAM[r] = frq[k]
  BY <1>1, OverlayNames, SizeAssumption DEF Reached
<1>3. \A k \in Slot : entry_rob[k].valid => entry_rob[k].dest_op = frq[k]
  BY DEF Reached, DestInQueue
<1>4. CASE fRAM[r] = rRAM[r]
  BY <1>3, <1>4 DEF Settled, Reached, RegistersConserved
<1>5. ASSUME r # 0, NEW k \in Slot, entry_rob[k].valid, fRAM[r] = frq[k]
      PROVE  Settled(entry_rob, fRAM[r])
  <2>1. prf_valid[entry_rob[k].dest_op]
    BY <1>3, <1>5
  <2>2. TagTrue(prf_valid, entry_rob[k])
    BY <1>5 DEF ValueInv, CanMap
  <2>3. entry_rob[k].execute_done
    BY <2>1, <2>2 DEF TagTrue
  <2>4. \A j \in Slot : entry_rob[j].valid /\ entry_rob[j].dest_op = fRAM[r] => j = k
    BY <1>3, <1>5 DEF Reached, RegistersConserved
  <2> QED
    BY <2>3, <2>4 DEF Settled
<1> QED
  BY <1>2, <1>4, <1>5

(* A new entry whose sources are s1 and s2: what is ready is settled.      *)
LEMMA NewEntryFields ==
  ASSUME NEW d \in Decoded, NEW dest, NEW s1, NEW s2, NEW r1 \in BOOLEAN, NEW r2 \in BOOLEAN
  PROVE  LET e == NewEntry(d, dest, s1, s2, r1, r2)
         IN  /\ e.valid /\ e.dest_op = dest /\ e.op_1 = s1 /\ e.op_2 = s2
             /\ ~e.execute_done /\ ~e.squash
             /\ e.op1_ready => r1 \/ ~d.rs1_valid
             /\ e.op2_ready => r2 \/ (d.imm_valid /\ d.rd_valid)
  BY DEF NewEntry

LEMMA EntryOfReady ==
  ASSUME TypeOK, UserCode, NEW d \in Decoded, NEW dest
  PROVE  LET e == EntryOf(d, dest)
         IN  /\ e.valid /\ e.dest_op = dest /\ ~e.execute_done /\ ~e.squash
             /\ d.rs1 \in Arch /\ d.rs2 \in Arch
             /\ e.op1_ready => e.op_1 = fRAM[d.rs1] /\ (prf_valid[fRAM[d.rs1]] \/ d.rs1 = 0)
             /\ e.op2_ready => e.op_2 = fRAM[d.rs2] /\ (prf_valid[fRAM[d.rs2]] \/ d.rs2 = 0)
<1>1. /\ d.rs1 \in Arch /\ d.rs2 \in Arch
      /\ ~d.rs1_valid => d.rs1 = 0
      /\ d.imm_valid /\ d.rd_valid => d.rs2 = 0
  BY DecodedAssumption DEF DecodedType, UserCode
<1> DEFINE r1 == prf_valid[fRAM[d.rs1]]
           r2 == prf_valid[fRAM[d.rs2]]
           e == NewEntry(d, dest, fRAM[d.rs1], fRAM[d.rs2], r1, r2)
<1>2. r1 \in BOOLEAN /\ r2 \in BOOLEAN
  BY <1>1 DEF TypeOK
<1>3. EntryOf(d, dest) = e
  BY DEF EntryOf
<1> HIDE DEF r1, r2
<1>4. /\ e.valid /\ e.dest_op = dest /\ e.op_1 = fRAM[d.rs1] /\ e.op_2 = fRAM[d.rs2]
      /\ ~e.execute_done /\ ~e.squash
      /\ e.op1_ready => r1 \/ ~d.rs1_valid
      /\ e.op2_ready => r2 \/ (d.imm_valid /\ d.rd_valid)
  BY <1>2, NewEntryFields
<1> HIDE DEF e
<1>5. /\ e.op1_ready => (prf_valid[fRAM[d.rs1]] \/ d.rs1 = 0)
      /\ e.op2_ready => (prf_valid[fRAM[d.rs2]] \/ d.rs2 = 0)
  BY <1>1, <1>4, Zenon DEF r1, r2
<1> QED
  BY <1>1, <1>3, <1>4, <1>5, Zenon

(* An operand taken from the first instruction of the packet is not ready. *)
LEMMA SecondEntryReady ==
  ASSUME TypeOK, UserCode, NEW d0 \in Decoded, NEW d \in Decoded
  PROVE  LET e == SecondEntry(d0, d)
         IN  /\ e.valid /\ e.dest_op = dest_1 /\ ~e.execute_done /\ ~e.squash
             /\ d.rs1 \in Arch /\ d.rs2 \in Arch
             /\ e.op1_ready => e.op_1 = fRAM[d.rs1] /\ (prf_valid[fRAM[d.rs1]] \/ d.rs1 = 0)
             /\ e.op2_ready => e.op_2 = fRAM[d.rs2] /\ (prf_valid[fRAM[d.rs2]] \/ d.rs2 = 0)
<1>1. /\ d.rs1 \in Arch /\ d.rs2 \in Arch
      /\ ~d.rs1_valid => d.rs1 = 0
      /\ d.imm_valid /\ d.rd_valid => ~d.rs2_valid /\ d.rs2 = 0
  BY DecodedAssumption DEF DecodedType, UserCode
<1> DEFINE m1 == d0.rd # 0 /\ d.rs1_valid /\ d0.rd = d.rs1
           m2 == d0.rd # 0 /\ d.rs2_valid /\ d0.rd = d.rs2
           s1 == IF m1 THEN dest_0 ELSE fRAM[d.rs1]
           s2 == IF m2 THEN dest_0 ELSE fRAM[d.rs2]
           r1 == ~m1 /\ prf_valid[fRAM[d.rs1]]
           r2 == ~m2 /\ prf_valid[fRAM[d.rs2]]
           e == NewEntry(d, dest_1, s1, s2, r1, r2)
<1>2. r1 \in BOOLEAN /\ r2 \in BOOLEAN
  OBVIOUS
<1>3. SecondEntry(d0, d) = e
  BY DEF SecondEntry
<1>4. /\ r1 => s1 = fRAM[d.rs1] /\ prf_valid[fRAM[d.rs1]]
      /\ r2 => s2 = fRAM[d.rs2] /\ prf_valid[fRAM[d.rs2]]
      /\ ~d.rs1_valid => s1 = fRAM[d.rs1]
      /\ ~d.rs2_valid => s2 = fRAM[d.rs2]
  BY Zenon
<1> HIDE DEF r1, r2, s1, s2
<1>5. /\ e.valid /\ e.dest_op = dest_1 /\ e.op_1 = s1 /\ e.op_2 = s2
      /\ ~e.execute_done /\ ~e.squash
      /\ e.op1_ready => r1 \/ ~d.rs1_valid
      /\ e.op2_ready => r2 \/ (d.imm_valid /\ d.rd_valid)
  BY <1>2, NewEntryFields
<1> HIDE DEF e
<1>6. /\ e.op1_ready => e.op_1 = fRAM[d.rs1] /\ (prf_valid[fRAM[d.rs1]] \/ d.rs1 = 0)
      /\ e.op2_ready => e.op_2 = fRAM[d.rs2] /\ (prf_valid[fRAM[d.rs2]] \/ d.rs2 = 0)
  BY <1>1, <1>4, <1>5, Zenon
<1> QED
  BY <1>1, <1>3, <1>5, <1>6, Zenon

(* Both dispatch steps: the slots at the tail, t and the next one, receive *)
(* entries that are not done and whose ready operands are settled.         *)
Entered(e, d, dest) ==
    /\ e.dest_op = dest /\ ~e.execute_done /\ ~e.squash
    /\ d.rs1 \in Arch /\ d.rs2 \in Arch
    /\ e.op1_ready => e.op_1 = fRAM[d.rs1] /\ (prf_valid[fRAM[d.rs1]] \/ d.rs1 = 0)
    /\ e.op2_ready => e.op_2 = fRAM[d.rs2] /\ (prf_valid[fRAM[d.rs2]] \/ d.rs2 = 0)

LEMMA DispatchValues ==
  ASSUME Reached, UserCode, ValueInv, CanMap, NEW rob,
         \A j \in Slot \ {rg_erob_tail, Inc(rg_erob_tail)} : rob[j] = entry_rob[j],
         NEW d0, NEW d1, Entered(rob[rg_erob_tail], d0, dest_0),
         \/ ~rob[Inc(rg_erob_tail)].valid
         \/ Entered(rob[Inc(rg_erob_tail)], d1, dest_1),
         NEW pv, ~pv[dest_0], ~pv[dest_1],
         \A p \in Phys : p # dest_0 /\ p # dest_1 => pv[p] = prf_valid[p]
  PROVE  \A i \in Slot : rob[i].valid =>
           ReadySettled(rob, rob[i]) /\ TagTrue(pv, rob[i]) /\ Result(regFile, rob[i])
<1> DEFINE t == rg_erob_tail
           u == Inc(rg_erob_tail)
<1>1. t \in Slot /\ u \in Slot /\ t # u /\ ~entry_rob[t].valid /\ ~entry_rob[u].valid
  BY DispatchSlots DEF Reached
<1>2. ASSUME NEW p, Settled(entry_rob, p), p # dest_0, p # dest_1
      PROVE  Settled(rob, p)
  <2> SUFFICES ASSUME NEW k \in Slot, rob[k].valid, rob[k].dest_op = p
               PROVE  rob[k].execute_done
    BY DEF Settled
  <2>1. k # t /\ k # u
    BY <1>2 DEF Entered
  <2>2. rob[k] = entry_rob[k]
    BY <2>1
  <2> QED
    BY <1>2, <2>2 DEF Settled
<1>3. ASSUME NEW r \in Arch
      PROVE  /\ fRAM[r] # dest_0 /\ fRAM[r] # dest_1
             /\ prf_valid[fRAM[r]] \/ r = 0 => Settled(rob, fRAM[r])
  <2>1. Overlay(WrOf(entry_rob), DstOf(entry_rob), rRAM, AgeFrom(rg_erob_head), fRAM[r], r,
                ENTRY_ROB_SIZE)
    BY DEF Reached, MapInv, CanMap, Right
  <2>2. fRAM[r] # dest_0 /\ fRAM[r] # dest_1
    BY <2>1, NamesOld, SizeAssumption
  <2>3. ASSUME prf_valid[fRAM[r]] \/ r = 0 PROVE Settled(rob, fRAM[r])
    BY <1>2, <2>2, <2>3, FrontSettled
  <2> QED
    BY <2>2, <2>3
<1>4. ASSUME NEW e, NEW d, NEW q, Entered(e, d, q), ~pv[q]
      PROVE  ReadySettled(rob, e) /\ TagTrue(pv, e) /\ Result(regFile, e)
  <2>1. ReadySettled(rob, e)
    BY <1>3, <1>4 DEF Entered, ReadySettled
  <2>2. TagTrue(pv, e)
    BY <1>4, Zenon DEF Entered, TagTrue
  <2>3. Result(regFile, e)
    BY <1>4 DEF Entered, Result
  <2> QED
    BY <2>1, <2>2, <2>3
<1>5. ASSUME NEW i \in Slot, i # t, i # u, rob[i].valid
      PROVE  ReadySettled(rob, rob[i]) /\ TagTrue(pv, rob[i]) /\ Result(regFile, rob[i])
  <2> DEFINE e == entry_rob[i]
  <2>1. rob[i] = e /\ e.valid
    BY <1>5
  <2>2. ReadySettled(entry_rob, e) /\ TagTrue(prf_valid, e) /\ Result(regFile, e)
    BY <2>1 DEF ValueInv, CanMap
  <2>3. SourcesIn(WrOf(entry_rob), DstOf(entry_rob), rRAM, AgeFrom(rg_erob_head), e,
                  AgeFrom(rg_erob_head)[i])
    BY <2>1 DEF Reached, MapInv, CanMap, Right, ValidOf
  <2>4. /\ e.inst.rs1 \in Arch /\ e.inst.rs2 \in Arch /\ e.dest_op \in Phys
        /\ AgeFrom(rg_erob_head)[i] \in Nat /\ Names1(e.inst)
    BY EntryRegisters, AgeFunction, UserEntries DEF Reached, TypeOK
  <2>5. e.op_1 # dest_0 /\ e.op_1 # dest_1
    BY <2>3, <2>4, NamesOld DEF SourcesIn
  <2>6. e.op_2 # dest_0 /\ e.op_2 # dest_1
    BY <2>3, <2>4, NamesOld DEF SourcesIn
  <2>7. ReadySettled(rob, e)
    BY <1>2, <2>2, <2>5, <2>6 DEF ReadySettled
  <2>8. TagTrue(pv, e)
    <3>1. e.dest_op = frq[i] /\ dest_0 = frq[t] /\ dest_1 = frq[u]
      BY <2>1 DEF Reached, DestInQueue, dest_0, dest_1, Lockstep
    <3>2. e.dest_op # dest_0 /\ e.dest_op # dest_1
      BY <1>1, <1>5, <3>1 DEF Reached, RegistersConserved
    <3>3. pv[e.dest_op] = prf_valid[e.dest_op]
      BY <2>4, <3>2
    <3> QED
      BY <2>2, <3>3, Zenon DEF TagTrue
  <2> QED
    BY <2>1, <2>2, <2>7, <2>8
<1> QED
  BY <1>1, <1>4, <1>5

LEMMA Invalidated ==
  ASSUME TypeOK, InvalidateDests
  PROVE  /\ ~prf_valid'[dest_0] /\ ~prf_valid'[dest_1]
         /\ \A p \in Phys : p # dest_0 /\ p # dest_1 => prf_valid'[p] = prf_valid[p]
<1> DEFINE p0 == dest_0
           p1 == dest_1
<1>1. p0 \in Phys /\ p1 \in Phys
  BY DestType
<1>2. prf_valid' = [prf_valid EXCEPT ![p0] = FALSE, ![p1] = FALSE]
  BY DEF InvalidateDests
<1>3. prf_valid \in [Phys -> BOOLEAN]
  BY DEF TypeOK
<1> HIDE DEF p0, p1
<1>4. /\ ~prf_valid'[p0] /\ ~prf_valid'[p1]
      /\ \A p \in Phys : p # p0 /\ p # p1 => prf_valid'[p] = prf_valid[p]
  BY <1>1, <1>2, <1>3
<1> QED
  BY <1>4 DEF p0, p1

LEMMA MapOneValues ==
  ASSUME Reached, UserCode, ValueInv, NEW d \in Decoded, MapOne(d)
  PROVE  ValueInv'
<1>1. CanMap /\ InvalidateDests /\ csr_pending' = csr_pending /\ regFile' = regFile /\ TypeOK
  BY DEF MapOne, Reached
<1>2. /\ ~prf_valid'[dest_0] /\ ~prf_valid'[dest_1]
      /\ \A p \in Phys : p # dest_0 /\ p # dest_1 => prf_valid'[p] = prf_valid[p]
  BY <1>1, Invalidated
<1>3. /\ rg_erob_tail \in Slot /\ Inc(rg_erob_tail) \in Slot /\ Inc(rg_erob_tail) # rg_erob_tail
      /\ ~entry_rob[Inc(rg_erob_tail)].valid
  BY <1>1, DispatchSlots DEF Reached
<1>4. \A i \in Slot : entry_rob'[i] = IF i = rg_erob_tail THEN EntryOf(d, dest_0) ELSE entry_rob[i]
  BY <1>1 DEF MapOne, TypeOK
<1>5. /\ \A j \in Slot \ {rg_erob_tail, Inc(rg_erob_tail)} : entry_rob'[j] = entry_rob[j]
      /\ ~entry_rob'[Inc(rg_erob_tail)].valid
      /\ entry_rob'[rg_erob_tail] = EntryOf(d, dest_0)
  BY <1>3, <1>4
<1>6. Entered(EntryOf(d, dest_0), d, dest_0)
  BY <1>1, EntryOfReady DEF Entered
<1>7. Entered(entry_rob'[rg_erob_tail], d, dest_0)
  BY <1>5, <1>6
<1> DEFINE rob == entry_rob'
           pv == prf_valid'
<1>8. \A i \in Slot : rob[i].valid =>
           ReadySettled(rob, rob[i]) /\ TagTrue(pv, rob[i]) /\ Result(regFile, rob[i])
  <2> HIDE DEF rob, pv
  <2>1. /\ \A j \in Slot \ {rg_erob_tail, Inc(rg_erob_tail)} : rob[j] = entry_rob[j]
        /\ ~rob[Inc(rg_erob_tail)].valid
        /\ Entered(rob[rg_erob_tail], d, dest_0)
    BY <1>5, <1>7 DEF rob
  <2>2. /\ ~pv[dest_0] /\ ~pv[dest_1]
        /\ \A p \in Phys : p # dest_0 /\ p # dest_1 => pv[p] = prf_valid[p]
    BY <1>2, Zenon DEF pv
  <2> QED
    BY <1>1, <2>1, <2>2, DispatchValues
<1> QED
  BY <1>1, <1>8 DEF ValueInv

LEMMA MapTwoValues ==
  ASSUME Reached, UserCode, ValueInv, NEW d0 \in Decoded, NEW d1 \in Decoded, MapTwo(d0, d1)
  PROVE  ValueInv'
<1>1. CanMap /\ InvalidateDests /\ csr_pending' = csr_pending /\ regFile' = regFile /\ TypeOK
  BY DEF MapTwo, Reached
<1>2. /\ ~prf_valid'[dest_0] /\ ~prf_valid'[dest_1]
      /\ \A p \in Phys : p # dest_0 /\ p # dest_1 => prf_valid'[p] = prf_valid[p]
  BY <1>1, Invalidated
<1>3. rg_erob_tail \in Slot /\ Inc(rg_erob_tail) \in Slot /\ Inc(rg_erob_tail) # rg_erob_tail
  BY <1>1, DispatchSlots DEF Reached
<1>4. \A i \in Slot : entry_rob'[i] = IF i = Inc(rg_erob_tail) THEN SecondEntry(d0, d1)
                                      ELSE IF i = rg_erob_tail THEN EntryOf(d0, dest_0)
                                      ELSE entry_rob[i]
  BY <1>1 DEF MapTwo, TypeOK
<1>5. /\ \A j \in Slot \ {rg_erob_tail, Inc(rg_erob_tail)} : entry_rob'[j] = entry_rob[j]
      /\ entry_rob'[Inc(rg_erob_tail)] = SecondEntry(d0, d1)
      /\ entry_rob'[rg_erob_tail] = EntryOf(d0, dest_0)
  BY <1>3, <1>4
<1>6. Entered(EntryOf(d0, dest_0), d0, dest_0) /\ Entered(SecondEntry(d0, d1), d1, dest_1)
  BY <1>1, EntryOfReady, SecondEntryReady DEF Entered
<1>7. /\ Entered(entry_rob'[rg_erob_tail], d0, dest_0)
      /\ Entered(entry_rob'[Inc(rg_erob_tail)], d1, dest_1)
  BY <1>5, <1>6
<1> DEFINE rob == entry_rob'
           pv == prf_valid'
<1>8. \A i \in Slot : rob[i].valid =>
           ReadySettled(rob, rob[i]) /\ TagTrue(pv, rob[i]) /\ Result(regFile, rob[i])
  <2> HIDE DEF rob, pv
  <2>1. /\ \A j \in Slot \ {rg_erob_tail, Inc(rg_erob_tail)} : rob[j] = entry_rob[j]
        /\ Entered(rob[rg_erob_tail], d0, dest_0)
        /\ Entered(rob[Inc(rg_erob_tail)], d1, dest_1)
    BY <1>5, <1>7 DEF rob
  <2>2. /\ ~pv[dest_0] /\ ~pv[dest_1]
        /\ \A p \in Phys : p # dest_0 /\ p # dest_1 => pv[p] = prf_valid[p]
    BY <1>2, Zenon DEF pv
  <2> QED
    BY <1>1, <2>1, <2>2, DispatchValues
<1> QED
  BY <1>1, <1>8 DEF ValueInv

-----------------------------------------------------------------------------
(***************************************************************************)
(* Execution.  A register is written while its instruction is not done, so *)
(* nothing that is done, nor what is being executed, has it as an operand. *)
(***************************************************************************)
LEMMA BroadcastFlags ==
  ASSUME TypeOK, NEW tag, NEW squash \in BOOLEAN, NEW i \in Slot
  PROVE  LET e == entry_rob[i]
             f == Broadcast(entry_rob, tag, squash)[i]
         IN  /\ f.op1_ready <=> e.op1_ready \/ e.op_1 = tag
             /\ f.op2_ready <=> e.op2_ready \/ e.op_2 = tag
             /\ f.execute_done <=> e.execute_done \/ e.dest_op = tag
             /\ f.squash <=> e.squash \/ (squash /\ e.dest_op = tag)
             /\ f.aliased = e.aliased
<1> DEFINE e == entry_rob[i]
           w == Wakeup(e, tag)
           f == ExecuteDone(w, tag, squash)
<1>1. e \in Entry_rob_type
  BY DEF TypeOK
<1> HIDE DEF e
<1>2. /\ w \in Entry_rob_type
      /\ w.op1_ready <=> e.op1_ready \/ e.op_1 = tag
      /\ w.op2_ready <=> e.op2_ready \/ e.op_2 = tag
      /\ w.execute_done = e.execute_done
      /\ w.squash = e.squash
      /\ w.dest_op = e.dest_op /\ w.aliased = e.aliased
  BY <1>1 DEF Wakeup, Entry_rob_type
<1> HIDE DEF w
<1>3. /\ f.op1_ready = w.op1_ready
      /\ f.op2_ready = w.op2_ready
      /\ f.execute_done <=> w.execute_done \/ w.dest_op = tag
      /\ f.squash <=> w.squash \/ (squash /\ w.dest_op = tag)
      /\ f.aliased = w.aliased
  BY <1>2 DEF ExecuteDone, Entry_rob_type
<1>4. Broadcast(entry_rob, tag, squash)[i] = f
  BY DEF Broadcast, w, e
<1> HIDE DEF f
<1>5. /\ f.op1_ready <=> e.op1_ready \/ e.op_1 = tag
      /\ f.op2_ready <=> e.op2_ready \/ e.op_2 = tag
      /\ f.execute_done <=> e.execute_done \/ e.dest_op = tag
      /\ f.squash <=> e.squash \/ (squash /\ e.dest_op = tag)
      /\ f.aliased = e.aliased
  BY <1>2, <1>3, Zenon
<1> QED
  BY <1>4, <1>5, Zenon DEF e

(* What Execute and ExecuteLoad have in common.                            *)
Executes(i) ==
    LET e == entry_rob[i]
    IN  /\ ~rg_revert_map /\ ~rg_revert_map' /\ csr_pending' = csr_pending
        /\ Ready(e)
        /\ \A p \in Phys : p # e.dest_op =>
             regFile'[p] = regFile[p] /\ prf_valid'[p] = prf_valid[p]
        /\ \A j \in Slot :
             /\ entry_rob'[j].op1_ready <=> entry_rob[j].op1_ready \/ entry_rob[j].op_1 = e.dest_op
             /\ entry_rob'[j].op2_ready <=> entry_rob[j].op2_ready \/ entry_rob[j].op_2 = e.dest_op
             /\ entry_rob'[j].execute_done <=>
                  entry_rob[j].execute_done \/ entry_rob[j].dest_op = e.dest_op
             /\ j # i => entry_rob'[j].aliased = entry_rob[j].aliased
             /\ entry_rob'[j].squash => entry_rob[j].squash \/ (entry_rob[j].dest_op = e.dest_op
                                          /\ e.inst.op \in {"COND", "JUMP"})
        /\ regFile'[e.dest_op] = Operate(e) \/ (isLD(e.inst) /\ entry_rob'[i].aliased)

LEMMA ExecuteExecutes ==
  ASSUME TypeOK, NEW i \in Slot, Execute(i)
  PROVE  Executes(i)
<1> DEFINE e == entry_rob[i]
           q == e.dest_op
<1>1. PICK squash \in BOOLEAN : /\ squash => e.inst.op \in {"COND", "JUMP"}
                                /\ entry_rob' = Broadcast(entry_rob, q, squash)
  BY DEF Execute
<1>2. /\ ~rg_revert_map /\ ~rg_revert_map' /\ csr_pending' = csr_pending /\ Ready(e)
      /\ regFile' = [regFile EXCEPT ![q] = Operate(e)]
      /\ prf_valid' = [prf_valid EXCEPT ![q] = TRUE]
  BY DEF Execute
<1>3. q \in Phys /\ Operate(e) \in Val
  BY OperateType
<1>4. regFile \in [Phys -> Val] /\ prf_valid \in [Phys -> BOOLEAN]
  BY DEF TypeOK
<1>5. \A j \in Slot :
        /\ entry_rob'[j].op1_ready <=> entry_rob[j].op1_ready \/ entry_rob[j].op_1 = q
        /\ entry_rob'[j].op2_ready <=> entry_rob[j].op2_ready \/ entry_rob[j].op_2 = q
        /\ entry_rob'[j].execute_done <=> entry_rob[j].execute_done \/ entry_rob[j].dest_op = q
        /\ entry_rob'[j].aliased = entry_rob[j].aliased
        /\ entry_rob'[j].squash <=> entry_rob[j].squash \/ (squash /\ entry_rob[j].dest_op = q)
  BY <1>1, BroadcastFlags
<1> HIDE DEF q, e
<1>6. /\ \A p \in Phys : p # q => regFile'[p] = regFile[p] /\ prf_valid'[p] = prf_valid[p]
      /\ regFile'[q] = Operate(e)
  BY <1>2, <1>3, <1>4
<1>7. \A j \in Slot : entry_rob'[j].squash =>
         entry_rob[j].squash \/ (entry_rob[j].dest_op = q /\ e.inst.op \in {"COND", "JUMP"})
  BY <1>1, <1>5, Zenon
<1> QED
  BY <1>2, <1>5, <1>6, <1>7, Zenon DEF Executes, q, e

LEMMA ExecuteLoadExecutes ==
  ASSUME TypeOK, NEW i \in Slot, ExecuteLoad(i)
  PROVE  Executes(i)
<1> DEFINE e == entry_rob[i]
           q == e.dest_op
           no == FALSE
           b == Broadcast(entry_rob, q, no)
<1>1. PICK v \in Val, aliased \in BOOLEAN :
        /\ ~aliased => v = Operate(e)
        /\ regFile' = [regFile EXCEPT ![q] = v]
        /\ entry_rob' = [b EXCEPT ![i].aliased = aliased]
  BY DEF ExecuteLoad
<1>2. /\ ~rg_revert_map /\ ~rg_revert_map' /\ csr_pending' = csr_pending /\ Ready(e)
      /\ prf_valid' = [prf_valid EXCEPT ![q] = TRUE] /\ isLD(e.inst)
  BY DEF ExecuteLoad
<1>3. q \in Phys
  BY OperateType
<1>4. regFile \in [Phys -> Val] /\ prf_valid \in [Phys -> BOOLEAN]
  BY DEF TypeOK
<1>0. no \in BOOLEAN /\ ~no
  OBVIOUS
<1> HIDE DEF no
<1>5. \A j \in Slot :
        /\ b[j].op1_ready <=> entry_rob[j].op1_ready \/ entry_rob[j].op_1 = q
        /\ b[j].op2_ready <=> entry_rob[j].op2_ready \/ entry_rob[j].op_2 = q
        /\ b[j].execute_done <=> entry_rob[j].execute_done \/ entry_rob[j].dest_op = q
        /\ b[j].aliased = entry_rob[j].aliased
        /\ b[j].squash <=> entry_rob[j].squash
  BY <1>0, BroadcastFlags
<1>6. b \in [Slot -> Entry_rob_type]
  BY <1>0, BroadcastType
<1> HIDE DEF q, e, b
<1>7. /\ \A p \in Phys : p # q => regFile'[p] = regFile[p] /\ prf_valid'[p] = prf_valid[p]
      /\ regFile'[q] = v
  BY <1>1, <1>2, <1>3, <1>4
<1>8. ASSUME NEW j \in Slot
      PROVE  /\ entry_rob'[j].op1_ready = b[j].op1_ready
             /\ entry_rob'[j].op2_ready = b[j].op2_ready
             /\ entry_rob'[j].execute_done = b[j].execute_done
             /\ entry_rob'[j].squash = b[j].squash
             /\ entry_rob'[j].aliased = IF j = i THEN aliased ELSE b[j].aliased
  <2>1. b[j] \in Entry_rob_type
    BY <1>6
  <2>2. entry_rob'[j] = IF j = i THEN [b[i] EXCEPT !.aliased = aliased] ELSE b[j]
    BY <1>1, <1>6
  <2> QED
    BY <2>1, <2>2 DEF Entry_rob_type
<1>9. \A j \in Slot :
        /\ entry_rob'[j].op1_ready <=> entry_rob[j].op1_ready \/ entry_rob[j].op_1 = q
        /\ entry_rob'[j].op2_ready <=> entry_rob[j].op2_ready \/ entry_rob[j].op_2 = q
        /\ entry_rob'[j].execute_done <=> entry_rob[j].execute_done \/ entry_rob[j].dest_op = q
        /\ j # i => entry_rob'[j].aliased = entry_rob[j].aliased
        /\ entry_rob'[j].squash => entry_rob[j].squash
  BY <1>5, <1>8, Zenon
<1>10. regFile'[q] = Operate(e) \/ (isLD(e.inst) /\ entry_rob'[i].aliased)
  BY <1>1, <1>2, <1>7, <1>8, Zenon
<1> QED
  BY <1>2, <1>7, <1>9, <1>10, Zenon DEF Executes, q, e

LEMMA ExecuteValues ==
  ASSUME Reached, ValueInv, NEW i \in Slot, Executes(i), WriteBack
  PROVE  ValueInv'
<1> DEFINE e == entry_rob[i]
           q == e.dest_op
<1>1. \A j \in Slot : /\ entry_rob'[j].valid = entry_rob[j].valid
                      /\ entry_rob'[j].inst = entry_rob[j].inst
                      /\ entry_rob'[j].dest_op = entry_rob[j].dest_op
                      /\ entry_rob'[j].op_1 = entry_rob[j].op_1
                      /\ entry_rob'[j].op_2 = entry_rob[j].op_2
  BY WriteBackKeeps DEF Reached
<1>2. e.valid /\ ~e.execute_done /\ e.op1_ready /\ e.op2_ready /\ ~rg_revert_map
  BY DEF Executes, Ready
<1>3. \A j \in Slot : entry_rob[j].valid /\ entry_rob[j].dest_op = q => j = i
  BY <1>2 DEF Reached, DestInQueue, RegistersConserved
<1>4. \A p : Settled(entry_rob, p) => p # q
  BY <1>2 DEF Settled
<1>5. \A p : Settled(entry_rob, p) \/ p = q => Settled(entry_rob', p)
  BY <1>1 DEF Settled, Executes
<1>6. \A j \in Slot : /\ entry_rob[j].dest_op \in Phys /\ entry_rob[j].op_1 \in Phys
                      /\ entry_rob[j].op_2 \in Phys
  BY EntryRegisters DEF Reached, TypeOK
<1>7. ASSUME NEW j \in Slot, entry_rob'[j].valid
      PROVE  /\ ReadySettled(entry_rob', entry_rob'[j])
             /\ TagTrue(prf_valid', entry_rob'[j])
             /\ Result(regFile', entry_rob'[j])
  <2> DEFINE f == entry_rob[j]
             g == entry_rob'[j]
  <2>1. /\ f.valid /\ g.inst = f.inst /\ g.dest_op = f.dest_op /\ g.op_1 = f.op_1 /\ g.op_2 = f.op_2
        /\ ReadySettled(entry_rob, f) /\ TagTrue(prf_valid, f) /\ Result(regFile, f)
    BY <1>1, <1>2, <1>7 DEF ValueInv
  <2>2. /\ g.op1_ready <=> f.op1_ready \/ f.op_1 = q
        /\ g.op2_ready <=> f.op2_ready \/ f.op_2 = q
        /\ g.execute_done <=> f.execute_done \/ f.dest_op = q
        /\ j # i => g.aliased = f.aliased
        /\ g.squash => f.squash \/ (f.dest_op = q /\ e.inst.op \in {"COND", "JUMP"})
    BY DEF Executes
  <2>3. f.dest_op = q => j = i
    BY <1>3, <2>1
  <2>4. /\ \A p \in Phys : p # q => regFile'[p] = regFile[p] /\ prf_valid'[p] = prf_valid[p]
        /\ regFile'[q] = Operate(e) \/ (isLD(e.inst) /\ entry_rob'[i].aliased)
    BY DEF Executes
  <2>5. f.dest_op \in Phys /\ f.op_1 \in Phys /\ f.op_2 \in Phys
    BY <1>6
  <2>6. j = i => g = entry_rob'[i] /\ f = e
    OBVIOUS
  <2> HIDE DEF f, g
  <2>7. ReadySettled(entry_rob', g)
    BY <1>5, <2>1, <2>2 DEF ReadySettled
  <2>8. TagTrue(prf_valid', g)
    <3>1. CASE f.dest_op = q
      BY <2>1, <2>2, <3>1, Zenon DEF TagTrue
    <3>2. CASE f.dest_op # q
      <4>1. prf_valid'[f.dest_op] = prf_valid[f.dest_op]
        BY <2>4, <2>5, <3>2
      <4> QED
        BY <2>1, <2>2, <4>1, Zenon DEF TagTrue
    <3> QED
      BY <3>1, <3>2
  <2>9. g.execute_done => f.op1_ready /\ f.op2_ready /\ f.op_1 # q /\ f.op_2 # q
    <3>1. g.execute_done => f.op1_ready /\ f.op2_ready
      BY <1>2, <2>1, <2>2, <2>3, <2>6 DEF Result
    <3> QED
      BY <1>4, <2>1, <3>1 DEF ReadySettled
  <2>10. g.execute_done => g.op1_ready /\ g.op2_ready
    BY <2>2, <2>9
  <2>11. g.squash => g.inst.op \in {"COND", "JUMP"}
    BY <2>1, <2>2, <2>3, <2>6 DEF Result
  <2>12. ASSUME g.execute_done, ~LoadAliased(g)
         PROVE  regFile'[g.dest_op] = Eval(g.inst, regFile'[g.op_1], regFile'[g.op_2])
    <3>1. regFile'[f.op_1] = regFile[f.op_1] /\ regFile'[f.op_2] = regFile[f.op_2]
      BY <2>4, <2>5, <2>9, <2>12
    <3>2. CASE f.dest_op = q
      <4>1. j = i /\ g = entry_rob'[i] /\ f = e
        BY <2>3, <2>6, <3>2
      <4>2. ~(isLD(e.inst) /\ entry_rob'[i].aliased)
        BY <2>1, <2>12, <4>1 DEF LoadAliased
      <4>3. regFile'[q] = Eval(f.inst, regFile[f.op_1], regFile[f.op_2])
        BY <2>4, <4>1, <4>2 DEF Operate
      <4> QED
        BY <2>1, <3>1, <3>2, <4>3
    <3>3. CASE f.dest_op # q
      <4>1. j # i
        BY <3>3 DEF f
      <4>2. f.execute_done /\ ~LoadAliased(f)
        BY <2>1, <2>2, <2>12, <3>3, <4>1 DEF LoadAliased
      <4>3. regFile[f.dest_op] = Eval(f.inst, regFile[f.op_1], regFile[f.op_2])
        BY <2>1, <4>2 DEF Result
      <4>4. regFile'[f.dest_op] = regFile[f.dest_op]
        BY <2>4, <2>5, <3>3
      <4> QED
        BY <2>1, <3>1, <4>3, <4>4
    <3> QED
      BY <3>2, <3>3
  <2>13. Result(regFile', g)
    BY <2>10, <2>11, <2>12 DEF Result
  <2> QED
    BY <2>7, <2>8, <2>13 DEF g
<1>8. csr_pending' = <<>>
  BY DEF Executes, ValueInv
<1> QED
  BY <1>7, <1>8 DEF ValueInv

-----------------------------------------------------------------------------
(***************************************************************************)
(* Commit, and the invariant.                                              *)
(***************************************************************************)

(* Without traps and System instructions, commit retires one instruction;  *)
(* it flushes after a branch that squashes and for a load that is replayed.*)
LEMMA CommitUser ==
  ASSUME TypeOK, UserCode, CommitOne
  PROVE  /\ head_0.valid /\ head_0.execute_done /\ ~rg_revert_map
         /\ csr_pending' = csr_pending
         /\ rg_revert_map' <=> head_0.squash \/ LoadAliased(head_0)
<1>1. rg_erob_head \in Slot /\ Inc(rg_erob_head) \in Slot
  BY IncType DEF TypeOK
<1>2. /\ ~head_0.inst.exception /\ ~isSystem(head_0.inst)
      /\ ~head_1.inst.exception
  BY <1>1, UserEntries DEF head_0, head_1
<1>3. /\ ~rg_revert_map /\ head_0.valid
      /\ head_0.execute_done \/ head_0.inst.exception \/ isSystem(head_0.inst)
      /\ rg_revert_map' = (FlushFirst \/ head_1.inst.exception)
      /\ CommitSystem
  BY DEF CommitOne, CanCommit
<1>4. csr_pending' = csr_pending
  BY <1>2, <1>3 DEF CommitSystem
<1>5. rg_revert_map' <=> head_0.squash \/ LoadAliased(head_0)
  BY <1>2, <1>3, Zenon DEF FlushFirst
<1> QED
  BY <1>2, <1>3, <1>4, <1>5

LEMMA NoCommitTwo == TypeOK /\ UserCode => ~CommitTwo
<1> SUFFICES ASSUME TypeOK, UserCode, CommitTwo PROVE FALSE
  OBVIOUS
<1>1. ~head_0.inst.exception
  BY UserEntries DEF head_0, TypeOK
<1> QED
  BY <1>1 DEF CommitTwo, CommitSecond

LEMMA CommitOneValues ==
  ASSUME Reached, UserCode, ValueInv, CommitOne
  PROVE  ValueInv'
<1>1. csr_pending' = <<>> /\ ~rg_revert_map
  BY CommitUser DEF Reached, ValueInv
<1>2. /\ prf_valid' = prf_valid /\ regFile' = regFile
      /\ \A i \in Slot \ {rg_erob_head} : entry_rob'[i] = entry_rob[i]
      /\ ~entry_rob'[rg_erob_head].valid
  BY CommitOneRob DEF CommitOne, Reached
<1>3. \A p : Settled(entry_rob, p) => Settled(entry_rob', p)
  BY <1>2 DEF Settled
<1>4. ASSUME NEW i \in Slot, entry_rob'[i].valid
      PROVE  /\ ReadySettled(entry_rob', entry_rob'[i])
             /\ TagTrue(prf_valid', entry_rob'[i])
             /\ Result(regFile', entry_rob'[i])
  <2>1. entry_rob'[i] = entry_rob[i] /\ entry_rob[i].valid
    BY <1>2, <1>4
  <2>2. /\ ReadySettled(entry_rob, entry_rob[i])
        /\ TagTrue(prf_valid, entry_rob[i])
        /\ Result(regFile, entry_rob[i])
    BY <1>1, <2>1 DEF ValueInv
  <2> QED
    BY <1>2, <1>3, <2>1, <2>2 DEF ReadySettled
<1> QED
  BY <1>1, <1>4 DEF ValueInv

LEMMA ValuesInductive == Reached /\ UserCode /\ ValueInv /\ [Next]_vars => ValueInv'
<1> SUFFICES ASSUME Reached, UserCode, ValueInv, [Next]_vars PROVE ValueInv'
  OBVIOUS
<1>1. ASSUME NEW i \in Slot, Execute(i) \/ ExecuteLoad(i) PROVE ValueInv'
  BY <1>1, ExecuteExecutes, ExecuteLoadExecutes, ExecuteValues DEF Reached, WriteBack
<1>2. CASE RevertMap
  BY <1>2, RevertMapRob DEF RevertMap, ValueInv, Reached
<1>3. ~CommitTwo
  BY NoCommitTwo DEF Reached
<1>4. ~CsrResult /\ ~CsrRedirect
  BY DEF ValueInv, CsrResult, CsrRedirect
<1>5. CASE UNCHANGED vars
  BY <1>5 DEF vars, ValueInv
<1> QED
  BY <1>1, <1>2, <1>3, <1>4, <1>5, MapOneValues, MapTwoValues, CommitOneValues DEF Next

LEMMA ValuesInvariant == Spec /\ UserCode => [](Reached /\ UserCode /\ ValueInv)
<1>1. Init => ValueInv
  BY DEF Init, ValueInv
<1>2. RegInv /\ Window /\ TypeOK /\ MapInv => Reached
  BY DEF RegInv, Reached
<1>3. UserCode => UserCode'
  OBVIOUS
<1> QED
  BY <1>1, <1>2, <1>3, ValuesInductive, RegInvariant, WindowHolds, MapInvariant, PTL DEF Spec

-----------------------------------------------------------------------------
(***************************************************************************)
(* Sequences.                                                              *)
(***************************************************************************)
LEMMA IsAppend ==
  ASSUME NEW S, NEW s \in Seq(S), NEW d \in S, NEW n \in Nat, n = Len(s),
         NEW w \in [1 .. n + 1 -> S], \A k \in 1 .. n : w[k] = s[k], w[n + 1] = d
  PROVE  w = Append(s, d)
<1>1. w \in Seq(S) /\ Len(w) = n + 1
  BY SeqDef, LenProperties
<1>2. /\ Append(s, d) \in Seq(S) /\ Len(Append(s, d)) = n + 1
      /\ \A k \in 1 .. n : Append(s, d)[k] = s[k]
      /\ Append(s, d)[n + 1] = d
  BY AppendProperties
<1>3. \A k \in 1 .. n + 1 : w[k] = Append(s, d)[k]
  BY <1>2
<1> QED
  BY <1>1, <1>2, <1>3, SeqEqual

LEMMA IsTail ==
  ASSUME NEW S, NEW s \in Seq(S), NEW n \in Nat, n + 1 = Len(s),
         NEW w \in [1 .. n -> S], \A k \in 1 .. n : w[k] = s[k + 1]
  PROVE  w = Tail(s)
<1>1. w \in Seq(S) /\ Len(w) = n
  BY SeqDef, LenProperties
<1>2. s # <<>>
  OBVIOUS
<1>3. /\ Tail(s) \in Seq(S) /\ Len(Tail(s)) = n
      /\ \A k \in 1 .. n : Tail(s)[k] = s[k + 1]
  BY <1>2, HeadTailProperties
<1> QED
  BY <1>1, <1>3, SeqEqual

-----------------------------------------------------------------------------
(***************************************************************************)
(* The steps of the in-order machine.  The window, apart from the state it *)
(* is read off: the n instructions of a ROB from slot h on.                *)
(***************************************************************************)
Insts == Decoded \cup {NOP}

SlotFrom(h, k) == IF h + k < ENTRY_ROB_SIZE THEN h + k ELSE h + k - ENTRY_ROB_SIZE

WindowOf(rob, h, n) == [k \in 1 .. n |-> rob[SlotFrom(h, k - 1)].inst]

LEMMA SlotFromAge ==
  ASSUME NEW h \in Slot
  PROVE  /\ \A k \in 0 .. ENTRY_ROB_SIZE - 1 :
              SlotFrom(h, k) \in Slot /\ AgeFrom(h)[SlotFrom(h, k)] = k
         /\ \A i \in Slot : SlotFrom(h, AgeFrom(h)[i]) = i
         /\ \A k \in 0 .. ENTRY_ROB_SIZE - 2 : SlotFrom(h, k + 1) = SlotFrom(Inc(h), k)
  BY SizeAssumption DEF SlotFrom, AgeFrom, Slot, Inc

LEMMA WindowType ==
  ASSUME NEW rob \in [Slot -> Entry_rob_type], NEW h \in Slot, NEW n \in 0 .. ENTRY_ROB_SIZE
  PROVE  /\ WindowOf(rob, h, n) \in [1 .. n -> Insts]
         /\ WindowOf(rob, h, n) \in Seq(Insts) /\ Len(WindowOf(rob, h, n)) = n
<1>1. \A i \in Slot : rob[i].inst \in Insts
  BY DEF Entry_rob_type, Insts
<1>2. \A k \in 1 .. n : SlotFrom(h, k - 1) \in Slot
  <2>1. \A k \in 1 .. n : k - 1 \in 0 .. ENTRY_ROB_SIZE - 1
    BY SizeAssumption
  <2> QED
    BY <2>1, SlotFromAge
<1> DEFINE w == WindowOf(rob, h, n)
<1>3. w \in [1 .. n -> Insts]
  BY <1>1, <1>2 DEF WindowOf
<1>4. n \in Nat
  BY SizeAssumption
<1> HIDE DEF w
<1>5. w \in Seq(Insts)
  BY <1>3, <1>4, SeqDef
<1>6. Len(w) = n
  BY <1>3, <1>4, <1>5, LenProperties
<1> QED
  BY <1>3, <1>5, <1>6 DEF w

LEMMA ArchWindowIs == ArchWindow = IF rg_revert_map THEN <<>>
                                   ELSE WindowOf(entry_rob, rg_erob_head, InFlight)
  BY DEF ArchWindow, WindowOf, SlotAt, SlotFrom

(* The number of instructions in flight, before and after each step.       *)
LEMMA InFlightType ==
  ASSUME TypeOK PROVE InFlight \in 0 .. ENTRY_ROB_SIZE
  BY SizeAssumption DEF InFlight, Age, TypeOK, Slot

LEMMA MapOneCount ==
  ASSUME Reached, NEW d \in Decoded, MapOne(d)
  PROVE  /\ InFlight = AgeFrom(rg_erob_head)[rg_erob_tail] /\ InFlight' = InFlight + 1
         /\ InFlight + 1 < ENTRY_ROB_SIZE
<1>1. /\ Inc(rg_erob_tail) # rg_erob_head
      /\ rg_erob_head = rg_erob_tail => ~entry_rob[rg_erob_head].valid
      /\ rg_erob_head \in Slot /\ rg_erob_tail \in Slot
      /\ rg_erob_head' = rg_erob_head /\ rg_erob_tail' = Inc(rg_erob_tail)
  BY DEF MapOne, CanMap, erob_full, Advance, Reached, TypeOK
<1> QED
  BY <1>1, SizeAssumption DEF InFlight, Age, AgeFrom, Slot, Inc

LEMMA MapTwoCount ==
  ASSUME Reached, NEW d0 \in Decoded, NEW d1 \in Decoded, MapTwo(d0, d1)
  PROVE  /\ InFlight = AgeFrom(rg_erob_head)[rg_erob_tail] /\ InFlight' = InFlight + 2
         /\ InFlight + 1 < ENTRY_ROB_SIZE
<1>1. /\ Inc(rg_erob_tail) # rg_erob_head
      /\ rg_erob_head = rg_erob_tail => ~entry_rob[rg_erob_head].valid
      /\ rg_erob_head \in Slot /\ rg_erob_tail \in Slot
      /\ rg_erob_head' = rg_erob_head /\ rg_erob_tail' = Inc(Inc(rg_erob_tail))
  BY DEF MapTwo, CanMap, erob_full, Advance, Reached, TypeOK
<1>2. InFlight = AgeFrom(rg_erob_head)[rg_erob_tail] /\ InFlight + 1 < ENTRY_ROB_SIZE
  BY <1>1, SizeAssumption DEF InFlight, Age, AgeFrom, Slot, Inc
<1>3. entry_rob'[rg_erob_head].valid
  <2>1. CASE rg_erob_head = rg_erob_tail
    BY <2>1, MapTwoRob DEF Reached
  <2>2. CASE rg_erob_head # rg_erob_tail
    <3>1. Age(rg_erob_head) = 0 /\ InFlight > 0
      BY <1>1, <2>2, SizeAssumption DEF InFlight, Age, Slot
    <3>2. entry_rob[rg_erob_head].valid
      BY <1>1, <3>1 DEF Reached, Window
    <3>3. entry_rob'[rg_erob_head] = entry_rob[rg_erob_head]
      BY <1>1, <2>2, MapTwoRob DEF Reached
    <3> QED
      BY <3>2, <3>3
  <2> QED
    BY <2>1, <2>2
<1>4. InFlight' = IF rg_erob_head = Inc(Inc(rg_erob_tail)) THEN ENTRY_ROB_SIZE
                  ELSE AgeFrom(rg_erob_head)[Inc(Inc(rg_erob_tail))]
  <2>1. Inc(Inc(rg_erob_tail)) \in Slot
    BY <1>1, IncType
  <2> QED
    BY <1>1, <1>3, <2>1 DEF InFlight, Age, AgeFrom
<1>5. InFlight' = AgeFrom(rg_erob_head)[rg_erob_tail] + 2
  <2> DEFINE ag == AgeFrom(rg_erob_head)
             u == Inc(rg_erob_tail)
  <2>1. u \in Slot /\ ag[u] = ag[rg_erob_tail] + 1 /\ ag[rg_erob_tail] \in Nat
    BY <1>1, IncType, AgeNext, AgeFunction
  <2>2. Inc(u) # rg_erob_head => ag[Inc(u)] = ag[u] + 1
    BY <1>1, <2>1, AgeNext
  <2>3. Inc(u) = rg_erob_head => ag[u] = ENTRY_ROB_SIZE - 1
    BY <1>1, <2>1, SizeAssumption DEF AgeFrom, Slot, Inc
  <2> QED
    BY <1>4, <2>1, <2>2, <2>3, SizeAssumption
<1> QED
  BY <1>2, <1>5

LEMMA CommitOneCount ==
  ASSUME Reached, CommitOne
  PROVE  InFlight' + 1 = InFlight /\ InFlight > 0
<1>1. /\ rg_erob_head \in Slot /\ rg_erob_tail \in Slot /\ Inc(rg_erob_head) \in Slot
      /\ rg_erob_tail' = rg_erob_tail /\ rg_erob_head' = Inc(rg_erob_head)
      /\ entry_rob[rg_erob_head].valid
      /\ Inc(rg_erob_head) # rg_erob_head
      /\ entry_rob'[Inc(rg_erob_head)] = entry_rob[Inc(rg_erob_head)]
  <2>1. rg_erob_head \in Slot /\ rg_erob_tail \in Slot /\ Inc(rg_erob_head) \in Slot
    BY IncType DEF Reached, TypeOK
  <2>2. Inc(rg_erob_head) # rg_erob_head
    BY <2>1, SizeAssumption DEF Inc, Slot
  <2> QED
    BY <2>1, <2>2, CommitOneRob DEF CommitOne, Advance, Reached, head_0
<1>2. InFlight = IF rg_erob_head = rg_erob_tail THEN ENTRY_ROB_SIZE ELSE Age(rg_erob_tail)
  BY <1>1 DEF InFlight
<1>3. Age(Inc(rg_erob_head)) = 1
  BY <1>1, SizeAssumption DEF Age, Slot, Inc
<1>4. CASE Inc(rg_erob_head) = rg_erob_tail
  <2>1. InFlight = 1
    BY <1>1, <1>2, <1>3, <1>4
  <2>2. ~entry_rob[Inc(rg_erob_head)].valid
    BY <1>1, <1>3, <2>1 DEF Reached, Window
  <2>3. InFlight' = 0
    BY <1>1, <1>4, <2>2 DEF InFlight
  <2> QED
    BY <2>1, <2>3
<1>5. CASE Inc(rg_erob_head) # rg_erob_tail
  <2>1. InFlight' = Age(rg_erob_tail)'
    BY <1>1, <1>5 DEF InFlight
  <2> QED
    BY <1>1, <1>2, <1>5, <2>1, SizeAssumption DEF Age, Slot, Inc
<1> QED
  BY <1>4, <1>5

(* Dispatch appends to the window, and changes no register that is retired.*)
LEMMA MapOneAccepts ==
  ASSUME Reached, NEW d \in Decoded, MapOne(d)
  PROVE  ArchWindow' = Append(ArchWindow, d) /\ ArchRegs' = ArchRegs
<1> DEFINE h == rg_erob_head
           n == InFlight
           s == WindowOf(entry_rob, h, n)
           w == WindowOf(entry_rob', h, n + 1)
<1>1. /\ ~rg_revert_map /\ ~rg_revert_map' /\ rg_erob_head' = h /\ h \in Slot
      /\ rRAM' = rRAM /\ regFile' = regFile
  BY DEF MapOne, CanMap, Reached, TypeOK
<1>2. n = AgeFrom(h)[rg_erob_tail] /\ InFlight' = n + 1 /\ n + 1 < ENTRY_ROB_SIZE
  BY MapOneCount
<1>3. n \in Nat /\ n \in 0 .. ENTRY_ROB_SIZE /\ n + 1 \in 0 .. ENTRY_ROB_SIZE
  BY <1>2, InFlightType, SizeAssumption DEF Reached
<1>4. /\ entry_rob \in [Slot -> Entry_rob_type] /\ entry_rob' \in [Slot -> Entry_rob_type]
      /\ rg_erob_tail \in Slot
  BY MapOneType DEF Reached, TypeOK
<1>5. SlotFrom(h, n) = rg_erob_tail
  BY <1>1, <1>2, <1>4, SlotFromAge
<1>6. ASSUME NEW k \in 1 .. n
      PROVE  entry_rob'[SlotFrom(h, k - 1)] = entry_rob[SlotFrom(h, k - 1)]
  <2>1. k - 1 \in 0 .. ENTRY_ROB_SIZE - 1 /\ k - 1 # n
    BY <1>2, <1>3, SizeAssumption
  <2>2. SlotFrom(h, k - 1) \in Slot /\ SlotFrom(h, k - 1) # rg_erob_tail
    BY <1>1, <1>2, <2>1, SlotFromAge
  <2> QED
    BY <2>2, MapOneRob DEF Reached
<1>7. ArchWindow = s /\ ArchWindow' = w
  <2>1. ArchWindow' = WindowOf(entry_rob', rg_erob_head', InFlight')
    BY <1>1, ArchWindowIs DEF ArchWindow, WindowOf, SlotAt, SlotFrom
  <2> QED
    BY <1>1, <1>2, <2>1, ArchWindowIs
<1>8. s \in Seq(Insts) /\ Len(s) = n /\ w \in [1 .. n + 1 -> Insts] /\ d \in Insts
  BY <1>1, <1>3, <1>4, WindowType DEF Insts
<1>9. /\ \A k \in 1 .. n : w[k] = s[k]
      /\ w[n + 1] = d
  <2>1. \A k \in 1 .. n : w[k] = s[k]
    BY <1>3, <1>6 DEF WindowOf
  <2>2. w[n + 1] = entry_rob'[SlotFrom(h, n)].inst
    BY <1>3 DEF WindowOf
  <2> QED
    BY <1>5, <2>1, <2>2, MapOneRob DEF Reached
<1> HIDE DEF s, w, n
<1>10. w = Append(s, d)
  BY <1>3, <1>8, <1>9, IsAppend
<1> QED
  BY <1>1, <1>7, <1>10 DEF ArchRegs

LEMMA MapTwoAccepts ==
  ASSUME Reached, NEW d0 \in Decoded, NEW d1 \in Decoded, MapTwo(d0, d1)
  PROVE  ArchWindow' = ArchWindow \o <<d0, d1>> /\ ArchRegs' = ArchRegs
<1> DEFINE h == rg_erob_head
           n == InFlight
           s == WindowOf(entry_rob, h, n)
           s1 == WindowOf(entry_rob', h, n + 1)
           w == WindowOf(entry_rob', h, n + 2)
<1>1. /\ ~rg_revert_map /\ ~rg_revert_map' /\ rg_erob_head' = h /\ h \in Slot
      /\ rRAM' = rRAM /\ regFile' = regFile
  BY DEF MapTwo, CanMap, Reached, TypeOK
<1>2. n = AgeFrom(h)[rg_erob_tail] /\ InFlight' = n + 2 /\ n + 1 < ENTRY_ROB_SIZE
  BY MapTwoCount
<1>3. /\ n \in Nat /\ n \in 0 .. ENTRY_ROB_SIZE /\ n + 1 \in 0 .. ENTRY_ROB_SIZE
      /\ n + 2 \in 0 .. ENTRY_ROB_SIZE
  BY <1>2, InFlightType, SizeAssumption DEF Reached
<1>4. /\ entry_rob \in [Slot -> Entry_rob_type] /\ entry_rob' \in [Slot -> Entry_rob_type]
      /\ rg_erob_tail \in Slot /\ Inc(rg_erob_tail) \in Slot
      /\ AgeFrom(h)[Inc(rg_erob_tail)] = n + 1
      /\ Inc(rg_erob_tail) # rg_erob_tail
  BY <1>2, MapTwoType, DispatchSlots DEF Reached, TypeOK, MapTwo
<1>5. SlotFrom(h, n) = rg_erob_tail /\ SlotFrom(h, n + 1) = Inc(rg_erob_tail)
  BY <1>1, <1>2, <1>4, SlotFromAge
<1>6. ASSUME NEW k \in 1 .. n
      PROVE  entry_rob'[SlotFrom(h, k - 1)] = entry_rob[SlotFrom(h, k - 1)]
  <2>1. k - 1 \in 0 .. ENTRY_ROB_SIZE - 1 /\ k - 1 # n /\ k - 1 # n + 1
    BY <1>2, <1>3, SizeAssumption
  <2>2. /\ SlotFrom(h, k - 1) \in Slot /\ SlotFrom(h, k - 1) # rg_erob_tail
        /\ SlotFrom(h, k - 1) # Inc(rg_erob_tail)
    BY <1>1, <1>2, <1>4, <2>1, SlotFromAge
  <2> QED
    BY <2>2, MapTwoRob DEF Reached
<1>7. ArchWindow = s /\ ArchWindow' = w
  <2>1. ArchWindow' = WindowOf(entry_rob', rg_erob_head', InFlight')
    BY <1>1, ArchWindowIs DEF ArchWindow, WindowOf, SlotAt, SlotFrom
  <2> QED
    BY <1>1, <1>2, <2>1, ArchWindowIs
<1>8. /\ s \in Seq(Insts) /\ Len(s) = n /\ s1 \in Seq(Insts) /\ Len(s1) = n + 1
      /\ s1 \in [1 .. n + 1 -> Insts] /\ w \in [1 .. n + 2 -> Insts]
      /\ d0 \in Insts /\ d1 \in Insts
  BY <1>1, <1>3, <1>4, WindowType DEF Insts
<1>9. /\ \A k \in 1 .. n : s1[k] = s[k]
      /\ s1[n + 1] = d0
      /\ \A k \in 1 .. n + 1 : w[k] = s1[k]
      /\ w[n + 2] = d1
  <2>1. \A k \in 1 .. n : s1[k] = s[k]
    BY <1>3, <1>6 DEF WindowOf
  <2>2. s1[n + 1] = entry_rob'[SlotFrom(h, n)].inst
    BY <1>3 DEF WindowOf
  <2>3. \A k \in 1 .. n + 1 : w[k] = s1[k]
    BY <1>3 DEF WindowOf
  <2>4. w[n + 2] = entry_rob'[SlotFrom(h, n + 1)].inst
    BY <1>3 DEF WindowOf
  <2> QED
    BY <1>5, <2>1, <2>2, <2>3, <2>4, MapTwoRob DEF Reached
<1> HIDE DEF s, s1, w, n
<1>10. s1 = Append(s, d0)
  BY <1>3, <1>8, <1>9, IsAppend
<1>11. w = Append(s1, d1)
  <2> DEFINE m == n + 1
  <2>1. m \in Nat /\ m + 1 = n + 2
    BY <1>3
  <2>2. /\ Len(s1) = m /\ w \in [1 .. m + 1 -> Insts] /\ w[m + 1] = d1
        /\ \A k \in 1 .. m : w[k] = s1[k]
    BY <1>8, <1>9, <2>1
  <2> HIDE DEF m
  <2> QED
    BY <1>8, <2>1, <2>2, IsAppend
<1>12. w = s \o <<d0, d1>>
  BY <1>8, <1>10, <1>11
<1> QED
  BY <1>1, <1>7, <1>12 DEF ArchRegs

(* Execution touches nothing that is retired.                              *)
LEMMA ExecuteHidden ==
  ASSUME Reached, NEW i \in Slot, Executes(i), WriteBack
  PROVE  ArchWindow' = ArchWindow /\ ArchRegs' = ArchRegs
<1>1. /\ \A j \in Slot : /\ entry_rob'[j].valid = entry_rob[j].valid
                         /\ entry_rob'[j].inst = entry_rob[j].inst
      /\ rRAM' = rRAM /\ rg_erob_head' = rg_erob_head /\ rg_erob_tail' = rg_erob_tail
  BY WriteBackKeeps DEF Reached
<1>2. ~rg_revert_map /\ ~rg_revert_map' /\ entry_rob[i].valid
  BY DEF Executes, Ready
<1>3. /\ rg_erob_head \in Slot /\ InFlight \in 0 .. ENTRY_ROB_SIZE
      /\ rRAM \in [Arch -> Phys]
  BY InFlightType DEF Reached, TypeOK
<1>4. InFlight' = InFlight
  BY <1>1, <1>3 DEF InFlight, Age
<1>5. \A k \in 1 .. InFlight : SlotFrom(rg_erob_head, k - 1) \in Slot
  <2>1. \A k \in 1 .. InFlight : k - 1 \in 0 .. ENTRY_ROB_SIZE - 1
    BY <1>3, SizeAssumption
  <2> QED
    BY <1>3, <2>1, SlotFromAge
<1>6. ArchWindow' = ArchWindow
  BY <1>1, <1>2, <1>4, <1>5 DEF ArchWindow, SlotAt, SlotFrom
<1>7. \A r \in Arch : rRAM[r] \in Phys /\ rRAM[r] # entry_rob[i].dest_op
  BY <1>2, <1>3 DEF Reached, DestInQueue, RegistersConserved
<1>8. ArchRegs' = ArchRegs
  BY <1>1, <1>7 DEF ArchRegs, Executes
<1> QED
  BY <1>6, <1>8

(* Commit takes the oldest instruction off the window, or all of them.     *)
LEMMA CommitWindow ==
  ASSUME Reached, UserCode, CommitOne
  PROVE  /\ ArchWindow # <<>> /\ Head(ArchWindow) = head_0.inst
         /\ ArchWindow \in Seq(Insts)
         /\ ArchWindow' = IF rg_revert_map' THEN <<>> ELSE Tail(ArchWindow)
<1> DEFINE h == rg_erob_head
           n == InFlight'
           s == WindowOf(entry_rob, h, n + 1)
           w == WindowOf(entry_rob', Inc(h), n)
<1>1. /\ ~rg_revert_map /\ rg_erob_head' = Inc(h) /\ h \in Slot /\ Inc(h) \in Slot
      /\ entry_rob \in [Slot -> Entry_rob_type] /\ entry_rob' \in [Slot -> Entry_rob_type]
  BY CommitOneType, CommitUser, IncType DEF CommitOne, Advance, Reached, TypeOK
<1>2. InFlight = n + 1 /\ n \in Nat /\ n \in 0 .. ENTRY_ROB_SIZE - 1
  <2>1. InFlight \in 0 .. ENTRY_ROB_SIZE /\ InFlight' + 1 = InFlight /\ InFlight > 0
    BY InFlightType, CommitOneCount DEF Reached
  <2>2. rg_erob_head' \in Slot /\ rg_erob_tail' \in Slot
    BY CommitOneType DEF Reached, TypeOK
  <2>3. InFlight' \in Int
    BY <2>2, SizeAssumption DEF InFlight, Age, Slot
  <2>4. n \in Int /\ n + 1 = InFlight /\ InFlight > 0
    BY <2>1, <2>3
  <2> HIDE DEF n
  <2> QED
    BY <2>1, <2>4, SizeAssumption
<1>3. n \in 0 .. ENTRY_ROB_SIZE /\ n + 1 \in 0 .. ENTRY_ROB_SIZE
  <2> HIDE DEF n
  <2> QED
    BY <1>2, SizeAssumption
<1>4. ArchWindow = s /\ ArchWindow' = IF rg_revert_map' THEN <<>> ELSE w
  <2>1. ArchWindow' = IF rg_revert_map' THEN <<>>
                      ELSE WindowOf(entry_rob', rg_erob_head', InFlight')
    BY <1>1 DEF ArchWindow, WindowOf, SlotAt, SlotFrom
  <2> QED
    BY <1>1, <1>2, <2>1, ArchWindowIs
<1> HIDE DEF n
<1>5. s \in Seq(Insts) /\ Len(s) = n + 1 /\ w \in [1 .. n -> Insts]
  BY <1>1, <1>3, WindowType
<1>6. ASSUME NEW k \in 1 .. n
      PROVE  w[k] = s[k + 1]
  <2>1. k - 1 \in 0 .. ENTRY_ROB_SIZE - 2 /\ k \in 0 .. ENTRY_ROB_SIZE - 1 /\ k # 0
    BY <1>2, SizeAssumption
  <2>2. SlotFrom(h, k) = SlotFrom(Inc(h), k - 1)
    <3> DEFINE j == k - 1
    <3>1. j \in 0 .. ENTRY_ROB_SIZE - 2 /\ k = j + 1
      BY <2>1
    <3> HIDE DEF j
    <3>2. SlotFrom(h, j + 1) = SlotFrom(Inc(h), j)
      BY <1>1, <3>1, SlotFromAge
    <3> QED
      BY <3>1, <3>2 DEF j
  <2>3. SlotFrom(h, k) \in Slot /\ AgeFrom(h)[SlotFrom(h, k)] = k /\ AgeFrom(h)[h] = 0
    BY <1>1, <2>1, SlotFromAge, AgeFunction
  <2>4. entry_rob'[SlotFrom(h, k)] = entry_rob[SlotFrom(h, k)]
    BY <2>1, <2>3, CommitOneRob DEF Reached
  <2>5. s[k + 1] = entry_rob[SlotFrom(h, k)].inst
    <3>1. k + 1 \in 1 .. n + 1 /\ (k + 1) - 1 = k
      BY <1>2
    <3> QED
      BY <3>1 DEF WindowOf
  <2>6. w[k] = entry_rob'[SlotFrom(Inc(h), k - 1)].inst
    BY <1>2 DEF WindowOf
  <2> QED
    BY <2>2, <2>4, <2>5, <2>6
<1>7. s[1] = head_0.inst
  <2>1. SlotFrom(h, 0) = h
    BY <1>1, SizeAssumption DEF SlotFrom, Slot
  <2>2. 1 \in 1 .. n + 1 /\ 1 - 1 = 0
    BY <1>2
  <2>3. s[1] = entry_rob[SlotFrom(h, 0)].inst
    BY <2>2 DEF WindowOf
  <2> QED
    BY <2>1, <2>3 DEF head_0
<1> HIDE DEF s, w, h
<1>8. w = Tail(s)
  BY <1>2, <1>5, <1>6, IsTail
<1>9. s # <<>> /\ Head(s) = s[1]
  BY <1>2, <1>5
<1> QED
  BY <1>4, <1>5, <1>7, <1>8, <1>9

(* The oldest instruction has the retired registers as its operands, so    *)
(* what it leaves is what the in-order machine computes.                   *)
LEMMA CommitRegs ==
  ASSUME Reached, UserCode, ValueInv, CommitOne
  PROVE  ArchRegs' = IF LoadAliased(head_0) THEN ArchRegs
                     ELSE InOrder!Perform(head_0.inst)
<1> DEFINE e == head_0
           d == head_0.inst
<1>1. /\ rRAM' = rRAM_one /\ regFile' = regFile /\ e.valid /\ e.execute_done /\ ~rg_revert_map
      /\ rg_erob_head \in Slot
  BY CommitUser DEF CommitOne, Reached, TypeOK
<1>2. CASE LoadAliased(e)
  BY <1>1, <1>2 DEF rRAM_one, ArchRegs
<1>3. CASE ~LoadAliased(e)
  <2>1. /\ e \in Entry_rob_type /\ d.rd \in Arch /\ d.rs1 \in Arch /\ d.rs2 \in Arch
        /\ NoDest(e) <=> d.rd = 0
    BY HeadType, EntryRegisters DEF Reached
  <2>2. regFile[e.dest_op] = Eval(d, regFile[e.op_1], regFile[e.op_2])
    BY <1>1, <1>3 DEF ValueInv, Result, head_0
  <2>3. SourcesIn(WrOf(entry_rob), DstOf(entry_rob), rRAM, AgeFrom(rg_erob_head), e, 0)
    <3>1. AgeFrom(rg_erob_head)[rg_erob_head] = 0
      BY <1>1, AgeFunction
    <3>2. Right(WrOf(entry_rob), DstOf(entry_rob), rRAM, AgeFrom(rg_erob_head), fRAM,
                entry_rob, ValidOf(entry_rob))
      BY <1>1 DEF Reached, MapInv
    <3>3. rg_erob_head \in ValidOf(entry_rob)
      BY <1>1 DEF ValidOf, head_0
    <3> QED
      BY <3>1, <3>2, <3>3 DEF Right, head_0
  <2>4. \A r, i : i \in Slot => ~Writer(WrOf(entry_rob), AgeFrom(rg_erob_head), r, 0, i)
    <3>1. \A i \in Slot : ~(AgeFrom(rg_erob_head)[i] < 0)
      BY <1>1, AgeFunction
    <3> QED
      BY <3>1 DEF Writer
  <2>5. Names1(d)
    BY <1>1, UserEntries DEF Reached, head_0
  <2>6. e.op_1 = rRAM[d.rs1] /\ e.op_2 = rRAM[d.rs2]
    BY <2>3, <2>4, <2>5 DEF SourcesIn, Overlay
  <2>7. rRAM \in [Arch -> Phys]
    BY DEF Reached, TypeOK
  <2>8. /\ d.rd = 0 => rRAM' = rRAM
        /\ d.rd # 0 => rRAM' = [rRAM EXCEPT ![d.rd] = e.dest_op]
    BY <1>1, <1>3, <2>1 DEF rRAM_one, Retire
  <2> HIDE DEF e, d
  <2>9. ArchRegs \in [Arch -> {regFile[rRAM[r]] : r \in Arch}]
    BY DEF ArchRegs
  <2>10. CASE d.rd = 0
    BY <1>1, <2>8, <2>10 DEF ArchRegs, InOrder!Perform, e, d
  <2>11. CASE d.rd # 0
    <3> DEFINE v == Eval(d, regFile[rRAM[d.rs1]], regFile[rRAM[d.rs2]])
    <3>1. regFile[e.dest_op] = v
      BY <2>2, <2>6
    <3>2. ArchRegs[d.rs1] = regFile[rRAM[d.rs1]] /\ ArchRegs[d.rs2] = regFile[rRAM[d.rs2]]
      BY <2>1 DEF ArchRegs
    <3>3. InOrder!Perform(d) = [ArchRegs EXCEPT ![d.rd] = v]
      BY <2>11, <3>2 DEF InOrder!Perform
    <3> HIDE DEF v
    <3>4. ArchRegs' = [r \in Arch |-> regFile[rRAM'[r]]]
      BY <1>1 DEF ArchRegs
    <3>5. \A r \in Arch : regFile[rRAM'[r]] = IF r = d.rd THEN v ELSE regFile[rRAM[r]]
      BY <2>1, <2>7, <2>8, <2>11, <3>1
    <3>6. ArchRegs' = [ArchRegs EXCEPT ![d.rd] = v]
      BY <3>4, <3>5 DEF ArchRegs
    <3> QED
      BY <1>3, <3>3, <3>6 DEF e, d
  <2> QED
    BY <2>10, <2>11
<1> QED
  BY <1>2, <1>3

LEMMA CommitRetires ==
  ASSUME Reached, UserCode, ValueInv, CommitOne
  PROVE  InOrder!Next
<1>1. /\ ArchWindow # <<>> /\ Head(ArchWindow) = head_0.inst
      /\ ArchWindow' = IF rg_revert_map' THEN <<>> ELSE Tail(ArchWindow)
  BY CommitWindow
<1>2. /\ head_0.valid /\ ~rg_revert_map
      /\ rg_revert_map' <=> head_0.squash \/ LoadAliased(head_0)
  BY CommitUser DEF Reached
<1>3. ArchRegs' = IF LoadAliased(head_0) THEN ArchRegs ELSE InOrder!Perform(head_0.inst)
  BY CommitRegs
<1>4. ~head_0.inst.exception
  BY UserEntries DEF head_0, Reached, TypeOK
<1>5. CASE LoadAliased(head_0)
  <2>1. ArchWindow' = <<>> /\ ArchRegs' = ArchRegs
    BY <1>1, <1>2, <1>3, <1>5
  <2>2. Head(ArchWindow).op = "LD"
    BY <1>1, <1>5 DEF LoadAliased, isLD
  <2> QED
    BY <1>1, <2>1, <2>2 DEF InOrder!Next, InOrder!Replay
<1>6. CASE ~LoadAliased(head_0)
  <2>1. ArchRegs' = InOrder!Perform(Head(ArchWindow)) /\ ~Head(ArchWindow).exception
    BY <1>1, <1>3, <1>4, <1>6
  <2>2. CASE head_0.squash
    <3>1. Result(regFile, head_0)
      BY <1>2 DEF ValueInv, head_0, Reached, TypeOK
    <3>2. InOrder!Redirects(Head(ArchWindow))
      BY <1>1, <2>2, <3>1 DEF Result, InOrder!Redirects
    <3>3. ArchWindow' = <<>>
      BY <1>1, <1>2, <2>2
    <3> QED
      BY <1>1, <2>1, <3>2, <3>3 DEF InOrder!Next, InOrder!Retire
  <2>3. CASE ~head_0.squash
    <3>1. ArchWindow' = Tail(ArchWindow)
      BY <1>1, <1>2, <1>6, <2>3
    <3> QED
      BY <1>1, <2>1, <3>1 DEF InOrder!Next, InOrder!Retire
  <2> QED
    BY <2>2, <2>3
<1> QED
  BY <1>5, <1>6

LEMMA InitIsInit == Init => InOrder!Init
<1> SUFFICES ASSUME Init PROVE InOrder!Init
  OBVIOUS
<1>1. TypeOK
  BY InitType
<1>2. InFlight = 0 /\ ~rg_revert_map
  <2>1. 0 \in Slot
    BY SizeAssumption DEF Slot
  <2> QED
    BY <2>1 DEF Init, InFlight
<1>3. ArchWindow = <<>>
  BY <1>2 DEF ArchWindow
<1>4. \A r \in Arch : r \in Phys
  BY SizeAssumption DEF Arch, Phys
<1>5. ArchRegs = [r \in Arch |-> 0]
  BY <1>4 DEF Init, ArchRegs
<1> QED
  BY <1>3, <1>5 DEF InOrder!Init

LEMMA RevertHidden ==
  ASSUME Reached, RevertMap
  PROVE  ArchWindow' = ArchWindow /\ ArchRegs' = ArchRegs
<1>1. InFlight' = 0 /\ ~rg_revert_map'
  <2>1. 0 \in Slot
    BY SizeAssumption DEF Slot
  <2> QED
    BY <2>1, RevertMapRob DEF RevertMap, InFlight, Reached
<1>2. ArchWindow' = <<>>
  BY <1>1 DEF ArchWindow
<1>3. ArchWindow = <<>>
  BY DEF ArchWindow, RevertMap
<1>4. ArchRegs' = ArchRegs
  BY DEF ArchRegs, RevertMap
<1> QED
  BY <1>2, <1>3, <1>4

LEMMA StepImplements ==
  Reached /\ UserCode /\ ValueInv /\ [Next]_vars => [InOrder!Next]_(InOrder!isa)
<1> SUFFICES ASSUME Reached, UserCode, ValueInv, [Next]_vars
             PROVE  InOrder!Next \/ (ArchWindow' = ArchWindow /\ ArchRegs' = ArchRegs)
  BY DEF InOrder!isa
<1>1. ASSUME NEW d \in Decoded, MapOne(d) PROVE InOrder!Next
  BY <1>1, MapOneAccepts DEF InOrder!Next, InOrder!Accept
<1>2. ASSUME NEW d0 \in Decoded, NEW d1 \in Decoded, MapTwo(d0, d1) PROVE InOrder!Next
  BY <1>2, MapTwoAccepts DEF InOrder!Next, InOrder!Accept
<1>3. ASSUME NEW i \in Slot, Execute(i) \/ ExecuteLoad(i)
      PROVE  ArchWindow' = ArchWindow /\ ArchRegs' = ArchRegs
  BY <1>3, ExecuteExecutes, ExecuteLoadExecutes, ExecuteHidden DEF Reached, WriteBack
<1>4. ~CommitTwo
  BY NoCommitTwo DEF Reached
<1>5. ~CsrResult /\ ~CsrRedirect
  BY DEF ValueInv, CsrResult, CsrRedirect
<1>6. CASE UNCHANGED vars
  BY <1>6 DEF vars, ArchWindow, ArchRegs, InFlight, Age, SlotAt
<1> QED
  BY <1>1, <1>2, <1>3, <1>4, <1>5, <1>6, CommitRetires, RevertHidden DEF Next

(* Out of order issue, in-order commit: without traps and System           *)
(* instructions, whatever the order of execution, mispredicted branches    *)
(* and replayed loads, the retired registers always hold what executing    *)
(* the accepted instructions one after the other gives (map_and_rename,    *)
(* rl_wakeup, rl_commit, rl_revert_map).                                   *)
THEOREM ImplementsISAHolds == Spec /\ UserCode => ImplementsISA
  BY InitIsInit, StepImplements, ValuesInvariant, PTL DEF Spec, ImplementsISA, InOrder!Spec

-----------------------------------------------------------------------------
(* The immediate buffer is a queue of the instructions in flight that have *)
(* an immediate: the valid slots are those from its head on, each belongs  *)
(* to one such instruction, and they are in program order.                 *)

(* Places from slot h of the buffer to slot k.                             *)
Ahead(h, k) == IF k >= h THEN k - h ELSE k - h + IMM_BUF_SIZE

(* The buffer buf holds in its n slots from h on the immediates of the     *)
(* instructions in H, by their ages ag; idx is where they expect them.     *)
Queued(H, ag, buf, idx, h, n) ==
    /\ \A k \in ImmIndex : buf[k].valid <=> Ahead(h, k) < n
    /\ \A i \in H : buf[idx[i]] = Fill(i)
    /\ \A k \in ImmIndex : buf[k].valid => buf[k].imm \in H /\ idx[buf[k].imm] = k
    /\ \A i, j \in H : ag[i] < ag[j] => Ahead(h, idx[i]) < Ahead(h, idx[j])

ImmEntry == [valid : BOOLEAN, imm : Slot]

ImmType ==
    /\ imm_buf \in [ImmIndex -> ImmEntry]
    /\ rg_imm_buf_head \in ImmIndex /\ rg_imm_buf_tail \in ImmIndex
    /\ imm_index \in [Slot -> ImmIndex]
    /\ overrun \in BOOLEAN

InOrderOf(H, ag, buf, idx, h, t) ==
    \E n \in 0 .. IMM_BUF_SIZE : t = ImmAdvance(h, n) /\ Queued(H, ag, buf, idx, h, n)

ImmInv ==
    /\ ImmType
    /\ ~overrun => InOrderOf(Holders, AgeFrom(rg_erob_head), imm_buf, imm_index,
                             rg_imm_buf_head, rg_imm_buf_tail)

-----------------------------------------------------------------------------
(***************************************************************************)
(* The circular buffer.                                                    *)
(***************************************************************************)
LEMMA ImmAdvanceIs ==
  ASSUME NEW h \in ImmIndex, NEW n \in 0 .. IMM_BUF_SIZE
  PROVE  /\ ImmAdvance(h, n) = IF h + n < IMM_BUF_SIZE THEN h + n ELSE h + n - IMM_BUF_SIZE
         /\ ImmAdvance(h, n) \in ImmIndex
  BY ImmAssumption DEF ImmAdvance, ImmIndex

LEMMA AheadType ==
  ASSUME NEW h \in ImmIndex, NEW k \in ImmIndex
  PROVE  Ahead(h, k) \in 0 .. IMM_BUF_SIZE - 1
  BY ImmAssumption DEF Ahead, ImmIndex

(* The slot n places from h, and only that one, is n places ahead.         *)
LEMMA AheadAdvance ==
  ASSUME NEW h \in ImmIndex, NEW n \in 0 .. IMM_BUF_SIZE - 1, NEW k \in ImmIndex
  PROVE  Ahead(h, k) = n <=> k = ImmAdvance(h, n)
<1>1. ImmAdvance(h, n) = IF h + n < IMM_BUF_SIZE THEN h + n ELSE h + n - IMM_BUF_SIZE
  BY ImmAdvanceIs, ImmAssumption
<1> QED
  BY <1>1, ImmAssumption DEF Ahead, ImmIndex

LEMMA AheadNext ==
  ASSUME NEW h \in ImmIndex, NEW k \in ImmIndex
  PROVE  /\ k # h => Ahead(ImmAdvance(h, 1), k) + 1 = Ahead(h, k)
         /\ Ahead(ImmAdvance(h, 1), h) = IMM_BUF_SIZE - 1
<1>1. ImmAdvance(h, 1) = IF h + 1 < IMM_BUF_SIZE THEN h + 1 ELSE h + 1 - IMM_BUF_SIZE
  BY ImmAdvanceIs, ImmAssumption
<1> QED
  BY <1>1, ImmAssumption DEF Ahead, ImmIndex

LEMMA AdvanceTwice ==
  ASSUME NEW h \in ImmIndex, NEW n \in Nat, NEW m \in Nat, n + m <= IMM_BUF_SIZE
  PROVE  ImmAdvance(ImmAdvance(h, n), m) = ImmAdvance(h, n + m)
<1>1. n \in 0 .. IMM_BUF_SIZE /\ m \in 0 .. IMM_BUF_SIZE /\ n + m \in 0 .. IMM_BUF_SIZE
  BY ImmAssumption
<1>2. /\ ImmAdvance(h, n) = IF h + n < IMM_BUF_SIZE THEN h + n ELSE h + n - IMM_BUF_SIZE
      /\ ImmAdvance(h, n) \in ImmIndex
  BY <1>1, ImmAdvanceIs
<1> DEFINE g == ImmAdvance(h, n)
           nm == n + m
<1> HIDE DEF g
<1>3. ImmAdvance(g, m) = IF g + m < IMM_BUF_SIZE THEN g + m ELSE g + m - IMM_BUF_SIZE
  BY <1>1, <1>2, ImmAdvanceIs DEF g
<1>4. ImmAdvance(h, nm) = IF h + nm < IMM_BUF_SIZE THEN h + nm ELSE h + nm - IMM_BUF_SIZE
  <2>1. nm \in 0 .. IMM_BUF_SIZE
    BY <1>1
  <2> HIDE DEF nm
  <2> QED
    BY <2>1, ImmAdvanceIs
<1>5. ImmAdvance(g, m) = ImmAdvance(h, nm)
  BY <1>1, <1>2, <1>3, <1>4, ImmAssumption DEF g, ImmIndex
<1> QED
  BY <1>5 DEF g

(* An immediate enters behind the others.                                  *)
LEMMA Push ==
  ASSUME NEW H \in SUBSET Slot, NEW ag, NEW buf \in [ImmIndex -> ImmEntry],
         NEW idx \in [Slot -> ImmIndex], NEW h \in ImmIndex, NEW n \in 0 .. IMM_BUF_SIZE - 1,
         Queued(H, ag, buf, idx, h, n), NEW x \in Slot, x \notin H,
         \A j \in H : ~(ag[x] < ag[j]), ~(ag[x] < ag[x]),
         NEW idx2 \in [Slot -> ImmIndex], \A j \in H : idx2[j] = idx[j],
         idx2[x] = ImmAdvance(h, n)
  PROVE  Queued(H \cup {x}, ag, [buf EXCEPT ![ImmAdvance(h, n)] = Fill(x)], idx2, h, n + 1)
<1> DEFINE t == ImmAdvance(h, n)
           b2 == [buf EXCEPT ![t] = Fill(x)]
<1>1. t \in ImmIndex /\ Ahead(h, t) = n
  <2>1. t \in ImmIndex
    BY ImmAdvanceIs, ImmAssumption
  <2> HIDE DEF t
  <2> QED
    BY <2>1, AheadAdvance DEF t
<1>2. \A k \in ImmIndex : b2[k] = IF k = t THEN Fill(x) ELSE buf[k]
  OBVIOUS
<1>3. \A k \in ImmIndex : Ahead(h, k) \in 0 .. IMM_BUF_SIZE - 1 /\ (Ahead(h, k) = n <=> k = t)
  BY AheadType, AheadAdvance
<1>4. Fill(x).valid /\ Fill(x).imm = x
  BY DEF Fill
<1>5. idx2[x] = t
  OBVIOUS
<1> HIDE DEF t, b2
<1>6. ASSUME NEW k \in ImmIndex PROVE b2[k].valid <=> Ahead(h, k) < n + 1
  <2>1. CASE k = t
    BY <1>1, <1>2, <1>4, <2>1
  <2>2. CASE k # t
    <3>1. Ahead(h, k) < n + 1 <=> Ahead(h, k) < n
      BY <1>3, <2>2
    <3> QED
      BY <1>2, <2>2, <3>1 DEF Queued
  <2> QED
    BY <2>1, <2>2
<1>7. ASSUME NEW i \in H PROVE idx2[i] = idx[i] /\ idx[i] \in ImmIndex /\ Ahead(h, idx[i]) < n
  <2>1. buf[idx[i]].valid
    <3>1. buf[idx[i]] = Fill(i)
      BY DEF Queued
    <3>2. Fill(i).valid
      BY DEF Fill
    <3> QED
      BY <3>1, <3>2
  <2> QED
    BY <2>1 DEF Queued
<1>8. ASSUME NEW i \in H \cup {x} PROVE b2[idx2[i]] = Fill(i)
  <2>1. CASE i = x
    BY <1>1, <1>2, <1>5, <2>1
  <2>2. CASE i # x
    <3>1. i \in H /\ idx2[i] = idx[i] /\ idx[i] \in ImmIndex /\ idx[i] # t
      BY <1>1, <1>7, <2>2
    <3> QED
      BY <1>2, <3>1 DEF Queued
  <2> QED
    BY <2>1, <2>2
<1>9. ASSUME NEW k \in ImmIndex, b2[k].valid
      PROVE  b2[k].imm \in H \cup {x} /\ idx2[b2[k].imm] = k
  <2>1. CASE k = t
    BY <1>2, <1>4, <1>5, <2>1
  <2>2. CASE k # t
    <3>1. b2[k] = buf[k] /\ buf[k].valid
      BY <1>2, <1>9, <2>2
    <3>2. buf[k].imm \in H /\ idx[buf[k].imm] = k
      BY <3>1 DEF Queued
    <3> QED
      BY <3>1, <3>2
  <2> QED
    BY <2>1, <2>2
<1>10. ASSUME NEW i \in H \cup {x}, NEW j \in H \cup {x}, ag[i] < ag[j]
       PROVE  Ahead(h, idx2[i]) < Ahead(h, idx2[j])
  <2>1. i # x
    BY <1>10
  <2>2. i \in H /\ Ahead(h, idx2[i]) < n
    BY <1>7, <2>1
  <2>3. CASE j = x
    BY <1>1, <1>5, <2>2, <2>3
  <2>4. CASE j # x
    BY <1>7, <1>10, <2>2, <2>4 DEF Queued
  <2> QED
    BY <2>3, <2>4
<1>11. Queued(H \cup {x}, ag, b2, idx2, h, n + 1)
  BY <1>6, <1>8, <1>9, <1>10 DEF Queued
<1> QED
  BY <1>11 DEF b2, t

(* The oldest immediate is at the head, and leaves from there.             *)
LEMMA OldestAtHead ==
  ASSUME NEW H \in SUBSET Slot, NEW ag, NEW buf \in [ImmIndex -> ImmEntry],
         NEW idx \in [Slot -> ImmIndex], NEW h \in ImmIndex, NEW n \in 0 .. IMM_BUF_SIZE,
         Queued(H, ag, buf, idx, h, n), NEW x \in H, \A j \in H \ {x} : ag[x] < ag[j]
  PROVE  idx[x] = h /\ n > 0
<1>1. buf[idx[x]].valid /\ idx[x] \in ImmIndex
  <2>1. buf[idx[x]] = Fill(x)
    BY DEF Queued
  <2>2. Fill(x).valid
    BY DEF Fill
  <2> QED
    BY <2>1, <2>2
<1>2. Ahead(h, idx[x]) < n /\ Ahead(h, idx[x]) \in 0 .. IMM_BUF_SIZE - 1
  BY <1>1, AheadType DEF Queued
<1>3. Ahead(h, h) = 0 /\ h \in ImmIndex
  BY DEF Ahead, ImmIndex
<1>4. buf[h].valid /\ n > 0
  BY <1>2, <1>3 DEF Queued
<1>5. buf[h].imm \in H /\ idx[buf[h].imm] = h
  BY <1>4 DEF Queued
<1>6. CASE buf[h].imm = x
  BY <1>4, <1>5, <1>6
<1>7. CASE buf[h].imm # x
  <2>1. Ahead(h, idx[x]) < Ahead(h, h)
    BY <1>5, <1>7 DEF Queued
  <2> QED
    BY <1>2, <1>3, <2>1
<1> QED
  BY <1>6, <1>7

LEMMA Pop ==
  ASSUME NEW H \in SUBSET Slot, NEW ag, NEW buf \in [ImmIndex -> ImmEntry],
         NEW idx \in [Slot -> ImmIndex], NEW h \in ImmIndex, NEW n \in 0 .. IMM_BUF_SIZE,
         Queued(H, ag, buf, idx, h, n), NEW x \in H, \A j \in H \ {x} : ag[x] < ag[j],
         NEW b2, \A k \in ImmIndex : b2[k] = IF k = idx[x] THEN [buf[k] EXCEPT !.valid = FALSE]
                                             ELSE buf[k]
  PROVE  Queued(H \ {x}, ag, b2, idx, ImmAdvance(h, 1), n - 1)
<1> DEFINE g == ImmAdvance(h, 1)
<1>1. idx[x] = h /\ n > 0
  BY OldestAtHead
<1>2. /\ \A k \in ImmIndex : k # h => Ahead(g, k) + 1 = Ahead(h, k)
      /\ Ahead(g, h) = IMM_BUF_SIZE - 1
  BY AheadNext
<1>3. g \in ImmIndex
  BY ImmAdvanceIs, ImmAssumption
<1>4. \A k \in ImmIndex : /\ Ahead(g, k) \in 0 .. IMM_BUF_SIZE - 1
                          /\ Ahead(h, k) \in 0 .. IMM_BUF_SIZE - 1
  BY <1>3, AheadType
<1> HIDE DEF g
<1>5. ~b2[h].valid /\ \A k \in ImmIndex : k # h => b2[k] = buf[k]
  <2>1. buf[h] \in ImmEntry /\ b2[h] = [buf[h] EXCEPT !.valid = FALSE]
    BY <1>1
  <2> QED
    BY <1>1, <2>1 DEF ImmEntry
<1>6. ASSUME NEW k \in ImmIndex PROVE b2[k].valid <=> Ahead(g, k) < n - 1
  <2>1. CASE k = h
    BY <1>2, <1>5, <2>1, ImmAssumption
  <2>2. CASE k # h
    <3>1. Ahead(g, k) < n - 1 <=> Ahead(h, k) < n
      BY <1>2, <1>4, <2>2
    <3> QED
      BY <1>5, <2>2, <3>1 DEF Queued
  <2> QED
    BY <2>1, <2>2
<1>7. ASSUME NEW i \in H \ {x} PROVE buf[idx[i]] = Fill(i) /\ idx[i] # h /\ idx[i] \in ImmIndex
  <2>1. buf[idx[i]] = Fill(i) /\ buf[idx[x]] = Fill(x)
    BY DEF Queued
  <2>2. Fill(i) # Fill(x)
    <3>1. Fill(i).imm = i /\ Fill(x).imm = x
      BY DEF Fill
    <3> QED
      BY <3>1
  <2> QED
    BY <1>1, <2>1, <2>2
<1>8. \A i \in H \ {x} : b2[idx[i]] = Fill(i)
  BY <1>5, <1>7
<1>9. ASSUME NEW k \in ImmIndex, b2[k].valid
      PROVE  b2[k].imm \in H \ {x} /\ idx[b2[k].imm] = k
  <2>1. k # h /\ b2[k] = buf[k] /\ buf[k].valid
    BY <1>5, <1>9
  <2> QED
    BY <1>1, <2>1 DEF Queued
<1>10. ASSUME NEW i \in H \ {x}, NEW j \in H \ {x}, ag[i] < ag[j]
       PROVE  Ahead(g, idx[i]) < Ahead(g, idx[j])
  <2>1. Ahead(h, idx[i]) < Ahead(h, idx[j])
    BY <1>10 DEF Queued
  <2> QED
    BY <1>2, <1>4, <1>7, <2>1
<1> QED
  BY <1>6, <1>8, <1>9, <1>10 DEF Queued, g

(* Only the order of the ages and the places of those in H matter.         *)
LEMMA QueuedOrder ==
  ASSUME NEW H \in SUBSET Slot, NEW ag, NEW ag2, NEW buf \in [ImmIndex -> ImmEntry],
         NEW idx, NEW idx2, NEW h, NEW n, Queued(H, ag, buf, idx, h, n),
         \A j \in H : idx2[j] = idx[j],
         \A i, j \in H : ag2[i] < ag2[j] => ag[i] < ag[j]
  PROVE  Queued(H, ag2, buf, idx2, h, n)
  BY DEF Queued

-----------------------------------------------------------------------------
(***************************************************************************)
(* Dispatch.                                                               *)
(***************************************************************************)

(* if_imm_buf_full leaves room for the two immediates of a packet.         *)
LEMMA Room ==
  ASSUME ImmType, ~if_imm_buf_full, NEW n \in 0 .. IMM_BUF_SIZE, NEW H, NEW ag,
         rg_imm_buf_tail = ImmAdvance(rg_imm_buf_head, n),
         Queued(H, ag, imm_buf, imm_index, rg_imm_buf_head, n)
  PROVE  n + 2 <= IMM_BUF_SIZE
<1> DEFINE h == rg_imm_buf_head
           t == rg_imm_buf_tail
<1>1. h \in ImmIndex /\ t \in ImmIndex
  BY DEF ImmType
<1>2. t = IF h + n < IMM_BUF_SIZE THEN h + n ELSE h + n - IMM_BUF_SIZE
  BY <1>1, ImmAdvanceIs
<1>3. ImmAdvance(t, 1) = IF t + 1 < IMM_BUF_SIZE THEN t + 1 ELSE t + 1 - IMM_BUF_SIZE
  BY <1>1, ImmAdvanceIs, ImmAssumption
<1>4. ASSUME n = IMM_BUF_SIZE PROVE FALSE
  <2>1. h = t
    BY <1>1, <1>2, <1>4, ImmAssumption DEF ImmIndex
  <2>2. Ahead(h, h) < n
    BY <1>1, <1>4, ImmAssumption DEF Ahead, ImmIndex
  <2>3. imm_buf[h].valid
    BY <1>1, <2>2 DEF Queued
  <2> QED
    BY <2>1, <2>3 DEF if_imm_buf_full
<1>5. ASSUME n = IMM_BUF_SIZE - 1 PROVE FALSE
  <2>1. ImmAdvance(t, 1) = h
    BY <1>1, <1>2, <1>3, <1>5, ImmAssumption DEF ImmIndex
  <2> QED
    BY <2>1 DEF if_imm_buf_full
<1> QED
  BY <1>4, <1>5, ImmAssumption

LEMMA FillType ==
  ASSUME NEW i \in Slot PROVE Fill(i) \in ImmEntry
  BY DEF Fill, ImmEntry

(* What the dispatch of packet ds asks of the buffer.                      *)
LEMMA RoomAsked ==
  ASSUME ImmType, NEW ds, ImmRoom(ds), ~overrun'
  PROVE  ~overrun /\ ((\E d \in ds : HasImm(d)) => ~if_imm_buf_full)
  BY Zenon DEF ImmRoom

LEMMA CountIs ==
  ASSUME NEW d PROVE Count(d) = (IF HasImm(d) THEN 1 ELSE 0) /\ Count(d) \in {0, 1}
  BY DEF Count

LEMMA ImmMapOneKept ==
  ASSUME TypeOK, Window, ImmInv, NEW d \in Decoded, ImmMapOne(d)
  PROVE  ImmInv'
<1> DEFINE h == rg_imm_buf_head
           t == rg_imm_buf_tail
           x == rg_erob_tail
           ag == AgeFrom(rg_erob_head)
           idx2 == [imm_index EXCEPT ![x] = t]
           b2 == [imm_buf EXCEPT ![t] = Fill(x)]
<1>1. /\ CanMap /\ MapOne(d) /\ ImmRoom({d})
      /\ imm_buf' = IF HasImm(d) THEN b2 ELSE imm_buf
      /\ imm_index' = idx2 /\ rg_imm_buf_tail' = ImmAdvance(t, Count(d))
      /\ rg_imm_buf_head' = h /\ rg_erob_head' = rg_erob_head
      /\ ImmType
  BY DEF ImmMapOne, MapOne, ImmInv
<1>2. /\ x \in Slot /\ ~entry_rob[x].valid
      /\ \A j \in Slot : entry_rob[j].valid => ag[j] < ag[x]
  BY <1>1, DispatchSlots
<1>3. /\ imm_buf \in [ImmIndex -> ImmEntry] /\ h \in ImmIndex /\ t \in ImmIndex
      /\ imm_index \in [Slot -> ImmIndex] /\ idx2 \in [Slot -> ImmIndex]
      /\ b2 \in [ImmIndex -> ImmEntry]
  BY <1>1, <1>2, FillType DEF ImmType
<1>4. Holders' = IF HasImm(d) THEN Holders \cup {x} ELSE Holders
  <2>1. /\ \A i \in Slot \ {x} : entry_rob'[i] = entry_rob[i]
        /\ entry_rob'[x].valid /\ entry_rob'[x].inst = d
    BY <1>1, MapOneRob
  <2> QED
    BY <1>2, <2>1 DEF Holders
<1>5. /\ Holders \in SUBSET Slot /\ x \notin Holders
      /\ \A j \in Holders : ag[j] < ag[x]
  BY <1>2 DEF Holders
<1>6. \A j \in Slot : ag[j] \in Nat
  BY AgeFunction DEF TypeOK
<1>7. /\ \A j \in Holders : ~(ag[x] < ag[j])
      /\ ~(ag[x] < ag[x])
  <2> HIDE DEF ag, x
  <2> QED
    BY <1>2, <1>5, <1>6
<1>8. ImmType'
  <2>1. ImmAdvance(t, Count(d)) \in ImmIndex
    <3> DEFINE c == Count(d)
    <3>1. c \in 0 .. IMM_BUF_SIZE
      BY CountIs, ImmAssumption
    <3> HIDE DEF c
    <3> QED
      BY <1>3, <3>1, ImmAdvanceIs DEF c
  <2>2. overrun' \in BOOLEAN
    BY <1>1, Zenon DEF ImmRoom
  <2> QED
    BY <1>1, <1>3, <2>1, <2>2 DEF ImmType
<1>9. ASSUME ~overrun'
      PROVE  InOrderOf(Holders', ag, imm_buf', imm_index', h, rg_imm_buf_tail')
  <2>1. ~overrun /\ (HasImm(d) => ~if_imm_buf_full)
    BY <1>1, <1>9, RoomAsked
  <2>2. PICK n \in 0 .. IMM_BUF_SIZE : /\ t = ImmAdvance(h, n)
                                       /\ Queued(Holders, ag, imm_buf, imm_index, h, n)
    BY <2>1 DEF ImmInv, InOrderOf
  <2>3. /\ \A j \in Holders : idx2[j] = imm_index[j]
        /\ idx2[x] = t
    BY <1>2, <1>3, <1>5
  <2> HIDE DEF ag, idx2
  <2>4. CASE HasImm(d)
    <3>1. n + 2 <= IMM_BUF_SIZE
      BY <1>1, <2>1, <2>2, <2>4, Room
    <3>2. n \in 0 .. IMM_BUF_SIZE - 1 /\ n + 1 \in 0 .. IMM_BUF_SIZE /\ n \in Nat
      BY <3>1, ImmAssumption
    <3> DEFINE H == Holders
               bf == imm_buf
               ix == imm_index
    <3>3. Queued(H \cup {x}, ag, [bf EXCEPT ![ImmAdvance(h, n)] = Fill(x)], idx2, h, n + 1)
      <4>1. /\ H \in SUBSET Slot /\ bf \in [ImmIndex -> ImmEntry] /\ ix \in [Slot -> ImmIndex]
            /\ Queued(H, ag, bf, ix, h, n) /\ x \notin H /\ x \in Slot
            /\ \A j \in H : ~(ag[x] < ag[j])
            /\ \A j \in H : idx2[j] = ix[j]
            /\ idx2[x] = ImmAdvance(h, n) /\ idx2 \in [Slot -> ImmIndex]
        BY <1>2, <1>3, <1>5, <1>7, <2>2, <2>3
      <4> HIDE DEF H, bf, ix, x, h, t
      <4> QED
        BY <1>3, <1>7, <3>2, <4>1, Push
    <3>4. ImmAdvance(t, 1) = ImmAdvance(h, n + 1)
      BY <1>3, <2>2, <3>2, AdvanceTwice
    <3>5. rg_imm_buf_tail' = ImmAdvance(h, n + 1)
      BY <1>1, <2>4, <3>4 DEF Count
    <3>6. Queued(Holders', ag, imm_buf', imm_index', h, n + 1)
      BY <1>1, <1>4, <2>2, <2>4, <3>3 DEF H, bf
    <3> QED
      BY <3>2, <3>5, <3>6 DEF InOrderOf
  <2>5. CASE ~HasImm(d)
    <3>1. Queued(Holders, ag, imm_buf, idx2, h, n)
      BY <1>3, <1>5, <2>2, <2>3, QueuedOrder
    <3>2. ImmAdvance(t, 0) = ImmAdvance(h, n)
      <4>1. ImmAdvance(t, 0) = t
        BY <1>3, ImmAdvanceIs, ImmAssumption DEF ImmIndex
      <4> QED
        BY <2>2, <4>1
    <3>3. rg_imm_buf_tail' = ImmAdvance(h, n)
      BY <1>1, <2>5, <3>2 DEF Count
    <3>4. Queued(Holders', ag, imm_buf', imm_index', h, n)
      BY <1>1, <1>4, <2>5, <3>1
    <3> QED
      BY <3>3, <3>4 DEF InOrderOf
  <2> QED
    BY <2>4, <2>5
<1>10. AgeFrom(rg_erob_head)' = ag
  BY <1>1
<1> QED
  BY <1>1, <1>8, <1>9, <1>10 DEF ImmInv

(* An instruction enters, with an immediate or without.                    *)
LEMMA Enter ==
  ASSUME NEW H \in SUBSET Slot, NEW ag, NEW buf \in [ImmIndex -> ImmEntry],
         NEW idx \in [Slot -> ImmIndex], NEW h \in ImmIndex, NEW n \in Nat,
         Queued(H, ag, buf, idx, h, n), NEW x \in Slot, x \notin H,
         \A j \in H : ~(ag[x] < ag[j]), ~(ag[x] < ag[x]),
         NEW b \in BOOLEAN,
         b => n < IMM_BUF_SIZE /\ idx[x] = ImmAdvance(h, n)
  PROVE  LET buf2 == IF b THEN [buf EXCEPT ![ImmAdvance(h, n)] = Fill(x)] ELSE buf
         IN  /\ Queued(IF b THEN H \cup {x} ELSE H, ag, buf2, idx, h, IF b THEN n + 1 ELSE n)
             /\ buf2 \in [ImmIndex -> ImmEntry]
<1>1. CASE b
  <2>1. n \in 0 .. IMM_BUF_SIZE - 1 /\ n \in 0 .. IMM_BUF_SIZE /\ idx[x] = ImmAdvance(h, n)
    BY <1>1, ImmAssumption
  <2>2. Queued(H \cup {x}, ag, [buf EXCEPT ![ImmAdvance(h, n)] = Fill(x)], idx, h, n + 1)
    BY <2>1, Push
  <2>3. ImmAdvance(h, n) \in ImmIndex /\ Fill(x) \in ImmEntry
    BY <2>1, ImmAdvanceIs, FillType
  <2> QED
    BY <1>1, <2>2, <2>3
<1>2. CASE ~b
  BY <1>2
<1> QED
  BY <1>1, <1>2

LEMMA ImmMapTwoKept ==
  ASSUME TypeOK, Window, ImmInv, NEW d0 \in Decoded, NEW d1 \in Decoded, ImmMapTwo(d0, d1)
  PROVE  ImmInv'
<1> DEFINE h == rg_imm_buf_head
           t == rg_imm_buf_tail
           next == ImmAdvance(t, 1)
           x == rg_erob_tail
           y == Inc(rg_erob_tail)
           ag == AgeFrom(rg_erob_head)
           p == HasImm(d0)
           q == HasImm(d1)
           b2 == CASE p /\ q -> [imm_buf EXCEPT ![t] = Fill(x), ![next] = Fill(y)]
                   [] p /\ ~q -> [imm_buf EXCEPT ![t] = Fill(x)]
                   [] ~p /\ q -> [imm_buf EXCEPT ![t] = Fill(y)]
                   [] OTHER -> imm_buf
           idx2 == [imm_index EXCEPT ![x] = t, ![y] = IF ~p /\ q THEN t ELSE next]
<1>1. /\ CanMap /\ MapTwo(d0, d1) /\ ImmRoom({d0, d1})
      /\ imm_buf' = b2
      /\ imm_index' = idx2 /\ rg_imm_buf_tail' = ImmAdvance(t, Count(d0) + Count(d1))
      /\ rg_imm_buf_head' = h /\ rg_erob_head' = rg_erob_head
      /\ ImmType
  BY DEF ImmMapTwo, MapTwo, ImmInv
<1>2. /\ x \in Slot /\ y \in Slot /\ x # y /\ ~entry_rob[x].valid /\ ~entry_rob[y].valid
      /\ ag[y] = ag[x] + 1
      /\ \A j \in Slot : entry_rob[j].valid => ag[j] < ag[x]
  BY <1>1, DispatchSlots
<1>3. /\ imm_buf \in [ImmIndex -> ImmEntry] /\ h \in ImmIndex /\ t \in ImmIndex
      /\ imm_index \in [Slot -> ImmIndex]
      /\ Fill(x) \in ImmEntry /\ Fill(y) \in ImmEntry
  BY <1>1, <1>2, FillType DEF ImmType
<1>4. next \in ImmIndex
  BY <1>3, ImmAdvanceIs, ImmAssumption
<1>5. p \in BOOLEAN /\ q \in BOOLEAN
  BY DecodedAssumption DEF HasImm, DecodedType, isSystem
<1>6. Holders' = LET H1 == IF p THEN Holders \cup {x} ELSE Holders
                 IN  IF q THEN H1 \cup {y} ELSE H1
  <2>1. /\ \A i \in Slot \ {x, y} : entry_rob'[i] = entry_rob[i]
        /\ entry_rob'[x].valid /\ entry_rob'[x].inst = d0
        /\ entry_rob'[y].valid /\ entry_rob'[y].inst = d1
    BY <1>1, MapTwoRob
  <2> QED
    BY <1>2, <2>1 DEF Holders
<1>7. /\ Holders \in SUBSET Slot /\ x \notin Holders /\ y \notin Holders
      /\ \A j \in Holders : ag[j] < ag[x]
  BY <1>2 DEF Holders
<1>8. \A j \in Slot : ag[j] \in Nat
  BY AgeFunction DEF TypeOK
<1> HIDE DEF next, x, y, ag, p, q
<1>9. /\ \A j \in Holders : ~(ag[x] < ag[j]) /\ ~(ag[y] < ag[j])
      /\ ~(ag[x] < ag[x]) /\ ~(ag[y] < ag[y]) /\ ~(ag[y] < ag[x])
  BY <1>2, <1>7, <1>8
<1>10. /\ idx2 \in [Slot -> ImmIndex]
       /\ idx2[x] = t /\ idx2[y] = IF ~p /\ q THEN t ELSE next
       /\ \A j \in Holders : idx2[j] = imm_index[j]
  BY <1>2, <1>3, <1>4, <1>7
<1>11. b2 \in [ImmIndex -> ImmEntry]
  BY <1>3, <1>4, <1>5
<1>12. Count(d0) = (IF p THEN 1 ELSE 0) /\ Count(d1) = (IF q THEN 1 ELSE 0)
  BY DEF Count, p, q
<1>13. ImmType'
  <2>1. ImmAdvance(t, Count(d0) + Count(d1)) \in ImmIndex
    <3> DEFINE c == Count(d0) + Count(d1)
    <3>1. c \in 0 .. IMM_BUF_SIZE
      BY <1>12, ImmAssumption
    <3> HIDE DEF c
    <3>2. ImmAdvance(t, c) \in ImmIndex
      BY <1>3, <3>1, ImmAdvanceIs
    <3> QED
      BY <3>2 DEF c
  <2>2. overrun' \in BOOLEAN
    BY <1>1, Zenon DEF ImmRoom
  <2> HIDE DEF b2, idx2
  <2> QED
    BY <1>1, <1>3, <1>10, <1>11, <2>1, <2>2 DEF ImmType
<1>14. ASSUME ~overrun'
       PROVE  InOrderOf(Holders', ag, imm_buf', imm_index', h, rg_imm_buf_tail')
  <2>1. ~overrun /\ (p \/ q => ~if_imm_buf_full)
    BY <1>1, <1>14, RoomAsked DEF p, q
  <2>2. PICK n \in 0 .. IMM_BUF_SIZE : /\ t = ImmAdvance(h, n)
                                       /\ Queued(Holders, ag, imm_buf, imm_index, h, n)
    BY <2>1 DEF ImmInv, InOrderOf, ag
  <2>3. n \in Nat /\ (p \/ q => n + 2 <= IMM_BUF_SIZE)
    BY <1>1, <2>1, <2>2, Room, ImmAssumption
  <2>4. p \/ q => next = ImmAdvance(h, n + 1)
    <3>1. ASSUME n + 1 <= IMM_BUF_SIZE
          PROVE  ImmAdvance(ImmAdvance(h, n), 1) = ImmAdvance(h, n + 1)
      BY <1>3, <2>3, <3>1, AdvanceTwice
    <3>2. p \/ q => n + 1 <= IMM_BUF_SIZE
      BY <2>3, ImmAssumption
    <3> QED
      BY <2>2, <3>1, <3>2 DEF next
  <2> DEFINE H == Holders
             H1 == IF p THEN H \cup {x} ELSE H
             H2 == IF q THEN H1 \cup {y} ELSE H1
             n1 == IF p THEN n + 1 ELSE n
             n2 == IF q THEN n1 + 1 ELSE n1
             bf == imm_buf
             bf1 == IF p THEN [bf EXCEPT ![ImmAdvance(h, n)] = Fill(x)] ELSE bf
             bf2 == IF q THEN [bf1 EXCEPT ![ImmAdvance(h, n1)] = Fill(y)] ELSE bf1
  <2>5. bf2 = b2
    <3>1. CASE p /\ q
      BY <2>2, <2>4, <3>1
    <3>2. CASE p /\ ~q
      BY <2>2, <3>2
    <3>3. CASE ~p /\ q
      BY <2>2, <3>3
    <3>4. CASE ~p /\ ~q
      BY <3>4
    <3> QED
      BY <1>5, <3>1, <3>2, <3>3, <3>4
  <2>6. q => idx2[y] = ImmAdvance(h, n1)
    BY <1>5, <1>10, <2>2, <2>4
  <2>7. Holders' = H2
    BY <1>6
  <2>8. /\ n1 \in Nat /\ n2 \in Nat /\ n2 <= IMM_BUF_SIZE
        /\ p => n < IMM_BUF_SIZE
        /\ q => n1 < IMM_BUF_SIZE
        /\ n2 \in 0 .. IMM_BUF_SIZE
    BY <2>3, ImmAssumption
  <2>9. rg_imm_buf_tail' = ImmAdvance(h, n2)
    <3> DEFINE c == Count(d0) + Count(d1)
    <3>1. c \in Nat /\ n + c = n2 /\ n + c <= IMM_BUF_SIZE
      BY <1>12, <2>3, <2>8
    <3> HIDE DEF c, n2
    <3>2. ImmAdvance(ImmAdvance(h, n), c) = ImmAdvance(h, n + c)
      BY <1>3, <2>3, <3>1, AdvanceTwice
    <3> QED
      BY <1>1, <2>2, <3>1, <3>2 DEF c
  <2>10. Queued(H, ag, bf, idx2, h, n) /\ idx2[x] = ImmAdvance(h, n)
    <3> HIDE DEF idx2
    <3> QED
      BY <1>3, <1>7, <1>10, <2>2, QueuedOrder
  <2>11. /\ H \in SUBSET Slot /\ x \notin H /\ y \notin H /\ bf \in [ImmIndex -> ImmEntry]
         /\ H1 \in SUBSET Slot /\ y \notin H1
         /\ \A j \in H : ~(ag[x] < ag[j])
         /\ \A j \in H1 : ~(ag[y] < ag[j])
    BY <1>2, <1>3, <1>7, <1>9
  <2> HIDE DEF H, bf, n1, idx2, b2, h, t
  <2>12. Queued(H1, ag, bf1, idx2, h, n1) /\ bf1 \in [ImmIndex -> ImmEntry]
    BY <1>2, <1>3, <1>5, <1>9, <1>10, <2>3, <2>8, <2>10, <2>11, Enter DEF n1
  <2> HIDE DEF H1, bf1
  <2>13. Queued(H2, ag, bf2, idx2, h, n2)
    BY <1>2, <1>3, <1>5, <1>9, <1>10, <2>6, <2>8, <2>11, <2>12, Enter
  <2> QED
    BY <1>1, <2>5, <2>7, <2>8, <2>9, <2>13 DEF InOrderOf, h
<1>15. AgeFrom(rg_erob_head)' = ag
  BY <1>1 DEF ag
<1> QED
  BY <1>1, <1>13, <1>14, <1>15 DEF ImmInv

-----------------------------------------------------------------------------
(***************************************************************************)
(* Commit.                                                                 *)
(***************************************************************************)

InvalidImm(e) == [e EXCEPT !.valid = FALSE]

(* buf2 is buf with the slots S invalidated.                               *)
Cleared(buf, buf2, S) ==
    \A k \in ImmIndex : buf2[k] = IF k \in S THEN InvalidImm(buf[k]) ELSE buf[k]

(* The oldest instruction x leaves a queue, with an immediate or without:  *)
(* the new buffer, its head and the number of its immediates.              *)
Leaves(H, ag, buf, idx, h, n, x, buf2, h2, n2) ==
    /\ H \in SUBSET Slot /\ buf \in [ImmIndex -> ImmEntry] /\ idx \in [Slot -> ImmIndex]
    /\ h \in ImmIndex /\ n \in 0 .. IMM_BUF_SIZE /\ Queued(H, ag, buf, idx, h, n)
    /\ x \in Slot /\ \A j \in H \ {x} : ag[x] < ag[j]
    /\ buf2 \in [ImmIndex -> ImmEntry]
    /\ Cleared(buf, buf2, IF x \in H THEN {idx[x]} ELSE {})
    /\ h2 = IF x \in H THEN ImmAdvance(h, 1) ELSE h
    /\ n2 = IF x \in H THEN n - 1 ELSE n

LEMMA Leave ==
  ASSUME NEW H, NEW ag, NEW buf, NEW idx, NEW h, NEW n, NEW x, NEW buf2, NEW h2, NEW n2,
         Leaves(H, ag, buf, idx, h, n, x, buf2, h2, n2)
  PROVE  /\ Queued(H \ {x}, ag, buf2, idx, h2, n2)
         /\ h2 \in ImmIndex /\ n2 \in 0 .. IMM_BUF_SIZE
         /\ ImmAdvance(h2, n2) = ImmAdvance(h, n)
<1> USE DEF Leaves
<1>1. CASE x \in H
  <2>1. idx[x] = h /\ n > 0
    BY <1>1, OldestAtHead
  <2>2. \A k \in ImmIndex : buf2[k] = IF k = idx[x] THEN [buf[k] EXCEPT !.valid = FALSE]
                                      ELSE buf[k]
    BY <1>1 DEF Cleared, InvalidImm
  <2>3. Queued(H \ {x}, ag, buf2, idx, ImmAdvance(h, 1), n - 1)
    BY <1>1, <2>2, Pop
  <2>4. ImmAdvance(h, 1) \in ImmIndex /\ n - 1 \in 0 .. IMM_BUF_SIZE /\ n - 1 \in Nat
    BY <2>1, ImmAdvanceIs, ImmAssumption
  <2>5. ImmAdvance(ImmAdvance(h, 1), n - 1) = ImmAdvance(h, n)
    <3> DEFINE m == n - 1
    <3>1. m \in Nat /\ 1 + m = n /\ 1 + m <= IMM_BUF_SIZE
      BY <2>4, ImmAssumption
    <3> HIDE DEF m
    <3>2. ImmAdvance(ImmAdvance(h, 1), m) = ImmAdvance(h, 1 + m)
      BY <3>1, AdvanceTwice
    <3> QED
      BY <3>1, <3>2 DEF m
  <2> QED
    BY <1>1, <2>3, <2>4, <2>5
<1>2. CASE x \notin H
  <2>1. H \ {x} = H
    BY <1>2
  <2>2. buf2 = buf
    BY <1>2 DEF Cleared
  <2> QED
    BY <1>2, <2>1, <2>2
<1> QED
  BY <1>1, <1>2

(* How many instructions leave with an immediate.                          *)
LEMMA HoldingSizes ==
  ASSUME NEW x, NEW y, x # y
  PROVE  /\ Cardinality({}) = 0 /\ Cardinality({x}) = 1 /\ Cardinality({y}) = 1
         /\ Cardinality({x, y}) = 2
<1>1. /\ Cardinality({}) = 0 /\ Cardinality({x}) = 1 /\ Cardinality({y}) = 1
      /\ IsFiniteSet({x})
  BY FS_EmptySet, FS_Singleton
<1>2. Cardinality({x} \cup {y}) = 2
  BY <1>1, FS_AddElement
<1>3. {x} \cup {y} = {x, y}
  OBVIOUS
<1> QED
  BY <1>1, <1>2, <1>3

(* What Reclaim frees, by places and in number.                            *)
Freed(s) == {imm_index[i] : i \in {j \in s : HasImm(entry_rob[j].inst)}}

LEMMA ReclaimIs ==
  ASSUME ImmType, NEW s, Reclaim(s)
  PROVE  /\ Cleared(imm_buf, imm_buf', Freed(s))
         /\ imm_buf' \in [ImmIndex -> ImmEntry]
         /\ rg_imm_buf_head' = ImmAdvance(rg_imm_buf_head,
                                 Cardinality({j \in s : HasImm(entry_rob[j].inst)}))
         /\ UNCHANGED <<rg_imm_buf_tail, imm_index, overrun>>
<1>1. imm_buf' = [k \in ImmIndex |-> IF k \in Freed(s) THEN InvalidImm(imm_buf[k])
                                     ELSE imm_buf[k]]
  BY DEF Reclaim, Freed, InvalidImm
<1>2. \A e \in ImmEntry : InvalidImm(e) \in ImmEntry
  BY DEF InvalidImm, ImmEntry
<1>3. imm_buf' \in [ImmIndex -> ImmEntry]
  BY <1>1, <1>2 DEF ImmType
<1>4. /\ rg_imm_buf_head' = ImmAdvance(rg_imm_buf_head,
                              Cardinality({j \in s : HasImm(entry_rob[j].inst)}))
      /\ UNCHANGED <<rg_imm_buf_tail, imm_index, overrun>>
  BY DEF Reclaim
<1> QED
  BY <1>1, <1>3, <1>4 DEF Cleared

LEMMA HasImmType ==
  ASSUME TypeOK, NEW i \in Slot PROVE HasImm(entry_rob[i].inst) \in BOOLEAN
  BY DEF HasImm

LEMMA ImmCommitOneKept ==
  ASSUME TypeOK, Window, ImmInv, ImmCommitOne
  PROVE  ImmInv'
<1> DEFINE h == rg_imm_buf_head
           t == rg_imm_buf_tail
           x == rg_erob_head
           ag == AgeFrom(x)
           ag2 == AgeFrom(Inc(x))
           p == HasImm(entry_rob[x].inst)
           H == Holders
           c == Cardinality({j \in {x} : HasImm(entry_rob[j].inst)})
<1>1. /\ ImmType /\ CommitOne /\ Reclaim({x}) /\ rg_erob_head' = Inc(x)
      /\ x \in Slot /\ Inc(x) \in Slot
  BY IncType DEF ImmCommitOne, ImmInv, CommitOne, Advance, TypeOK
<1>2. /\ Cleared(imm_buf, imm_buf', Freed({x}))
      /\ imm_buf' \in [ImmIndex -> ImmEntry]
      /\ rg_imm_buf_head' = ImmAdvance(h, c)
      /\ rg_imm_buf_tail' = t /\ imm_index' = imm_index /\ overrun' = overrun
  <2> DEFINE s == {x}
  <2>1. Reclaim(s)
    BY <1>1
  <2> HIDE DEF s
  <2>2. /\ Cleared(imm_buf, imm_buf', Freed(s))
        /\ imm_buf' \in [ImmIndex -> ImmEntry]
        /\ rg_imm_buf_head' = ImmAdvance(h,
                                Cardinality({j \in s : HasImm(entry_rob[j].inst)}))
        /\ UNCHANGED <<rg_imm_buf_tail, imm_index, overrun>>
    BY <1>1, <2>1, ReclaimIs
  <2> QED
    BY <2>2 DEF s
<1>3. /\ entry_rob[x].valid /\ ~entry_rob'[x].valid
      /\ \A i \in Slot \ {x} : entry_rob'[i] = entry_rob[i]
  BY <1>1, CommitOneRob DEF head_0
<1>4. /\ H \in SUBSET Slot /\ Holders' = H \ {x}
      /\ p <=> x \in H
  BY <1>1, <1>3 DEF Holders
<1>5. p \in BOOLEAN
  BY <1>1, HasImmType
<1>6. c = IF p THEN 1 ELSE 0
  <2> DEFINE s == {j \in {x} : HasImm(entry_rob[j].inst)}
  <2>1. s = IF p THEN {x} ELSE {}
    OBVIOUS
  <2>2. c = Cardinality(s)
    OBVIOUS
  <2>3. Cardinality({}) = 0 /\ Cardinality({x}) = 1
    BY FS_EmptySet, FS_Singleton
  <2> HIDE DEF p, c, x, s
  <2> QED
    BY <2>1, <2>2, <2>3
<1>7. Freed({x}) = IF p THEN {imm_index[x]} ELSE {}
  BY <1>5 DEF Freed
<1>8. /\ imm_buf \in [ImmIndex -> ImmEntry] /\ imm_index \in [Slot -> ImmIndex]
      /\ h \in ImmIndex /\ t \in ImmIndex /\ overrun \in BOOLEAN
  BY <1>1 DEF ImmType
<1>9. /\ \A j \in Slot \ {x} : ag2[j] + 1 = ag[j]
      /\ \A j \in Slot : ag[j] \in Nat /\ ag2[j] \in Nat
      /\ ag[x] = 0
  BY <1>1, AgeFunction, AgeNext
<1>10. \A j \in H \ {x} : ag[x] < ag[j]
  <2> HIDE DEF ag, ag2, H
  <2> QED
    BY <1>4, <1>9
<1>11. /\ ImmAdvance(h, 0) = h
       /\ rg_imm_buf_head' = IF p THEN ImmAdvance(h, 1) ELSE h
  <2>1. ImmAdvance(h, 0) = h
    BY <1>8, ImmAdvanceIs, ImmAssumption DEF ImmIndex
  <2> QED
    BY <1>2, <1>6, <2>1
<1>12. ImmType'
  <2>1. ImmAdvance(h, 1) \in ImmIndex
    BY <1>8, ImmAdvanceIs, ImmAssumption
  <2> QED
    BY <1>2, <1>8, <1>11, <2>1 DEF ImmType
<1> DEFINE b2 == imm_buf'
           bf == imm_buf
           ix == imm_index
           h2 == IF x \in H THEN ImmAdvance(h, 1) ELSE h
<1>13. ASSUME ~overrun
       PROVE  InOrderOf(H \ {x}, ag2, b2, ix, h2, t)
  <2>1. PICK n \in 0 .. IMM_BUF_SIZE : t = ImmAdvance(h, n) /\ Queued(H, ag, bf, ix, h, n)
    BY <1>13 DEF ImmInv, InOrderOf
  <2> DEFINE n2 == IF x \in H THEN n - 1 ELSE n
  <2>2. Leaves(H, ag, bf, ix, h, n, x, b2, h2, n2)
    <3>1. /\ bf \in [ImmIndex -> ImmEntry] /\ ix \in [Slot -> ImmIndex] /\ h \in ImmIndex
          /\ x \in Slot /\ H \in SUBSET Slot
      BY <1>1, <1>4, <1>8
    <3>2. b2 \in [ImmIndex -> ImmEntry]
      BY <1>2
    <3>3. Cleared(bf, b2, IF x \in H THEN {ix[x]} ELSE {})
      BY <1>2, <1>4, <1>7
    <3> HIDE DEF b2, bf, ix, H, ag, h, t, x
    <3> QED
      BY <1>10, <2>1, <3>1, <3>2, <3>3 DEF Leaves
  <2>3. b2 \in [ImmIndex -> ImmEntry] /\ H \in SUBSET Slot
    BY <1>2, <1>4
  <2> HIDE DEF b2, bf, ix, H, ag, ag2, h, t, x, h2, n2
  <2>4. /\ Queued(H \ {x}, ag, b2, ix, h2, n2)
        /\ n2 \in 0 .. IMM_BUF_SIZE
        /\ ImmAdvance(h2, n2) = ImmAdvance(h, n)
    BY <2>2, Leave
  <2>5. \A i, j \in H \ {x} : ag2[i] < ag2[j] => ag[i] < ag[j]
    <3>1. ASSUME NEW i \in Slot \ {x}, NEW j \in Slot \ {x}, ag2[i] < ag2[j]
          PROVE  ag[i] < ag[j]
      BY <1>9, <3>1
    <3> QED
      BY <2>3, <3>1
  <2>6. Queued(H \ {x}, ag2, b2, ix, h2, n2)
    <3> DEFINE K == H \ {x}
    <3>1. /\ K \in SUBSET Slot /\ Queued(K, ag, b2, ix, h2, n2)
          /\ \A i, j \in K : ag2[i] < ag2[j] => ag[i] < ag[j]
      BY <2>3, <2>4, <2>5
    <3> HIDE DEF K
    <3>2. Queued(K, ag2, b2, ix, h2, n2)
      BY <2>3, <3>1, QueuedOrder
    <3> QED
      BY <3>2 DEF K
  <2> QED
    BY <2>1, <2>4, <2>6 DEF InOrderOf
<1>14. AgeFrom(rg_erob_head)' = ag2
  BY <1>1
<1>15. rg_imm_buf_head' = h2
  BY <1>4, <1>11
<1> QED
  BY <1>2, <1>4, <1>12, <1>13, <1>14, <1>15 DEF ImmInv

LEMMA ImmCommitTwoKept ==
  ASSUME TypeOK, Window, ImmInv, ImmCommitTwo
  PROVE  ImmInv'
<1> DEFINE h == rg_imm_buf_head
           t == rg_imm_buf_tail
           x == rg_erob_head
           y == Inc(rg_erob_head)
           ag == AgeFrom(x)
           ag1 == AgeFrom(y)
           ag2 == AgeFrom(Inc(y))
           p == HasImm(entry_rob[x].inst)
           q == HasImm(entry_rob[y].inst)
           H == Holders
           c == Cardinality({j \in {x, y} : HasImm(entry_rob[j].inst)})
<1>1. /\ ImmType /\ CommitTwo /\ Reclaim({x, y}) /\ rg_erob_head' = Inc(y)
      /\ x \in Slot /\ y \in Slot /\ Inc(y) \in Slot
  BY IncType DEF ImmCommitTwo, ImmInv, CommitTwo, Advance, TypeOK
<1>2. /\ Cleared(imm_buf, imm_buf', Freed({x, y}))
      /\ imm_buf' \in [ImmIndex -> ImmEntry]
      /\ rg_imm_buf_head' = ImmAdvance(h, c)
      /\ rg_imm_buf_tail' = t /\ imm_index' = imm_index /\ overrun' = overrun
  <2> DEFINE s == {x, y}
  <2>1. Reclaim(s)
    BY <1>1
  <2> HIDE DEF s
  <2>2. /\ Cleared(imm_buf, imm_buf', Freed(s))
        /\ imm_buf' \in [ImmIndex -> ImmEntry]
        /\ rg_imm_buf_head' = ImmAdvance(h,
                                Cardinality({j \in s : HasImm(entry_rob[j].inst)}))
        /\ UNCHANGED <<rg_imm_buf_tail, imm_index, overrun>>
    BY <1>1, <2>1, ReclaimIs
  <2> QED
    BY <2>2 DEF s
<1>3. /\ entry_rob[x].valid /\ ~entry_rob'[x].valid
      /\ entry_rob[y].valid /\ ~entry_rob'[y].valid
      /\ \A i \in Slot \ {x, y} : entry_rob'[i] = entry_rob[i]
  BY <1>1, CommitTwoRob DEF head_0, head_1
<1>4. /\ H \in SUBSET Slot /\ Holders' = (H \ {x}) \ {y}
      /\ p <=> x \in H
      /\ q <=> y \in H
  BY <1>1, <1>3 DEF Holders
<1>5. p \in BOOLEAN /\ q \in BOOLEAN
  BY <1>1, HasImmType
<1>6. x # y
  BY <1>1, SizeAssumption DEF Inc, Slot
<1>7. c = (IF p THEN 1 ELSE 0) + (IF q THEN 1 ELSE 0)
  <2> DEFINE s == {j \in {x, y} : HasImm(entry_rob[j].inst)}
  <2>1. s = {j \in {x, y} : IF j = x THEN p ELSE q}
    BY <1>6
  <2>2. s = IF p THEN IF q THEN {x, y} ELSE {x} ELSE IF q THEN {y} ELSE {}
    <3> HIDE DEF p, q, x, y, s
    <3> QED
      BY <1>6, <2>1
  <2>3. c = Cardinality(s)
    OBVIOUS
  <2> HIDE DEF p, q, c, x, y, s
  <2>4. /\ Cardinality({}) = 0 /\ Cardinality({x}) = 1 /\ Cardinality({y}) = 1
        /\ Cardinality({x, y}) = 2
    BY <1>6, HoldingSizes
  <2> QED
    BY <2>2, <2>3, <2>4
<1>8. Freed({x, y}) = (IF p THEN {imm_index[x]} ELSE {}) \cup (IF q THEN {imm_index[y]} ELSE {})
  BY <1>5 DEF Freed
<1>9. /\ imm_buf \in [ImmIndex -> ImmEntry] /\ imm_index \in [Slot -> ImmIndex]
      /\ h \in ImmIndex /\ t \in ImmIndex /\ overrun \in BOOLEAN
  BY <1>1 DEF ImmType
<1>10. /\ \A j \in Slot \ {x} : ag1[j] + 1 = ag[j]
       /\ \A j \in Slot \ {y} : ag2[j] + 1 = ag1[j]
       /\ \A j \in Slot : ag[j] \in Nat /\ ag1[j] \in Nat /\ ag2[j] \in Nat
       /\ ag[x] = 0 /\ ag1[y] = 0
  BY <1>1, AgeFunction, AgeNext
<1> DEFINE bf == imm_buf
           ix == imm_index
           b1 == [k \in ImmIndex |-> IF x \in H /\ k = ix[x] THEN InvalidImm(bf[k]) ELSE bf[k]]
           b2 == imm_buf'
           h1 == IF x \in H THEN ImmAdvance(h, 1) ELSE h
           K == H \ {x}
           h2 == IF y \in K THEN ImmAdvance(h1, 1) ELSE h1
<1>11. h1 \in ImmIndex /\ h2 \in ImmIndex /\ rg_imm_buf_head' = h2
  <2>1. /\ ImmAdvance(h, 0) = h /\ ImmAdvance(h, 1) \in ImmIndex
        /\ ImmAdvance(ImmAdvance(h, 1), 1) = ImmAdvance(h, 2)
        /\ ImmAdvance(h, 2) \in ImmIndex
    <3>1. ImmAdvance(h, 0) = h /\ ImmAdvance(h, 1) \in ImmIndex /\ ImmAdvance(h, 2) \in ImmIndex
      BY <1>9, ImmAdvanceIs, ImmAssumption DEF ImmIndex
    <3>2. ImmAdvance(ImmAdvance(h, 1), 1) = ImmAdvance(h, 1 + 1)
      BY <1>9, AdvanceTwice, ImmAssumption
    <3> QED
      BY <3>1, <3>2
  <2>2. y \in K <=> q
    BY <1>4, <1>6
  <2>3. x \in H <=> p
    BY <1>4
  <2>4. rg_imm_buf_head' = ImmAdvance(h, c)
    BY <1>2
  <2>5. h \in ImmIndex
    BY <1>9
  <2> HIDE DEF c, p, q, x, y, H, K, h
  <2>6. c = IF p THEN IF q THEN 2 ELSE 1 ELSE IF q THEN 1 ELSE 0
    BY <1>7
  <2> QED
    BY <2>1, <2>2, <2>3, <2>4, <2>5, <2>6
<1>12. ImmType'
  BY <1>2, <1>9, <1>11 DEF ImmType
<1>13. ASSUME ~overrun
       PROVE  InOrderOf(K \ {y}, ag2, b2, ix, h2, t)
  <2>1. PICK n \in 0 .. IMM_BUF_SIZE : t = ImmAdvance(h, n) /\ Queued(H, ag, bf, ix, h, n)
    BY <1>13 DEF ImmInv, InOrderOf
  <2> DEFINE n1 == IF x \in H THEN n - 1 ELSE n
             n2 == IF y \in K THEN n1 - 1 ELSE n1
  <2>2. /\ bf \in [ImmIndex -> ImmEntry] /\ ix \in [Slot -> ImmIndex] /\ h \in ImmIndex
        /\ x \in Slot /\ y \in Slot /\ H \in SUBSET Slot /\ K \in SUBSET Slot
        /\ b2 \in [ImmIndex -> ImmEntry]
    BY <1>1, <1>2, <1>4, <1>9
  <2>3. b1 \in [ImmIndex -> ImmEntry]
    <3>1. \A e \in ImmEntry : InvalidImm(e) \in ImmEntry
      BY DEF InvalidImm, ImmEntry
    <3> HIDE DEF bf, ix, H, x
    <3> QED
      BY <2>2, <3>1
  <2>4. Cleared(bf, b1, IF x \in H THEN {ix[x]} ELSE {})
    BY DEF Cleared
  <2>5. x \in H /\ y \in K => ix[x] # ix[y]
    <3>1. \A i \in H : bf[ix[i]] = Fill(i)
      BY <2>1 DEF Queued
    <3>2. Fill(x).imm = x /\ Fill(y).imm = y
      BY DEF Fill
    <3> QED
      BY <1>6, <3>1, <3>2
  <2>6. Cleared(b1, b2, IF y \in K THEN {ix[y]} ELSE {})
    <3>1. y \in K <=> q
      BY <1>4, <1>6
    <3>2. Cleared(bf, b2, (IF x \in H THEN {ix[x]} ELSE {}) \cup (IF y \in K THEN {ix[y]} ELSE {}))
      BY <1>2, <1>4, <1>8, <3>1
    <3>3. \A k \in ImmIndex : b1[k] = IF x \in H /\ k = ix[x] THEN InvalidImm(bf[k]) ELSE bf[k]
      OBVIOUS
    <3> HIDE DEF b1, b2, bf, ix, H, K, x, y
    <3> QED
      BY <2>5, <3>2, <3>3 DEF Cleared
  <2>7. \A j \in H \ {x} : ag[x] < ag[j]
    <3> HIDE DEF ag, H, ag1, ag2
    <3> QED
      BY <1>10, <2>2
  <2>8. \A j \in K \ {y} : ag1[y] < ag1[j]
    <3> HIDE DEF ag1, ag2, K, y, ag
    <3> QED
      BY <1>10, <2>2
  <2> HIDE DEF b1, b2, bf, ix, H, ag, ag1, ag2, h, t, x, y
  <2>9. Leaves(H, ag, bf, ix, h, n, x, b1, h1, n1)
    BY <2>1, <2>2, <2>3, <2>4, <2>7 DEF Leaves
  <2> HIDE DEF h1, n1
  <2>10. /\ Queued(K, ag, b1, ix, h1, n1)
         /\ h1 \in ImmIndex /\ n1 \in 0 .. IMM_BUF_SIZE
         /\ ImmAdvance(h1, n1) = ImmAdvance(h, n)
    BY <2>9, Leave
  <2>11. ASSUME NEW i \in Slot \ {x}, NEW j \in Slot \ {x}, ag1[i] < ag1[j]
         PROVE  ag[i] < ag[j]
    BY <1>10, <2>11
  <2>12. \A i, j \in K : ag1[i] < ag1[j] => ag[i] < ag[j]
    BY <2>2, <2>11
  <2>13. x \notin K
    OBVIOUS
  <2> HIDE DEF K
  <2>14. Queued(K, ag1, b1, ix, h1, n1)
    BY <2>2, <2>3, <2>10, <2>12, QueuedOrder
  <2>15. Leaves(K, ag1, b1, ix, h1, n1, y, b2, h2, n2)
    BY <2>2, <2>3, <2>6, <2>8, <2>10, <2>14 DEF Leaves
  <2> HIDE DEF h2, n2
  <2>16. /\ Queued(K \ {y}, ag1, b2, ix, h2, n2)
         /\ n2 \in 0 .. IMM_BUF_SIZE
         /\ ImmAdvance(h2, n2) = ImmAdvance(h1, n1)
    BY <2>15, Leave
  <2>17. ASSUME NEW i \in Slot \ {y}, NEW j \in Slot \ {y}, ag2[i] < ag2[j]
         PROVE  ag1[i] < ag1[j]
    BY <1>10, <2>17
  <2> DEFINE L == K \ {y}
  <2>18. /\ L \in SUBSET Slot /\ Queued(L, ag1, b2, ix, h2, n2)
         /\ \A i, j \in L : ag2[i] < ag2[j] => ag1[i] < ag1[j]
    BY <2>2, <2>16, <2>17
  <2> HIDE DEF L
  <2>19. Queued(L, ag2, b2, ix, h2, n2)
    BY <2>2, <2>18, QueuedOrder
  <2>20. t = ImmAdvance(h2, n2)
    BY <2>1, <2>10, <2>16
  <2> QED
    BY <2>16, <2>19, <2>20 DEF InOrderOf, L
<1>14. AgeFrom(rg_erob_head)' = ag2
  BY <1>1
<1> QED
  BY <1>2, <1>4, <1>11, <1>12, <1>13, <1>14 DEF ImmInv

-----------------------------------------------------------------------------
(***************************************************************************)
(* The other steps.                                                        *)
(***************************************************************************)

(* No instruction in flight, no immediate.                                 *)
LEMMA NothingQueued ==
  ASSUME NEW ag, NEW buf, \A k \in ImmIndex : ~buf[k].valid, NEW idx
  PROVE  InOrderOf({}, ag, buf, idx, 0, 0)
<1>1. 0 \in 0 .. IMM_BUF_SIZE /\ 0 \in ImmIndex
  BY ImmAssumption DEF ImmIndex
<1>2. 0 = ImmAdvance(0, 0)
  BY <1>1, ImmAdvanceIs, ImmAssumption
<1>3. \A k \in ImmIndex : Ahead(0, k) \in 0 .. IMM_BUF_SIZE - 1
  BY <1>1, AheadType
<1>4. \A k \in ImmIndex : ~(Ahead(0, k) < 0)
  BY <1>3
<1>5. Queued({}, ag, buf, idx, 0, 0)
  BY <1>4 DEF Queued
<1> QED
  BY <1>1, <1>2, <1>5 DEF InOrderOf

LEMMA ImmRevertMapKept ==
  ASSUME TypeOK, ImmInv, ImmRevertMap
  PROVE  ImmInv'
<1>1. ImmType /\ RevertMap
  BY DEF ImmInv, ImmRevertMap
<1>2. Holders' = {}
  BY <1>1, RevertMapRob DEF Holders
<1>3. /\ imm_buf' \in [ImmIndex -> ImmEntry]
      /\ \A k \in ImmIndex : ~imm_buf'[k].valid
  <2>1. \A e \in ImmEntry : /\ [e EXCEPT !.valid = FALSE] \in ImmEntry
                            /\ ~[e EXCEPT !.valid = FALSE].valid
    BY DEF ImmEntry
  <2>2. imm_buf \in [ImmIndex -> ImmEntry]
    BY <1>1 DEF ImmType
  <2>3. imm_buf' = [k \in ImmIndex |-> [imm_buf[k] EXCEPT !.valid = FALSE]]
    BY DEF ImmRevertMap
  <2> QED
    BY <2>1, <2>2, <2>3
<1>4. /\ rg_imm_buf_head' = 0 /\ rg_imm_buf_tail' = 0 /\ overrun' = FALSE
      /\ imm_index' = imm_index
  BY DEF ImmRevertMap
<1>5. ImmType'
  <2>1. 0 \in ImmIndex
    BY ImmAssumption DEF ImmIndex
  <2> QED
    BY <1>1, <1>3, <1>4, <2>1 DEF ImmType
<1> DEFINE ag == AgeFrom(rg_erob_head)'
           b2 == imm_buf'
           ix == imm_index'
<1>6. InOrderOf({}, ag, b2, ix, 0, 0)
  <2> HIDE DEF ag, ix
  <2>1. \A k \in ImmIndex : ~b2[k].valid
    BY <1>3
  <2> HIDE DEF b2
  <2> QED
    BY <2>1, NothingQueued
<1> QED
  BY <1>2, <1>4, <1>5, <1>6 DEF ImmInv

(* Results and CSR accesses leave the buffer alone.                        *)
LEMMA ImmOthersKept ==
  ASSUME TypeOK, ImmInv, WriteBack \/ UNCHANGED vars, UNCHANGED immvars
  PROVE  ImmInv'
<1>1. rg_erob_head' = rg_erob_head /\ Holders' = Holders
  <2>1. CASE WriteBack
    BY <2>1, WriteBackKeeps DEF Holders
  <2>2. CASE UNCHANGED vars
    BY <2>2 DEF vars, Holders
  <2> QED
    BY <2>1, <2>2
<1>2. AgeFrom(rg_erob_head)' = AgeFrom(rg_erob_head)
  BY <1>1
<1> QED
  BY <1>1, <1>2 DEF ImmInv, ImmType, immvars

LEMMA ImmInvInductive ==
  TypeOK /\ Window /\ ImmInv /\ [ImmNext]_<<vars, immvars>> => ImmInv'
<1> SUFFICES ASSUME TypeOK, Window, ImmInv, [ImmNext]_<<vars, immvars>> PROVE ImmInv'
  OBVIOUS
<1>1. ASSUME NEW i \in Slot, ImmExecute(i) \/ ImmExecuteLoad(i) PROVE ImmInv'
  BY <1>1, ImmOthersKept DEF ImmExecute, ImmExecuteLoad, WriteBack
<1>2. CASE ImmCsr
  BY <1>2, ImmOthersKept DEF ImmCsr, WriteBack
<1>3. CASE UNCHANGED <<vars, immvars>>
  BY <1>3, ImmOthersKept
<1> QED
  BY <1>1, <1>2, <1>3, ImmMapOneKept, ImmMapTwoKept, ImmCommitOneKept, ImmCommitTwoKept,
     ImmRevertMapKept DEF ImmNext

LEMMA ImmInvInit == ImmInit => ImmInv
<1> SUFFICES ASSUME ImmInit PROVE ImmInv
  OBVIOUS
<1>1. /\ imm_buf = [i \in ImmIndex |-> [valid |-> FALSE, imm |-> 0]]
      /\ rg_imm_buf_head = 0 /\ rg_imm_buf_tail = 0
      /\ imm_index = [i \in Slot |-> 0] /\ overrun = FALSE
  BY DEF ImmInit
<1>2. ImmType
  <2>1. 0 \in ImmIndex /\ 0 \in Slot
    BY ImmAssumption, SizeAssumption DEF ImmIndex, Slot
  <2>2. [valid |-> FALSE, imm |-> 0] \in ImmEntry
    BY <2>1 DEF ImmEntry
  <2> QED
    BY <1>1, <2>1, <2>2 DEF ImmType
<1>3. Holders = {}
  BY DEF ImmInit, Init, Holders
<1> DEFINE ag == AgeFrom(rg_erob_head)
<1>4. InOrderOf({}, ag, imm_buf, imm_index, 0, 0)
  <2>1. \A k \in ImmIndex : ~imm_buf[k].valid
    BY <1>1
  <2> HIDE DEF ag
  <2> QED
    BY <2>1, NothingQueued
<1> QED
  BY <1>1, <1>2, <1>3, <1>4 DEF ImmInv

(* The buffer only adds to Rename.                                         *)
LEMMA ImmStep == [ImmNext]_<<vars, immvars>> => [Next]_vars
  BY DEF ImmNext, ImmMapOne, ImmMapTwo, ImmExecute, ImmExecuteLoad, ImmCommitOne,
         ImmCommitTwo, ImmCsr, ImmRevertMap, Next

LEMMA ImmSpecRename == ImmSpec => Spec
<1>1. ImmInit => Init
  BY DEF ImmInit
<1> QED
  BY <1>1, ImmStep, PTL DEF ImmSpec, Spec

(* As many slots of the buffer are valid as instructions wait for one.     *)
LEMMA QueuedCount ==
  ASSUME NEW H \in SUBSET Slot, NEW ag, NEW buf, NEW idx \in [Slot -> ImmIndex], NEW h, NEW n,
         Queued(H, ag, buf, idx, h, n)
  PROVE  Cardinality({k \in ImmIndex : buf[k].valid}) = Cardinality(H)
<1> DEFINE V == {k \in ImmIndex : buf[k].valid}
           f == [i \in H |-> idx[i]]
<1>1. IsFiniteSet(H)
  <2>1. IsFiniteSet(Slot)
    BY FS_Interval, SizeAssumption DEF Slot
  <2> QED
    BY <2>1, FS_Subset
<1>2. \A i \in H : Fill(i).valid /\ Fill(i).imm = i
  BY DEF Fill
<1>3. \A i \in H : buf[idx[i]] = Fill(i) /\ idx[i] \in ImmIndex
  BY DEF Queued
<1>4. f \in [H -> V]
  BY <1>2, <1>3
<1>5. \A i, j \in H : f[i] = f[j] => i = j
  BY <1>2, <1>3
<1>6. \A k \in V : \E i \in H : f[i] = k
  BY DEF Queued
<1>7. f \in Bijection(H, V)
  <2> HIDE DEF f, V
  <2> QED
    BY <1>4, <1>5, <1>6 DEF Bijection, Injection, Surjection, IsInjective
<1>8. ExistsBijection(H, V)
  BY <1>7 DEF ExistsBijection
<1> HIDE DEF V, f
<1>9. Cardinality(V) = Cardinality(H)
  BY <1>1, <1>8, FS_Bijection
<1> QED
  BY <1>9 DEF V

LEMMA ImmInvMeaning == TypeOK /\ ImmInv => ImmediatesKept
<1> SUFFICES ASSUME TypeOK, ImmInv, ~overrun PROVE
       /\ \A i \in Holders : imm_buf[imm_index[i]] = Fill(i)
       /\ Cardinality({k \in ImmIndex : imm_buf[k].valid}) = Cardinality(Holders)
       /\ \A i \in Holders : (\A j \in Holders : Age(i) <= Age(j)) =>
                                imm_index[i] = rg_imm_buf_head
  BY DEF ImmediatesKept
<1> DEFINE H == Holders
           ag == AgeFrom(rg_erob_head)
           h == rg_imm_buf_head
<1>1. H \in SUBSET Slot
  BY DEF Holders
<1>2. /\ imm_buf \in [ImmIndex -> ImmEntry] /\ imm_index \in [Slot -> ImmIndex]
      /\ h \in ImmIndex
  BY DEF ImmInv, ImmType
<1>3. PICK n \in 0 .. IMM_BUF_SIZE : Queued(H, ag, imm_buf, imm_index, h, n)
  BY DEF ImmInv, InOrderOf
<1>4. \A i \in H : imm_buf[imm_index[i]] = Fill(i)
  BY <1>3 DEF Queued
<1>5. Cardinality({k \in ImmIndex : imm_buf[k].valid}) = Cardinality(H)
  <2> HIDE DEF H, ag, h
  <2> QED
    BY <1>1, <1>2, <1>3, QueuedCount
<1>6. ASSUME NEW i \in H, \A j \in H : Age(i) <= Age(j)
      PROVE  imm_index[i] = h
  <2>1. rg_erob_head \in Slot
    BY DEF TypeOK
  <2>2. \A j \in Slot : ag[j] = Age(j) /\ ag[j] \in Nat
    BY <2>1, AgeFunction DEF AgeFrom, Age
  <2>3. \A j, k \in Slot : Age(j) = Age(k) => j = k
    BY <2>1, SizeAssumption DEF Age, Slot
  <2>4. \A j \in H \ {i} : ag[i] < ag[j]
    <3> HIDE DEF H, ag
    <3> QED
      BY <1>1, <1>6, <2>2, <2>3
  <2> HIDE DEF H, ag, h
  <2> QED
    BY <1>1, <1>2, <1>3, <2>4, OldestAtHead
<1> QED
  BY <1>4, <1>5, <1>6

(* An instruction finds its own immediate until it leaves, the slots are   *)
(* given back at commit, neither sooner nor later, and the head is at the  *)
(* oldest, for every size of the ROB and of the buffer, until a System     *)
(* instruction, for which map_and_rename asks no room, is put into a full  *)
(* one (imm_buf of IQ.bsv, map_and_rename, rl_commit, rl_revert_map).      *)
THEOREM ImmediatesKeptHolds == ImmSpec => []ImmediatesKept
<1>1. Spec => []TypeOK
  BY TypeCorrect
<1> QED
  BY <1>1, WindowHolds, ImmSpecRename, ImmInvInit, ImmInvInductive, ImmInvMeaning, PTL
     DEF ImmSpec

=============================================================================
