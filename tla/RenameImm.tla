------------------------------ MODULE RenameImm ------------------------------
(***************************************************************************)
(* Rename together with the immediate buffer (imm_buf of IQ.bsv).  An      *)
(* immediate does not fit into a ROB entry; dispatch puts it into a        *)
(* circular buffer half as long as the ROB, the entry keeps its index, the *)
(* functional units read it there, and commit gives the slot back.         *)
(*                                                                         *)
(* An immediate is named by the ROB slot of the instruction it belongs to. *)
(***************************************************************************)
EXTENDS Rename, FiniteSets

CONSTANT IMM_BUF_SIZE    \* 8, for 16 ROB entries

ASSUME ImmAssumption == IMM_BUF_SIZE \in Nat \ {0, 1}

ImmIndex == 0 .. IMM_BUF_SIZE - 1

VARIABLES
    imm_buf,             \* [valid, imm]
    rg_imm_buf_head,
    rg_imm_buf_tail,
    imm_index,           \* field of the same name of each entry_rob
    overrun              \* since the last flush a full buffer was filled: history

immvars == <<imm_buf, rg_imm_buf_head, rg_imm_buf_tail, imm_index, overrun>>

ImmAdvance(i, n) == (i + n) % IMM_BUF_SIZE

ImmInit ==
    /\ Init
    /\ imm_buf = [i \in ImmIndex |-> [valid |-> FALSE, imm |-> 0]]
    /\ rg_imm_buf_head = 0 /\ rg_imm_buf_tail = 0
    /\ imm_index = [i \in Slot |-> 0]
    /\ overrun = FALSE

(* Immediates, and the CSR address of a System instruction.                *)
HasImm(d) == d.imm_valid \/ isSystem(d)
Count(d) == IF HasImm(d) THEN 1 ELSE 0

(* Defective variant of if_imm_buf_full: one free slot counts as room.     *)
if_imm_buf_full_Last ==
    rg_imm_buf_head = rg_imm_buf_tail /\ imm_buf[rg_imm_buf_head].valid

if_imm_buf_full ==
    \/ rg_imm_buf_head = rg_imm_buf_tail /\ imm_buf[rg_imm_buf_head].valid
    \/ ImmAdvance(rg_imm_buf_tail, 1) = rg_imm_buf_head

(* The test is made for instructions with imm_valid, not for the other     *)
(* System instructions, which take a slot as well.  The place of a missing *)
(* second instruction, which may hold dispatch back too, is not looked at. *)
ImmRoom(ds) ==
    /\ (\E d \in ds : d.imm_valid) => ~if_imm_buf_full
    /\ overrun' = (overrun \/ ((\E d \in ds : HasImm(d)) /\ if_imm_buf_full))

Fill(i) == [valid |-> TRUE, imm |-> i]

ImmMapOne(d) ==
    /\ MapOne(d) /\ ImmRoom({d})
    /\ imm_buf' = IF HasImm(d) THEN [imm_buf EXCEPT ![rg_imm_buf_tail] = Fill(rg_erob_tail)]
                               ELSE imm_buf
    /\ imm_index' = [imm_index EXCEPT ![rg_erob_tail] = rg_imm_buf_tail]
    /\ rg_imm_buf_tail' = ImmAdvance(rg_imm_buf_tail, Count(d))
    /\ UNCHANGED rg_imm_buf_head

(* The second instruction takes the slot at the tail when the first has no *)
(* immediate and the next one otherwise.                                   *)
ImmMapTwo(d0, d1) ==
    LET i0 == rg_erob_tail
        i1 == Inc(rg_erob_tail)
        next == ImmAdvance(rg_imm_buf_tail, 1)
    IN  /\ MapTwo(d0, d1) /\ ImmRoom({d0, d1})
        /\ imm_buf' = CASE HasImm(d0) /\ HasImm(d1) ->
                             [imm_buf EXCEPT ![rg_imm_buf_tail] = Fill(i0), ![next] = Fill(i1)]
                        [] HasImm(d0) /\ ~HasImm(d1) ->
                             [imm_buf EXCEPT ![rg_imm_buf_tail] = Fill(i0)]
                        [] ~HasImm(d0) /\ HasImm(d1) ->
                             [imm_buf EXCEPT ![rg_imm_buf_tail] = Fill(i1)]
                        [] OTHER -> imm_buf
        /\ imm_index' = [imm_index EXCEPT
                           ![i0] = rg_imm_buf_tail,
                           ![i1] = IF ~HasImm(d0) /\ HasImm(d1) THEN rg_imm_buf_tail ELSE next]
        /\ rg_imm_buf_tail' = ImmAdvance(rg_imm_buf_tail, Count(d0) + Count(d1))
        /\ UNCHANGED rg_imm_buf_head

(* The entries in ROB slots s leave: their immediates are invalidated, and *)
(* the head moves on by as many.                                           *)
Reclaim(s) ==
    LET freed == {imm_index[i] : i \in {j \in s : HasImm(entry_rob[j].inst)}}
    IN  /\ imm_buf' = [k \in ImmIndex |->
                         IF k \in freed THEN [imm_buf[k] EXCEPT !.valid = FALSE]
                                        ELSE imm_buf[k]]
        /\ rg_imm_buf_head' =
             ImmAdvance(rg_imm_buf_head, Cardinality({j \in s : HasImm(entry_rob[j].inst)}))
        /\ UNCHANGED <<rg_imm_buf_tail, imm_index, overrun>>

ImmCommitOne == CommitOne /\ Reclaim({rg_erob_head})
ImmCommitTwo == CommitTwo /\ Reclaim({rg_erob_head, Inc(rg_erob_head)})

ImmRevertMap ==
    /\ RevertMap
    /\ imm_buf' = [k \in ImmIndex |-> [imm_buf[k] EXCEPT !.valid = FALSE]]
    /\ rg_imm_buf_head' = 0 /\ rg_imm_buf_tail' = 0
    /\ overrun' = FALSE
    /\ UNCHANGED imm_index

ImmExecute(i) == Execute(i) /\ UNCHANGED immvars
ImmExecuteLoad(i) == ExecuteLoad(i) /\ UNCHANGED immvars
ImmCsr == (CsrResult \/ CsrRedirect) /\ UNCHANGED immvars

ImmNext ==
    \/ \E d \in Decoded : ImmMapOne(d)
    \/ \E d0, d1 \in Decoded : ImmMapTwo(d0, d1)
    \/ \E i \in Slot : ImmExecute(i) \/ ImmExecuteLoad(i)
    \/ ImmCommitOne
    \/ ImmCommitTwo
    \/ ImmCsr
    \/ ImmRevertMap

ImmSpec == ImmInit /\ [][ImmNext]_<<vars, immvars>>

-----------------------------------------------------------------------------
Holders == {i \in Slot : entry_rob[i].valid /\ HasImm(entry_rob[i].inst)}

(* An instruction in flight finds its own immediate where its entry says,  *)
(* until it leaves; "an entry is reclaimed at the time of commit"          *)
(* (IQ.bsv:178), neither sooner nor later; and the head, which every flush *)
(* and every pair leaving must keep in step, is at the oldest of them.     *)
(* This holds until a System instruction for which no room was asked is    *)
(* put into a full buffer.                                                 *)
ImmediatesKept ==
    ~overrun =>
      /\ \A i \in Holders : imm_buf[imm_index[i]] = Fill(i)
      /\ Cardinality({k \in ImmIndex : imm_buf[k].valid}) = Cardinality(Holders)
      /\ \A i \in Holders : (\A j \in Holders : Age(i) <= Age(j)) =>
                               imm_index[i] = rg_imm_buf_head
=============================================================================
