----------------------------- MODULE RenameISA ------------------------------
(***************************************************************************)
(* Rename implements ISA: the registers seen through the retirement map    *)
(* and the instructions between ROB head and tail form the in-order state. *)
(***************************************************************************)
EXTENDS Rename

SlotAt(k) == IF rg_erob_head + k < ENTRY_ROB_SIZE
             THEN rg_erob_head + k
             ELSE rg_erob_head + k - ENTRY_ROB_SIZE

ArchRegs == [r \in Arch |-> regFile[rRAM[r]]]

(* From the commit that raises a flush on, nothing is in flight any more.  *)
ArchWindow ==
    IF rg_revert_map THEN <<>>
    ELSE [k \in 1 .. InFlight |-> entry_rob[SlotAt(k - 1)].inst]

InOrder == INSTANCE ISA WITH regs <- ArchRegs, window <- ArchWindow

(* Whatever the order of execution, the retired registers always hold what *)
(* executing the accepted instructions one after the other gives; a load   *)
(* replay or a branch flush loses or repeats no effect.                    *)
ImplementsISA == InOrder!Spec
=============================================================================
