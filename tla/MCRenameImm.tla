---------------------------- MODULE MCRenameImm ----------------------------
(* A small instance of RenameImm: multiplications have no immediate, loads    *)
(* have one, System instructions take a slot without asking.                  *)
EXTENDS MCRename, RenameImm

ImmKinds == SystemKinds \cup {Inst("LD", 1, 1, 0), FetchFault}

(* What is kept of the buffer: the immediates in use, and nothing once it     *)
(* has overrun, since no step of Rename depends on them.                      *)
ImmLiveState ==
    <<LiveState, overrun,
      IF overrun THEN <<>>
      ELSE <<rg_imm_buf_head, rg_imm_buf_tail,
             [k \in ImmIndex |-> IF imm_buf[k].valid THEN imm_buf[k].imm ELSE -1],
             [i \in Slot |-> IF i \in Holders THEN imm_index[i] ELSE 0]>>>>
=============================================================================
