------------------------------ MODULE MCLSUnit ------------------------------
(***************************************************************************)
(* Small instances of LSUnit for TLC: one double word of two cells, with   *)
(* an access to the low cell and one to both.                              *)
(***************************************************************************)
EXTENDS LSUnit

TwoCells == {0, 1}
CellsOf(l) == IF l = "low" THEN {0} ELSE {0, 1}
OneDword(l) == 0

Packet(r0, r1) == [req |-> <<r0, r1>>, valid1 |-> TRUE]

AllPackets == {Packet(r0, r1) : r0 \in {"LD", "STR"}, r1 \in {"LD", "STR"}}
                \cup {Packet("STR", "NOP"), Packet("LD", "NOP")}

(* Without the packets whose second instruction does not depend on the     *)
(* first: they have the effect of two packets of one.                      *)
StorePackets == AllPackets \ {Packet("LD", "LD"), Packet("LD", "STR")}

(* States are the same when they differ only in queue entries that are not *)
(* filled, whose fields are written at allotment before they are read, in  *)
(* a mask that ff_load has a copy of or no longer needs, or by a rotation  *)
(* of the load queue or of the ROB, of which only distances from the head  *)
(* matter.  The store queue is not rotated: the CAM prefers high indices.  *)
FromHead(i)  == (i - rg_load_q_head + MEMQ_SIZE) % MEMQ_SIZE
TagAge(t)    == (t - rg_erob_head + ENTRY_ROB_SIZE) % ENTRY_ROB_SIZE
Untagged(ff) == [i \in DOMAIN ff |-> [ff[i] EXCEPT !.tag = TagAge(@)]]
Requests(ff) == [i \in DOMAIN ff |-> IF ff[i].ld_st = "Load" THEN Untagged(ff)[i] ELSE ff[i]]

LiveState ==
    <<[k \in DOMAIN rob |-> IF rob[k].mem_type = "LD"
                            THEN [rob[k] EXCEPT !.index = FromHead(@)] ELSE rob[k]],
      rg_store_q_head, rg_store_q_tail, FromHead(rg_load_q_tail),
      [i \in MemQ |-> IF store_q[i].filled THEN <<store_q[i]>> ELSE <<>>],
      [i \in MemQ |-> LET ld == load_q[(rg_load_q_head + i) % MEMQ_SIZE]
                      IN  IF ~ld.filled THEN <<>>
                          ELSE IF ld.valid THEN <<[ld EXCEPT !.store_mask = {}]>>
                          ELSE <<ld.store_mask>>],
      [i \in DOMAIN ff_load |-> [Untagged(ff_load)[i] EXCEPT !.index = FromHead(@)]],
      Requests(ff_request), Untagged(ff_load_result), Requests(dcache),
      [i \in DOMAIN ff_store_broadcast |-> TagAge(ff_store_broadcast[i])],
      mem>>

TwoSizes == {"low", "both"}
OneLoc == {"both"}
=============================================================================
