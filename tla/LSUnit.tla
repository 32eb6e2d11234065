------------------------------- MODULE LSUnit -------------------------------
(***************************************************************************)
(* The load/store unit of the I-class core (LS_unit.bsv): the store queue, *)
(* the load queue, store-to-load forwarding and the detection of loads     *)
(* that ran too early, with the rules of map.bsv, commit.bsv and           *)
(* Processor.bsv that drive it.                                            *)
(*                                                                         *)
(* The ROB is reduced to its memory instructions, in program order.  The   *)
(* D-cache takes requests from a one-place FIFO and serves them in order.  *)
(***************************************************************************)
EXTENDS Integers, Sequences, FiniteSetsExt

CONSTANTS
    MEMQ_SIZE,        \* entries of each memory queue (16)
    ENTRY_ROB_SIZE,   \* entries of the ROB (16)
    Loc,              \* accesses: an address together with a size
    Cell,             \* bytes of memory, as far as accesses tell them apart
    Cells(_),         \* the cells of an access
    Dword(_),         \* bits 63:3 of its address
    Val,              \* contents of a cell
    Packets,          \* what decode may deliver: two requests and valid[1]
    DCACHE_SIZE       \* requests the D-cache holds at a time

MemQ == 0 .. MEMQ_SIZE - 1
Tag  == 0 .. ENTRY_ROB_SIZE - 1

Mem_type == {"LD", "STR", "NOP"}

ASSUME SizeAssumption ==
    /\ MEMQ_SIZE \in Nat \ {0, 1}
    /\ ENTRY_ROB_SIZE \in Nat \ {0, 1}
    /\ DCACHE_SIZE \in Nat \ {0}

(* Accesses that overlap have the same bits 63:3.                          *)
ASSUME LocAssumption ==
    /\ 0 \in Val /\ Loc # {}
    /\ \A l \in Loc : Cells(l) \subseteq Cell /\ Cells(l) # {}
    /\ \A l, m \in Loc : Cells(l) \cap Cells(m) # {} => Dword(l) = Dword(m)

(* No packet has an instruction that is not valid and asks for an entry.   *)
ASSUME PacketsAssumption ==
    /\ Packets \subseteq [req : Mem_type \X Mem_type, valid1 : BOOLEAN]
    /\ \A p \in Packets : ~p.valid1 => p.req[2] = "NOP"

VARIABLES
    rob,               \* memory instructions in flight
    rg_erob_head,      \* ROB slot of the oldest one; slots are register tags
    store_q, rg_store_q_head, rg_store_q_tail,
    load_q, rg_load_q_head, rg_load_q_tail,
    ff_load,           \* loads whose effective address is known
    ff_request,        \* ff_load_request_to_cache
    ff_load_result,    \* ff_load_result and ff_load_broadcast
    ff_store_broadcast,
    dcache,            \* requests the D-cache has accepted
    mem                \* memory as written by the D-cache

ls_queues == <<store_q, rg_store_q_head, rg_store_q_tail,
               load_q, rg_load_q_head, rg_load_q_tail>>
vars == <<rob, rg_erob_head, ls_queues, ff_load, ff_request, ff_load_result,
          ff_store_broadcast, dcache, mem>>

AnyLoc == CHOOSE l \in Loc : TRUE

(* The data of an access, cell by cell.                                    *)
Fill(l, v)  == [c \in Cells(l) |-> v]
Read(m, l)  == [c \in Cells(l) |-> m[c]]
Write(m, r) == IF r.ld_st = "Store"
               THEN [c \in Cell |-> IF c \in Cells(r.loc) THEN r.data ELSE m[c]] ELSE m

EmptyStore == [filled |-> FALSE, valid |-> FALSE, loc |-> AnyLoc, data |-> 0]
EmptyLoad  == [filled |-> FALSE, valid |-> FALSE, store_mask |-> {}, loc |-> AnyLoc,
               forwarded |-> FALSE, forward_ack |-> FALSE, aliased |-> FALSE]

Init ==
    /\ rob = <<>>
    /\ rg_erob_head = 0
    /\ store_q = [i \in MemQ |-> EmptyStore]
    /\ load_q = [i \in MemQ |-> EmptyLoad]
    /\ rg_store_q_head = 0 /\ rg_store_q_tail = 0
    /\ rg_load_q_head = 0 /\ rg_load_q_tail = 0
    /\ ff_load = <<>> /\ ff_request = <<>>
    /\ ff_load_result = <<>> /\ ff_store_broadcast = <<>>
    /\ dcache = <<>>
    /\ mem = [c \in Cell |-> 0]

Inc(i)    == (i + 1) % MEMQ_SIZE
TagAt(k)  == (rg_erob_head + k - 1) % ENTRY_ROB_SIZE
IncTag(t) == (t + 1) % ENTRY_ROB_SIZE

-----------------------------------------------------------------------------
(***************************************************************************)
(* Allotment at dispatch: rl_allot_mem_q, and the indices of map.bsv.      *)
(***************************************************************************)

(* Defective variant of store_q_full: a queue with one free slot accepts a *)
(* packet of two stores.                                                   *)
store_q_full_Last == rg_store_q_head = rg_store_q_tail /\ store_q[rg_store_q_head].filled

store_q_full == \/ rg_store_q_head = rg_store_q_tail /\ store_q[rg_store_q_head].filled
                \/ Inc(rg_store_q_tail) = rg_store_q_head
load_q_full  == \/ rg_load_q_head = rg_load_q_tail /\ load_q[rg_load_q_head].filled
                \/ Inc(rg_load_q_tail) = rg_load_q_head

(* Where the k-th request of a packet goes in the queue with this tail.    *)
QIndex(req, k, tail) == IF k = 2 /\ req[1] = req[2] THEN Inc(tail) ELSE tail

(* The older stores of the k-th request.                                   *)
StoreMask(req, k) ==
    {j \in MemQ : store_q[j].filled}
      \cup IF k = 2 /\ req[1] = "STR" THEN {rg_store_q_tail} ELSE {}

(* The requests of this type that are entered at index i of its queue.     *)
EnteredAt(req, type, tail, i) == {k \in 1 .. 2 : req[k] = type /\ i = QIndex(req, k, tail)}

Moved(req, type, tail) ==
    CASE req[1] = type /\ req[2] = type -> Inc(Inc(tail))
      [] req[1] # type /\ req[2] # type -> tail
      [] OTHER -> Inc(tail)

NewInst(req, k) ==
    [mem_type |-> req[k],
     index |-> QIndex(req, k, IF req[k] = "LD" THEN rg_load_q_tail ELSE rg_store_q_tail),
     stage |-> "map", loc |-> AnyLoc, data |-> Fill(AnyLoc, 0)]

(* The memory instructions of a packet, as they enter the ROB              *)
Dispatched(p) ==
    (IF p.req[1] = "NOP" THEN <<>> ELSE <<NewInst(p.req, 1)>>)
      \o (IF p.valid1 /\ p.req[2] # "NOP" THEN <<NewInst(p.req, 2)>> ELSE <<>>)

(* Only the instructions enter the ROB that are there; a request is made   *)
(* for the second one whether or not it is valid.                          *)
Allot(p) ==
    /\ Len(rob) + 2 <= ENTRY_ROB_SIZE
    /\ ~("LD" \in {p.req[1], p.req[2]} /\ load_q_full)
    /\ ~("STR" \in {p.req[1], p.req[2]} /\ store_q_full)
    /\ rob' = rob \o Dispatched(p)
    /\ load_q' = [i \in MemQ |->
         LET ks == EnteredAt(p.req, "LD", rg_load_q_tail, i)
         IN  IF ks = {} THEN load_q[i]
             ELSE [EmptyLoad EXCEPT !.filled = TRUE,
                                    !.store_mask = StoreMask(p.req, CHOOSE k \in ks : TRUE)]]
    /\ store_q' = [i \in MemQ |->
         IF EnteredAt(p.req, "STR", rg_store_q_tail, i) = {} THEN store_q[i]
         ELSE [EmptyStore EXCEPT !.filled = TRUE]]
    /\ rg_load_q_tail' = Moved(p.req, "LD", rg_load_q_tail)
    /\ rg_store_q_tail' = Moved(p.req, "STR", rg_store_q_tail)
    /\ UNCHANGED <<rg_erob_head, rg_store_q_head, rg_load_q_head, ff_load, ff_request,
                   ff_load_result, ff_store_broadcast, dcache, mem>>

-----------------------------------------------------------------------------
(***************************************************************************)
(* Execution: the method inputs with rl_process_store or rl_process_load,  *)
(* in any order of the instructions; then rl_access_memory for a load.     *)
(***************************************************************************)

IssueStore(k, l, v) ==
    /\ rob[k].mem_type = "STR" /\ rob[k].stage = "map"
    /\ ff_store_broadcast = <<>>
    /\ ff_store_broadcast' = <<TagAt(k)>>
    /\ store_q' = [store_q EXCEPT ![rob[k].index] =
                     [filled |-> TRUE, valid |-> TRUE, loc |-> l, data |-> v]]
    /\ rob' = [rob EXCEPT ![k].stage = "issued", ![k].loc = l, ![k].data = Fill(l, v)]
    /\ UNCHANGED <<rg_erob_head, rg_store_q_head, rg_store_q_tail, load_q, rg_load_q_head,
                   rg_load_q_tail, ff_load, ff_request, ff_load_result, dcache, mem>>

IssueLoad(k, l) ==
    /\ rob[k].mem_type = "LD" /\ rob[k].stage = "map"
    /\ ff_load = <<>>
    /\ LET i == rob[k].index
       IN  /\ ff_load' = <<[store_mask |-> load_q[i].store_mask, loc |-> l,
                            index |-> i, tag |-> TagAt(k)]>>
           /\ load_q' = [load_q EXCEPT ![i].valid = TRUE, ![i].loc = l]
    /\ rob' = [rob EXCEPT ![k].stage = "issued", ![k].loc = l]
    /\ UNCHANGED <<rg_erob_head, store_q, rg_store_q_head, rg_store_q_tail, rg_load_q_head,
                   rg_load_q_tail, ff_request, ff_load_result, ff_store_broadcast, dcache, mem>>

(* Store queue entries the load may take its value from; the CAM picks the *)
(* one with the highest index, which need not be the youngest.             *)
Forwarding(ld) ==
    {i \in ld.store_mask : store_q[i].filled /\ store_q[i].valid /\ store_q[i].loc = ld.loc}

(* Defective variant of EnqRequest: a request that is still waiting is     *)
(* overwritten.                                                            *)
EnqRequestOver(r) == ff_request' = <<r>> /\ dcache' = dcache

(* A request enters the FIFO when it is empty, or when the D-cache takes   *)
(* the request before it in the same cycle.                                *)
EnqRequest(r) ==
    /\ ff_request = <<>> \/ Len(dcache) < DCACHE_SIZE
    /\ ff_request' = <<r>>
    /\ dcache' = dcache \o ff_request

Forward ==
    LET ld == Head(ff_load)
    IN  /\ ff_load # <<>> /\ Forwarding(ld) # {}
        /\ ff_load_result = <<>>
        /\ ff_load' = <<>>
        /\ ff_load_result' =
             <<[tag |-> ld.tag, data |-> Fill(ld.loc, store_q[Max(Forwarding(ld))].data)]>>
        /\ load_q' = [load_q EXCEPT ![ld.index].forwarded = TRUE]
        /\ UNCHANGED <<rob, rg_erob_head, store_q, rg_store_q_head, rg_store_q_tail,
                       rg_load_q_head, rg_load_q_tail, ff_request, ff_store_broadcast,
                       dcache, mem>>

AccessMemory ==
    LET ld == Head(ff_load)
    IN  /\ ff_load # <<>> /\ Forwarding(ld) = {}
        /\ ff_load' = <<>>
        /\ EnqRequest([ld_st |-> "Load", loc |-> ld.loc, data |-> 0, tag |-> ld.tag])
        /\ UNCHANGED <<rob, rg_erob_head, ls_queues, ff_load_result, ff_store_broadcast, mem>>

(* rl_connect_dcache_processor_read, and the D-cache serving a request.    *)
DcacheAccept ==
    /\ ff_request # <<>> /\ Len(dcache) < DCACHE_SIZE
    /\ dcache' = dcache \o ff_request
    /\ ff_request' = <<>>
    /\ UNCHANGED <<rob, rg_erob_head, ls_queues, ff_load, ff_load_result,
                   ff_store_broadcast, mem>>

DcacheWrite ==
    /\ dcache # <<>> /\ Head(dcache).ld_st = "Store"
    /\ mem' = Write(mem, Head(dcache))
    /\ dcache' = Tail(dcache)
    /\ UNCHANGED <<rob, rg_erob_head, ls_queues, ff_load, ff_request, ff_load_result,
                   ff_store_broadcast>>

(* rl_processor_to_dcache_read and rl_get_load_result.                     *)
GetLoadResult ==
    /\ dcache # <<>> /\ Head(dcache).ld_st = "Load"
    /\ ff_load_result = <<>>
    /\ ff_load_result' = <<[tag |-> Head(dcache).tag, data |-> Read(mem, Head(dcache).loc)]>>
    /\ dcache' = Tail(dcache)
    /\ UNCHANGED <<rob, rg_erob_head, ls_queues, ff_load, ff_request, ff_store_broadcast, mem>>

(* A broadcast reaches every ROB entry with its tag.                       *)
LoadBroadcast ==
    /\ ff_load_result # <<>>
    /\ ff_load_result' = <<>>
    /\ rob' = [k \in DOMAIN rob |->
                 IF TagAt(k) = Head(ff_load_result).tag
                 THEN [rob[k] EXCEPT !.stage = "done", !.data = Head(ff_load_result).data]
                 ELSE rob[k]]
    /\ UNCHANGED <<rg_erob_head, ls_queues, ff_load, ff_request, ff_store_broadcast, dcache, mem>>

(* Defective variant of StoreBroadcast: one that meets a load's is lost.   *)
StoreBroadcastLost ==
    /\ ff_store_broadcast # <<>>
    /\ ff_store_broadcast' = <<>>
    /\ rob' = [k \in DOMAIN rob |->
                 IF TagAt(k) = Head(ff_store_broadcast) /\ ff_load_result = <<>>
                 THEN [rob[k] EXCEPT !.stage = "done"] ELSE rob[k]]
    /\ UNCHANGED <<rg_erob_head, ls_queues, ff_load, ff_request, ff_load_result, dcache, mem>>

StoreBroadcast ==
    /\ ff_store_broadcast # <<>>
    /\ ff_store_broadcast' = <<>>
    /\ rob' = [k \in DOMAIN rob |->
                 IF TagAt(k) = Head(ff_store_broadcast) THEN [rob[k] EXCEPT !.stage = "done"]
                                                        ELSE rob[k]]
    /\ UNCHANGED <<rg_erob_head, ls_queues, ff_load, ff_request, ff_load_result, dcache, mem>>

-----------------------------------------------------------------------------
(***************************************************************************)
(* Commit                                                                  *)
(***************************************************************************)

AtHead(type) == rob # <<>> /\ rob[1].mem_type = type /\ rob[1].stage = "done"

(* Defective variant of Alias: a forwarded load is never suspected again.  *)
AliasTrusting(ld, s) ==
    IF ~(ld.filled /\ ld.valid /\ Dword(ld.loc) = Dword(s.loc)) THEN ld
    ELSE IF ld.forwarded THEN [ld EXCEPT !.forward_ack = TRUE]
    ELSE [ld EXCEPT !.aliased = TRUE]

(* The effect of the store s on a load queue entry: unless the load took   *)
(* its value from a store of which this is the first to commit, it is too  *)
(* old.                                                                    *)
Alias(ld, s) ==
    IF ~(ld.filled /\ ld.valid /\ Dword(ld.loc) = Dword(s.loc)) THEN ld
    ELSE IF ld.forwarded /\ ~ld.forward_ack THEN [ld EXCEPT !.forward_ack = TRUE]
    ELSE [ld EXCEPT !.aliased = TRUE]

CommitStore ==
    LET s == store_q[rg_store_q_head]
    IN  /\ AtHead("STR")
        /\ rob' = Tail(rob)
        /\ rg_erob_head' = IncTag(rg_erob_head)
        /\ store_q' = [store_q EXCEPT ![rg_store_q_head].filled = FALSE]
        /\ rg_store_q_head' = Inc(rg_store_q_head)
        /\ load_q' = [i \in MemQ |-> Alias(load_q[i], s)]
        /\ EnqRequest([ld_st |-> "Store", loc |-> s.loc, data |-> s.data, tag |-> 0])
        /\ UNCHANGED <<rg_store_q_tail, rg_load_q_head, rg_load_q_tail, ff_load,
                       ff_load_result, ff_store_broadcast, mem>>

CommitLoad ==
    /\ AtHead("LD") /\ ~load_q[rg_load_q_head].aliased
    /\ rob' = Tail(rob)
    /\ rg_erob_head' = IncTag(rg_erob_head)
    /\ load_q' = [load_q EXCEPT ![rg_load_q_head].filled = FALSE]
    /\ rg_load_q_head' = Inc(rg_load_q_head)
    /\ UNCHANGED <<store_q, rg_store_q_head, rg_store_q_tail, rg_load_q_tail, ff_load,
                   ff_request, ff_load_result, ff_store_broadcast, dcache, mem>>

(* Defective variant of Clear: the loads about to look up the store queue  *)
(* survive a flush.                                                        *)
ClearKeepsLoads ==
    /\ rob' = <<>>
    /\ rg_erob_head' = 0
    /\ load_q' = [i \in MemQ |-> [load_q[i] EXCEPT !.filled = FALSE]]
    /\ store_q' = [i \in MemQ |-> [store_q[i] EXCEPT !.filled = FALSE]]
    /\ rg_load_q_head' = 0 /\ rg_load_q_tail' = 0
    /\ rg_store_q_head' = 0 /\ rg_store_q_tail' = 0
    /\ ff_load' = ff_load /\ ff_load_result' = <<>> /\ ff_store_broadcast' = <<>>

(* rl_clear_mem_queues.  ff_load_request_to_cache is not cleared.          *)
Clear ==
    /\ rob' = <<>>
    /\ rg_erob_head' = 0
    /\ load_q' = [i \in MemQ |-> [load_q[i] EXCEPT !.filled = FALSE]]
    /\ store_q' = [i \in MemQ |-> [store_q[i] EXCEPT !.filled = FALSE]]
    /\ rg_load_q_head' = 0 /\ rg_load_q_tail' = 0
    /\ rg_store_q_head' = 0 /\ rg_store_q_tail' = 0
    /\ ff_load' = <<>> /\ ff_load_result' = <<>> /\ ff_store_broadcast' = <<>>

(* Memory once these requests have arrived: each cell has what the last    *)
(* store of it brings.                                                     *)
StoresOf(reqs, c) ==
    {i \in DOMAIN reqs : reqs[i].ld_st = "Store" /\ c \in Cells(reqs[i].loc)}
After(m, reqs) ==
    [c \in Cell |-> IF StoresOf(reqs, c) = {} THEN m[c] ELSE reqs[Max(StoresOf(reqs, c))].data]

(* Memory once the committed stores on their way to it have arrived.       *)
Committed == After(mem, dcache \o ff_request)

(* dcache.abandon_cycle.  A D-cache that has kept up with the requests has *)
(* written the committed stores by then, and only loads are abandoned.     *)
AbandonLoads == dcache' = <<>> /\ ff_request' = <<>> /\ mem' = Committed

(* A load that ran too early is flushed when it commits.                   *)
ReplayLoad == AtHead("LD") /\ load_q[rg_load_q_head].aliased /\ Clear /\ AbandonLoads

(* A branch or a trap flushes the pipeline.                                *)
Flush == Clear /\ AbandonLoads

Next ==
    \/ \E p \in Packets : Allot(p)
    \/ \E k \in DOMAIN rob, l \in Loc : IssueLoad(k, l) \/ \E v \in Val : IssueStore(k, l, v)
    \/ Forward
    \/ AccessMemory
    \/ DcacheAccept
    \/ DcacheWrite
    \/ GetLoadResult
    \/ LoadBroadcast
    \/ StoreBroadcast
    \/ CommitStore
    \/ CommitLoad
    \/ ReplayLoad
    \/ Flush

(* The unit with a D-cache that keeps up with its requests.                *)
Spec == Init /\ [][Next]_vars

(* The scheduling of the rules: what stays enabled fires.  Nothing makes   *)
(* instructions arrive or flushes happen.                                  *)
FairSpec ==
    /\ Spec
    /\ \A k \in 1 .. ENTRY_ROB_SIZE : WF_vars(/\ k \in DOMAIN rob
                                              /\ \E l \in Loc : \/ IssueLoad(k, l)
                                                                \/ \E v \in Val : IssueStore(k, l, v))
    /\ WF_vars(Forward) /\ WF_vars(AccessMemory)
    /\ WF_vars(DcacheAccept) /\ WF_vars(DcacheWrite) /\ WF_vars(GetLoadResult)
    /\ WF_vars(LoadBroadcast) /\ WF_vars(StoreBroadcast)
    /\ WF_vars(CommitStore) /\ WF_vars(CommitLoad) /\ WF_vars(ReplayLoad)

-----------------------------------------------------------------------------
(***************************************************************************)
(* Properties                                                              *)
(***************************************************************************)

(* How far a queue entry is from the head, and the instructions of a type. *)
Distance(head, i) == (i + MEMQ_SIZE - head) % MEMQ_SIZE
InFlight(type) == {k \in DOMAIN rob : rob[k].mem_type = type}

(* The queues hold the memory instructions in flight and nothing else, in  *)
(* program order and without a gap from the head: the entry that commit    *)
(* takes from the head of a queue is that of the instruction at the ROB    *)
(* head.                                                                   *)
QueueMatchesRob(type, q, head) ==
    /\ {i \in MemQ : q[i].filled} = {rob[k].index : k \in InFlight(type)}
    /\ \A j, k \in InFlight(type) :
         j < k => Distance(head, rob[j].index) < Distance(head, rob[k].index)
    /\ \A i, j \in MemQ :
         q[i].filled /\ Distance(head, j) < Distance(head, i) => q[j].filled
QueuesMatchRob == /\ QueueMatchesRob("STR", store_q, rg_store_q_head)
                  /\ QueueMatchesRob("LD", load_q, rg_load_q_head)

(* A load that commits without a replay returns what memory holds after    *)
(* all older stores and before any younger one, although it may have run   *)
(* before their addresses were known and taken its value from the queue.   *)
LoadCorrect ==
    AtHead("LD") /\ ~load_q[rg_load_q_head].aliased =>
      rob[1].data = Read(Committed, rob[1].loc)

(* A store that leaves the ROB is written, with its own address and data,  *)
(* and nothing else is; no flush takes a committed store back.             *)
StoreSurvives ==
    [][LET own == [ld_st |-> "Store", loc |-> rob[1].loc,
                   data |-> rob[1].data[CHOOSE c \in Cells(rob[1].loc) : TRUE]]
       IN  Committed' = IF CommitStore THEN Write(Committed, own) ELSE Committed]_vars

(* An answer is for the load that asked: its tag belongs to an issued load *)
(* of that address, never to an instruction dispatched after a flush.      *)
AnswersAwaited ==
    \A i \in DOMAIN ff_load_result :
      \E k \in DOMAIN rob : /\ TagAt(k) = ff_load_result[i].tag
                            /\ rob[k].mem_type = "LD" /\ rob[k].stage = "issued"
                            /\ Cells(rob[k].loc) = DOMAIN ff_load_result[i].data

(* Everything that enters the queues leaves them: the oldest instruction   *)
(* commits or is flushed, however loads and stores share the FIFOs.        *)
HeadLeaves ==
    \A t \in Tag : rob # <<>> /\ rg_erob_head = t ~> rob = <<>> \/ rg_erob_head # t
=============================================================================
