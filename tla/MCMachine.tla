------------------------------ MODULE MCMachine ------------------------------
(* Small instances of the machine around the harts, of the opcode table, of   *)
(* the cache model, of the Debug RAM and of the debugger's connection.  They   *)
(* share nothing: a behaviour is one of the five.                             *)
EXTENDS SpikeSim, SpikeDecode, CacheSim, DebugRam, GdbWire

VARIABLE part
all == <<part, svars, dvars, cvars, bvars, wvars>>

\* The compressed instructions whose words overlap, others in between, and an
\* extension; six-bit words.
Entry(match, mask, name) == [match |-> match, mask |-> mask, name |-> name]
Base == <<Entry(1, 3, "addi"), Entry(18, 19, "add"), Entry(2, 23, "jr"), Entry(18, 31, "ebreak"),
          Entry(3, 7, "lui"), Entry(2, 19, "mv"), Entry(18, 23, "jalr")>>
Extra == <<Entry(7, 7, "custom")>>

\* A direct-mapped instruction cache, a fully associative data cache and a
\* second level smaller than both together.
SetsOf == "I$" :> 2 @@ "D$" :> 1 @@ "L2$" :> 2
WaysOf == "I$" :> 1 @@ "D$" :> 2 @@ "L2$" :> 1

\* Every program the server posts, on values that need the whole width.
T(op, reg, val, addr, len) == [NoTask EXCEPT !.op = op, !.reg = reg, !.val = val, !.addr = addr, !.len = len]
Value == {1, 8, 30, 31, 32, 41, 63}
RamTasks(xl) ==
  {T("xlen", 0, {}, 0, 0), T("dpc", 0, {}, 0, 0), T("dcsr", 0, {}, 0, 0),
   T("continue_dpc", 0, Value, 0, 0), T("continue_dpc", 0, Value, 0, 1),
   T("continue_mstatus", 0, Value, 0, 0), T("continue_dcsr", 0, {2, 12, 15}, 0, 0)}
  \cup {T("csr", c, {}, 0, 0) : c \in {MSTATUS, SPTBR, TDATA1}}
  \cup {T("g", k, {}, 0, 0) : k \in 0..15}
  \cup {T("read_x", r, {}, 0, 0) : r \in {1, S1, 31}}
  \cup {T("read_f", r, {}, 0, 0) : r \in {0, 31}}
  \cup {T("read_csr", c, {}, 0, 0) : c \in {DPC, \h123}}
  \cup {T("write_x", r, Value, 0, 0) : r \in {1, S0, S1, 31}}
  \cup {T("write_f", 17, Value, 0, 0), T("write_csr", SPTBR, Value, 0, 0)}
  \cup {T("m", 0, {}, DRAM + a[1], a[2]) : a \in {<<0, 8>>, <<4, 4>>, <<3, 2>>, <<16, 4>>}}
  \cup {T("M", 0, Value, DRAM + a[1], a[2]) : a \in {<<0, 8>>, <<4, 4>>, <<5, 3>>, <<16, 4>>}}
  \cup {T("pte", 0, {}, DRAM, 0)}
  \cup {T("index", k, {}, 0, 0) : k \in {0, 3}}
  \cup {T("trigger", c, Value, 0, 0) : c \in {TDATA1, TDATA2}}
  \cup {T("remove", k, {}, 0, 0) : k \in {0, 3}}

\* A request of every form; three bytes to write, two of which are escaped.
Characters == <<"0", "1", "2", "3", "$", "#", "+", "-", "^C", "^D", "]", "}", ",", ":", "=",
                "p", "P", "m", "X", "c", "?", "O", "K", "S", "E">>
Codes == [c \in Range(Characters) |-> (CHOOSE i \in DOMAIN Characters : Characters[i] = c) % 16]
Asked == {[k |-> "p", n |-> 6], [k |-> "P", n |-> 1, v |-> 118],
          [k |-> "m", addr |-> 27, length |-> 2], [k |-> "X", addr |-> 5, data |-> <<"#", "1", "}">>],
          [k |-> "X", addr |-> 2, data |-> <<>>], [k |-> "c"], [k |-> "?"]}

MachineInit == /\ part \in {"sim", "decode", "cache", "ram", "wire"}
               /\ SimInit /\ DecodeInit /\ CacheInit /\ WireInit
               /\ RamInit /\ (part # "ram" => cpu.xlen = 64)
MachineNext ==
  \/ part = "sim" /\ SimNext /\ UNCHANGED <<part, dvars, cvars, bvars, wvars>>
  \/ part = "decode" /\ DecodeNext /\ UNCHANGED <<part, svars, cvars, bvars, wvars>>
  \/ part = "cache" /\ CacheNext /\ UNCHANGED <<part, svars, dvars, bvars, wvars>>
  \/ part = "ram" /\ RamNext /\ UNCHANGED <<part, svars, dvars, cvars, wvars>>
  \/ part = "wire" /\ WireNext /\ UNCHANGED <<part, svars, dvars, cvars, bvars>>
\* Fairness asks for the simulation to run: of the five kinds of behaviour
\* only those of the machine are fair, and the liveness property is theirs.
MachineSpec == MachineInit /\ [][MachineNext]_all /\ WF_svars(SimRuns)
===============================================================================
