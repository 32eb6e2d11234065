---------------------------- MODULE MCGdbSession ----------------------------
(* Small instances of GdbSession: four pages of two cells, of which the last *)
(* two are the page tables of two address spaces.                           *)
EXTENDS GdbSession, TLC

TwoSpaces == 0 :> 1 @@ 1 :> 2 @@ 2 :> 3 @@ 3 :> 4
             @@ 4 :> 0 @@ 5 :> 2 @@ 6 :> 2 @@ 7 :> 0
UserPaged == [fs |-> FALSE, vm |-> TRUE]

K(k) == [k |-> k]
Z(k, type, a) == [k |-> k, type |-> type, addr |-> a]

SessionPackets ==
    {K("g"), K("s"), [k |-> "c", addr |-> NoBp], K("badsum"),
     [k |-> "P", reg |-> "s0", val |-> 1], [k |-> "p", reg |-> "f"],
     [k |-> "X", addr |-> 1, data |-> <<5>>],
     Z("Z", "sw", 0), Z("z", "sw", 0), Z("Z", "hw", 1), Z("z", "hw", 1)}
LivenessPackets ==
    {K("g"), K("s"), [k |-> "c", addr |-> NoBp], K("badsum"),
     [k |-> "m", addr |-> 1, len |-> 2], Z("Z", "sw", 1)}
=============================================================================
