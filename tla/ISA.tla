-------------------------------- MODULE ISA ---------------------------------
(***************************************************************************)
(* What the programmer sees of the I-class back end: a window of decoded   *)
(* instructions in program order, retired one at a time, each reading and  *)
(* writing the architectural registers.  The iclass README puts it as:     *)
(* operands are renamed in order, issued out of order, and "Commit is      *)
(* in-order".                                                              *)
(***************************************************************************)
EXTENDS Integers, Sequences

CONSTANTS Arch, Val, Eval(_, _, _), Decoded

VARIABLES regs, window

isa == <<regs, window>>

Init == regs = [r \in Arch |-> 0] /\ window = <<>>

(* The front end delivers one or two instructions.                         *)
Accept ==
    /\ \/ \E d \in Decoded : window' = Append(window, d)
       \/ \E d0, d1 \in Decoded : window' = window \o <<d0, d1>>
    /\ regs' = regs

Perform(d) ==
    IF d.rd = 0 THEN regs ELSE [regs EXCEPT ![d.rd] = Eval(d, regs[d.rs1], regs[d.rs2])]

Redirects(d) == d.op \in {"COND", "JUMP"}

(* The oldest instruction takes effect.  What follows a branch may be      *)
(* dropped, and what follows a retired instruction when it is a trap.      *)
Retire ==
    /\ window # <<>> /\ ~Head(window).exception
    /\ regs' = Perform(Head(window))
    /\ \/ window' = Tail(window)
       \/ window' = <<>> /\ Redirects(Head(window))
       \/ window' = <<>> /\ Len(window) > 1 /\ window[2].exception

(* A load that ran too early is fetched and executed again.                *)
Replay == window # <<>> /\ Head(window).op = "LD" /\ window' = <<>> /\ regs' = regs

(* A trap changes no register.                                             *)
Trap == window # <<>> /\ Head(window).exception /\ window' = <<>> /\ regs' = regs

Next == Accept \/ Retire \/ Replay \/ Trap

Spec == Init /\ [][Next]_isa
=============================================================================
