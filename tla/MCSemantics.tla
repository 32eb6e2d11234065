----------------------------- MODULE MCSemantics -----------------------------
(* The three models of what an instruction computes, each against its        *)
(* reference.  They share nothing: a behaviour is one of them.               *)
EXTENDS MCIss, MCFp, MCInsns

VARIABLE part
all == <<part, ivars, fvars, xvars>>

IssIdle == /\ prog = P(<<Count>>, 0, 0, 0, 0) /\ steps = 0
           /\ m = [Rreg |-> prog.regs, Memo |-> prog.mem, PC |-> 0, pos |-> 0,
                   queue |-> 0, status |-> "running",
                   dump |-> [pc |-> 0, regs |-> prog.regs, n |-> 0]]
FpIdle == /\ call \in {c \in Followers : c.op = "add"} /\ hart = Ready
          /\ result = WRITE_RD(Z(0)) /\ softfloat_exceptionFlags = {} /\ fflags = {}
          /\ frd = 0 /\ saved = [frd |-> 0, fflags |-> {}] /\ fp = "idle"

InsnsIdle == /\ suite = "timing" /\ core = CoreOf(REG, {}, 0, 0, 0) /\ pending = NoInsn
             /\ last = [insn |-> NoInsn, trap |-> "none"]
             /\ executed = 0 /\ retired = core.minstret /\ drifted = FALSE

SemanticsInit == \/ part = "iss" /\ IssInit /\ FpIdle /\ InsnsIdle
                 \/ part = "fp" /\ IssIdle /\ FpInit /\ InsnsIdle
                 \/ part = "insns" /\ IssIdle /\ FpIdle /\ InsnsInit
SemanticsNext == \/ part = "iss" /\ IssNext /\ UNCHANGED <<part, fvars, xvars>>
                 \/ part = "fp" /\ FpNext /\ UNCHANGED <<part, ivars, xvars>>
                 \/ part = "insns" /\ InsnsNext /\ UNCHANGED <<part, ivars, fvars>>
SemanticsSpec == SemanticsInit /\ [][SemanticsNext]_all
===============================================================================
