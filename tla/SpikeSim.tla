------------------------------ MODULE SpikeSim ------------------------------
(***************************************************************************)
(* The machine around the harts (riscv/sim.cc, interactive.cc, rtc.cc,     *)
(* devices.cc): harts take turns of INTERLEAVE instructions, the clock     *)
(* ticks and the host thread (HTIF) runs between turns, and the user may   *)
(* stop the machine at a prompt and step it from there.                    *)
(*                                                                         *)
(* A hart is its reservation and its two device interrupts, an instruction *)
(* what it does to them; memory is who wrote a word last.                  *)
(***************************************************************************)
EXTENDS Integers, Sequences

CONSTANTS
    NPROCS,
    INTERLEAVE,      \* instructions of a turn
    TICKS,           \* INTERLEAVE / INSNS_PER_RTC_TICK
    MaxTime,         \* bound on the clock
    Words,           \* words of memory, by their addresses
    RunCounts        \* arguments of the command `run`

ASSUME SimConstants ==
    /\ NPROCS \in Nat \ {0} /\ INTERLEAVE \in Nat \ {0} /\ TICKS \in Nat
    /\ MaxTime \in Nat /\ Words \subseteq Nat /\ RunCounts \subseteq Nat

VARIABLES
    procs,           \* procs[i]
    current_step, current_proc,
    regs,            \* of the clock: time, and timecmp of each hart
    call,            \* sim_t::step in progress: instructions it is still to
                     \* account for, those asked of processor_t::step, those
                     \* executed, and whether it has returned
    at,              \* where the control is
    shell,           \* the command that called step, and what it has left
    ctrlc_pressed,
    written          \* history: has somebody else written a hart's reserved
                     \* word since its lr?

svars == <<procs, current_step, current_proc, regs, call, at, shell,
           ctrlc_pressed, written>>

Procs == 0 .. NPROCS - 1
NoWord == -1
Host == NPROCS

-----------------------------------------------------------------------------
(* Devices.                                                                *)

\* Mutant: a new timecmp is looked at when the clock ticks next.
increment_Lazy(r, ps, inc) ==
    IF inc = 0 THEN ps
    ELSE [i \in Procs |-> [ps[i] EXCEPT !.mtip = r.time + inc >= r.timecmp[i]]]

increment(r, ps, inc) ==
    [i \in Procs |-> [ps[i] EXCEPT !.mtip = r.time + inc >= r.timecmp[i]]]

Tick(r, inc) == [r EXCEPT !.time = IF @ + inc > MaxTime THEN MaxTime ELSE @ + inc]

\* The device that starts at the highest address not above a: devices are
\* looked up by their negated start.
lower_bound(devices, a) ==
    LET below == {d \in devices : d.start <= a}
    IN  IF below = {} THEN [start |-> 0, name |-> "none", hart |-> -1]
        ELSE CHOOSE d \in below : \A e \in below : e.start <= d.start

\* The map of sim_t::make_config_string: debug module, boot ROM, clock (time
\* and timecmps, eight bytes each, within a page), harts; then memory.
DEBUG_START == 1
DEFAULT_RSTVEC == 8
EXT_IO_BASE == 16
PAGE == 8
DeviceAt(start, name, hart) == [start |-> start, name |-> name, hart |-> hart]
Devices == {DeviceAt(DEBUG_START, "debug", -1), DeviceAt(DEFAULT_RSTVEC, "rom", -1),
            DeviceAt(EXT_IO_BASE, "rtc", -1)}
           \cup {DeviceAt(EXT_IO_BASE + PAGE * (1 + i), "hart", i) : i \in Procs}

\* A store that is not to memory: the device takes it or the access faults.
bus_store(a) ==
    LET d == lower_bound(Devices, a)
        o == a - d.start
    IN  CASE d.name = "rtc" /\ o \in 1 .. NPROCS -> [to |-> "timecmp", of |-> o - 1]
          [] d.name = "hart" /\ o = 0 -> [to |-> "msip", of |-> d.hart]
          [] OTHER -> [to |-> "fault", of |-> 0]
IoAddresses == {a \in 1 .. EXT_IO_BASE + PAGE * (1 + NPROCS) : bus_store(a).to # "fault"}
               \cup {DEFAULT_RSTVEC, EXT_IO_BASE}

-----------------------------------------------------------------------------
(* Instructions of the current hart.                                       *)

Wrote(who, a) ==
    [i \in Procs |-> IF i # who /\ procs[i].load_reservation = a THEN TRUE ELSE written[i]]

\* One of the instructions of processor_t::step has been executed.
Executed == call' = [call EXCEPT !.ran = @ + 1, !.over = call.ran + 1 = call.steps]
InStep == at = "step" /\ ~call.over
Quiet == UNCHANGED <<current_step, current_proc, at, shell, ctrlc_pressed>>

Lr == /\ InStep /\ Executed /\ Quiet
      /\ \E a \in Words :
           /\ procs' = [procs EXCEPT ![current_proc].load_reservation = a]
           /\ written' = [written EXCEPT ![current_proc] = FALSE]
      /\ UNCHANGED regs

\* sc does not give the reservation up.
Sc == /\ InStep /\ Executed /\ Quiet
      /\ \E a \in Words :
           IF procs[current_proc].load_reservation = a
           THEN written' = Wrote(current_proc, a)
           ELSE UNCHANGED written
      /\ UNCHANGED <<procs, regs>>

Sw == /\ InStep /\ Executed /\ Quiet
      /\ \E a \in Words : written' = Wrote(current_proc, a)
      /\ UNCHANGED <<procs, regs>>

\* Mutant: the reservation stays.
yield_load_reservation_Not(ps, p) == ps

yield_load_reservation(ps, p) == [ps EXCEPT ![p].load_reservation = NoWord]

\* processor_t::take_trap: the step ends, the reservation is given up.
Faults == /\ InStep /\ Quiet
          /\ call' = [call EXCEPT !.over = TRUE]
          /\ procs' = yield_load_reservation(procs, current_proc)
          /\ UNCHANGED <<regs, written>>

MmioStore ==
    /\ InStep /\ Quiet
    /\ \E a \in IoAddresses, v \in 0 .. MaxTime :
         LET d == bus_store(a)
             r == [regs EXCEPT !.timecmp[d.of] = v]
         IN  /\ IF d.to = "fault" THEN call' = [call EXCEPT !.over = TRUE] ELSE Executed
             /\ regs' = IF d.to = "timecmp" THEN r ELSE regs
             /\ procs' = CASE d.to = "timecmp" -> increment(r, procs, 0)
                           [] d.to = "msip" -> [procs EXCEPT ![d.of].msip = v % 2 = 1]
                           [] OTHER -> yield_load_reservation(procs, current_proc)
    /\ UNCHANGED written

-----------------------------------------------------------------------------
(* sim_t::step.                                                            *)

Min2(a, b) == IF a < b THEN a ELSE b

\* A call of processor_t::step, for what is left of n and of the turn
Enter(n, step) == LET steps == Min2(n, INTERLEAVE - step)
                  IN  [n |-> n, steps |-> steps, ran |-> 0, over |-> FALSE]

\* Mutant: a turn is as many instructions as were executed.
Accounted_Executed == call.ran

\* Executed or not, the instructions asked for are accounted for.
Accounted == call.steps

\* The turn is over when all its instructions are accounted for, executed or
\* not: the hart gives its reservation up, the next one is due, the clock
\* ticks when all have had their turn, and the host runs.
EndCall ==
    /\ at = "step" /\ call.over
    /\ LET step == current_step + Accounted
           next == (current_proc + 1) % NPROCS
           tick == step = INTERLEAVE /\ next = 0
           ps == IF step = INTERLEAVE THEN yield_load_reservation(procs, current_proc) ELSE procs
       IN  /\ current_step' = step % INTERLEAVE
           /\ current_proc' = IF step = INTERLEAVE THEN next ELSE current_proc
           /\ procs' = IF tick THEN increment(regs, ps, TICKS) ELSE ps
           /\ regs' = IF tick THEN Tick(regs, TICKS) ELSE regs
           /\ at' = IF step = INTERLEAVE THEN "host"
                    ELSE IF call.n = Accounted THEN shell.cmd ELSE "step"
           /\ call' = Enter(call.n - Accounted, step % INTERLEAVE)
    /\ UNCHANGED <<shell, ctrlc_pressed, written>>

\* The host thread may write memory (write_chunk) and finds out whether the
\* program has exited; sim_t::idle gives the control back.
HostTurn ==
    /\ at = "host"
    /\ \/ \E a \in Words : written' = Wrote(Host, a) /\ UNCHANGED shell
       \/ \E d \in {shell.done, TRUE} : shell' = [shell EXCEPT !.done = d] /\ UNCHANGED written
    /\ at' = IF call.n > 0 THEN "step" ELSE shell.cmd
    /\ UNCHANGED <<procs, current_step, current_proc, regs, call, ctrlc_pressed>>

-----------------------------------------------------------------------------
(* sim_t::main and the prompt.                                             *)

StepFor(n) == call' = Enter(n, current_step) /\ at' = "step"
Idle == UNCHANGED <<procs, current_step, current_proc, regs, written>>

Main ==
    /\ at = "main" /\ ~shell.done
    /\ IF shell.debug \/ ctrlc_pressed
       THEN at' = "prompt" /\ shell' = [shell EXCEPT !.cmd = "prompt"] /\ call' = call
       ELSE StepFor(INTERLEAVE) /\ shell' = shell
    /\ UNCHANGED ctrlc_pressed /\ Idle

\* The commands that run: `run`, for so many steps or without end, and
\* `until`.  The others only look.
Command ==
    /\ at = "prompt" /\ ~shell.done
    /\ \/ \E n \in RunCounts \cup {-1} :
            /\ shell' = [shell EXCEPT !.cmd = "run", !.left = n] /\ at' = "run"
            /\ ctrlc_pressed' = FALSE
       \/ shell' = [shell EXCEPT !.cmd = "until"] /\ at' = "until" /\ ctrlc_pressed' = FALSE
    /\ call' = call /\ Idle

\* The empty line: one step, whatever is pressed
EmptyLine ==
    /\ at = "prompt" /\ ~shell.done
    /\ StepFor(1)
    /\ shell' = [shell EXCEPT !.cmd = "prompt"]
    /\ UNCHANGED ctrlc_pressed /\ Idle

\* The prompt is left when the program has ended, not before.
Leave ==
    /\ at = "prompt" /\ shell.done
    /\ ctrlc_pressed' = FALSE /\ at' = "main"
    /\ UNCHANGED <<call, shell>> /\ Idle

\* The loop of interactive_run
interactive_run ==
    /\ at = "run"
    /\ IF shell.left # 0 /\ ~ctrlc_pressed /\ ~shell.done
       THEN StepFor(1) /\ shell' = [shell EXCEPT !.left = IF @ > 0 THEN @ - 1 ELSE @]
       ELSE at' = "prompt" /\ call' = call /\ shell' = [shell EXCEPT !.left = 0]
    /\ UNCHANGED ctrlc_pressed /\ Idle

\* The condition of `until` is whatever the user asked for; whether the
\* program has ended is not looked at.
interactive_until ==
    /\ at = "until"
    /\ \/ at' = "prompt" /\ call' = call
       \/ ~ctrlc_pressed /\ StepFor(1)
    /\ UNCHANGED <<shell, ctrlc_pressed>> /\ Idle

\* The second signal would end the simulator.
handle_signal ==
    /\ ~ctrlc_pressed /\ ctrlc_pressed' = TRUE
    /\ UNCHANGED <<call, at, shell>> /\ Idle

SimInit ==
    /\ procs = [i \in Procs |-> [load_reservation |-> NoWord, mtip |-> FALSE, msip |-> FALSE]]
    /\ current_step = 0 /\ current_proc = 0
    /\ regs = [time |-> 0, timecmp |-> [i \in Procs |-> 0]]
    /\ call = Enter(0, 0)
    /\ at = "main"
    /\ \E d \in BOOLEAN : shell = [debug |-> d, cmd |-> "main", left |-> 0, done |-> FALSE]
    /\ ctrlc_pressed = FALSE
    /\ written = [i \in Procs |-> FALSE]

\* What goes on by itself; the user's commands and signals do not.
SimRuns == \/ Lr \/ Sc \/ Sw \/ Faults \/ MmioStore \/ EndCall \/ HostTurn
           \/ Main \/ Leave \/ interactive_run \/ interactive_until
SimNext == SimRuns \/ Command \/ EmptyLine \/ handle_signal
SimSpec == SimInit /\ [][SimNext]_svars /\ WF_svars(SimRuns)

-----------------------------------------------------------------------------
\* A reservation that a sc could use now is unbroken: since the lr, no other
\* hart and not the host have written to the word.  Nothing watches the bus;
\* it holds because nobody else runs in a hart's turn, however the turn is
\* cut into steps at the prompt, and its end gives the reservation up.
ScAtomic ==
    (InStep /\ procs[current_proc].load_reservation # NoWord) => ~written[current_proc]

\* Once the clock runs, a timer interrupt is pending exactly while the time
\* has come, whoever wrote timecmp last and whenever (rtc.cc, increment).
TimerTrue ==
    regs.time > 0 => \A i \in Procs : procs[i].mtip = (regs.time >= regs.timecmp[i])

\* Every hart gets its turn, though one may trap at every instruction, unless
\* the user sits at the prompt or the program has ended (sim.cc, step).
EveryHartRuns ==
    \A i \in Procs : []<>(current_proc = i \/ at = "prompt" \/ shell.done)
=============================================================================
