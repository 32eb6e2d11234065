---------------------------- MODULE MachineProofs ----------------------------
(***************************************************************************)
(* Theorems about the machine around the harts: about SpikeSim, for any    *)
(* number of harts, length of a turn, speed of the clock and set of words, *)
(* and about CacheSim, for any number of lines, sets and ways of the three *)
(* caches.                                                                 *)
(***************************************************************************)
EXTENDS SpikeSim, CacheSim, FiniteSetTheorems, TLAPS

-----------------------------------------------------------------------------
(***************************************************************************)
(* SpikeSim                                                                *)
(***************************************************************************)

HartType == [load_reservation : Words \cup {NoWord}, mtip : BOOLEAN, msip : BOOLEAN]
ClockType == [time : 0 .. MaxTime, timecmp : [Procs -> 0 .. MaxTime]]
ShellType == [debug : BOOLEAN, cmd : {"main", "prompt", "run", "until"}, left : Int,
              done : BOOLEAN]

(* What the proofs need to know of the types: interrupt bits and           *)
(* reservations per hart, and a clock within its bound.                    *)
SimType ==
    /\ procs \in [Procs -> HartType]
    /\ regs \in ClockType
    /\ current_proc \in Procs
    /\ written \in [Procs -> BOOLEAN]
    /\ shell \in ShellType

(* Between two instructions only the hart whose turn it is has a           *)
(* reservation, an unbroken one, and while the host runs nobody has one.   *)
OneReservation ==
    \A i \in Procs : procs[i].load_reservation # NoWord =>
      i = current_proc /\ ~written[i] /\ at # "host"

-----------------------------------------------------------------------------
(* What the operations on harts and clock return.                          *)

LEMMA NextProc == \A i \in Procs : (i + 1) % NPROCS \in Procs
  BY SimConstants DEF Procs

(* rtc_t::increment compares the time with the timecmp of every hart and   *)
(* leaves the rest of the harts alone.                                     *)
LEMMA IncrementEffect ==
  ASSUME NEW r \in ClockType, NEW ps \in [Procs -> HartType], NEW inc \in Nat
  PROVE  /\ increment(r, ps, inc) \in [Procs -> HartType]
         /\ \A i \in Procs :
              /\ increment(r, ps, inc)[i].load_reservation = ps[i].load_reservation
              /\ increment(r, ps, inc)[i].mtip = (r.time + inc >= r.timecmp[i])
<1>1. ASSUME NEW i \in Procs
      PROVE  /\ increment(r, ps, inc)[i] = [ps[i] EXCEPT !.mtip = r.time + inc >= r.timecmp[i]]
             /\ (r.time + inc >= r.timecmp[i]) \in BOOLEAN
             /\ ps[i] \in HartType
  BY DEF increment
<1>2. ASSUME NEW h \in HartType, NEW b \in BOOLEAN
      PROVE  /\ [h EXCEPT !.mtip = b] \in HartType
             /\ [h EXCEPT !.mtip = b].load_reservation = h.load_reservation
             /\ [h EXCEPT !.mtip = b].mtip = b
  BY DEF HartType
<1>3. ASSUME NEW i \in Procs
      PROVE  /\ increment(r, ps, inc)[i] \in HartType
             /\ increment(r, ps, inc)[i].load_reservation = ps[i].load_reservation
             /\ increment(r, ps, inc)[i].mtip = (r.time + inc >= r.timecmp[i])
  <2> DEFINE b == r.time + inc >= r.timecmp[i]
  <2>1. increment(r, ps, inc)[i] = [ps[i] EXCEPT !.mtip = b] /\ b \in BOOLEAN
    BY <1>1
  <2> HIDE DEF b
  <2>2. /\ increment(r, ps, inc)[i] \in HartType
        /\ increment(r, ps, inc)[i].load_reservation = ps[i].load_reservation
        /\ increment(r, ps, inc)[i].mtip = b
    BY <1>1, <1>2, <2>1
  <2> QED
    BY <2>2 DEF b
<1>4. increment(r, ps, inc) \in [Procs -> HartType]
  BY <1>3 DEF increment
<1> QED
  BY <1>3, <1>4

(* The clock stays within its bound; a timecmp it can hold is reached by   *)
(* the bounded time when it is reached by the unbounded one.               *)
LEMMA TickEffect ==
  ASSUME NEW r \in ClockType, NEW inc \in Nat
  PROVE  /\ Tick(r, inc) \in ClockType
         /\ Tick(r, inc).timecmp = r.timecmp
         /\ \A i \in Procs :
              (r.time + inc >= r.timecmp[i]) = (Tick(r, inc).time >= r.timecmp[i])
  BY SimConstants DEF Tick, ClockType

LEMMA YieldEffect ==
  ASSUME NEW ps \in [Procs -> HartType], NEW p \in Procs
  PROVE  /\ yield_load_reservation(ps, p) \in [Procs -> HartType]
         /\ \A i \in Procs :
              /\ yield_load_reservation(ps, p)[i].mtip = ps[i].mtip
              /\ yield_load_reservation(ps, p)[i].load_reservation =
                   IF i = p THEN NoWord ELSE ps[i].load_reservation
  BY DEF yield_load_reservation, HartType

LEMMA WroteType ==
  ASSUME SimType, NEW who, NEW a
  PROVE  Wrote(who, a) \in [Procs -> BOOLEAN]
  BY DEF Wrote, SimType

-----------------------------------------------------------------------------
(* The inductive invariant: ScAtomic speaks only of the moments at which   *)
(* an instruction may be executed; that it holds then rests on what is     *)
(* true of all harts at all times.                                         *)
SimInv == SimType /\ OneReservation /\ TimerTrue

LEMMA SimInvInit == SimInit => SimInv
<1> SUFFICES ASSUME SimInit PROVE SimInv
  OBVIOUS
<1>1. SimType
  BY SimConstants DEF SimInit, SimType, HartType, ClockType, ShellType, Procs, NoWord
<1>2. OneReservation
  BY DEF SimInit, OneReservation
<1>3. TimerTrue
  BY DEF SimInit, TimerTrue
<1> QED
  BY <1>1, <1>2, <1>3 DEF SimInv

(* lr, sc and sw: the hart whose turn it is cannot break its own           *)
(* reservation, and nobody else has one.                                   *)
LEMMA MemoryKeeps ==
  ASSUME SimInv, Lr \/ Sc \/ Sw
  PROVE  SimInv'
<1> USE DEF SimInv
<1>1. CASE Lr
  <2>1. PICK a \in Words : /\ procs' = [procs EXCEPT ![current_proc].load_reservation = a]
                            /\ written' = [written EXCEPT ![current_proc] = FALSE]
    BY <1>1 DEF Lr
  <2>2. UNCHANGED <<regs, current_proc, at, shell>> /\ at # "host"
    BY <1>1 DEF Lr, Quiet, InStep
  <2>3. SimType'
    BY <2>1, <2>2 DEF SimType, HartType
  <2>4. OneReservation'
    BY <2>1, <2>2 DEF SimType, HartType, OneReservation
  <2>5. \A i \in Procs : procs'[i].mtip = procs[i].mtip
    BY <2>1 DEF SimType, HartType
  <2> QED
    BY <2>2, <2>3, <2>4, <2>5 DEF TimerTrue
<1>2. CASE Sc \/ Sw
  <2>1. UNCHANGED <<procs, regs, current_proc, at, shell>>
    BY <1>2 DEF Sc, Sw, Quiet
  <2>2. \E a : written' = Wrote(current_proc, a) \/ written' = written
    BY <1>2 DEF Sc, Sw
  <2>3. SimType'
    BY <2>1, <2>2, WroteType DEF SimType
  <2>4. OneReservation'
    BY <2>1, <2>2 DEF OneReservation, Wrote
  <2> QED
    BY <2>1, <2>3, <2>4 DEF TimerTrue
<1> QED
  BY <1>1, <1>2

LEMMA FaultsKeeps ==
  ASSUME SimInv, Faults
  PROVE  SimInv'
<1>1. /\ procs' = yield_load_reservation(procs, current_proc)
      /\ UNCHANGED <<regs, written, current_proc, at, shell>>
  BY DEF Faults, Quiet
<1>2. /\ procs' \in [Procs -> HartType]
      /\ \A i \in Procs :
           /\ procs'[i].mtip = procs[i].mtip
           /\ procs'[i].load_reservation # NoWord =>
                procs[i].load_reservation # NoWord
  BY <1>1, YieldEffect DEF SimInv, SimType
<1> QED
  BY <1>1, <1>2 DEF SimInv, SimType, OneReservation, TimerTrue

(* A store to a device: to timecmp, which is compared at once, to msip, or *)
(* to nothing, which traps.                                                *)
LEMMA MmioStoreKeeps ==
  ASSUME SimInv, MmioStore
  PROVE  SimInv'
<1> USE DEF SimInv
<1>1. UNCHANGED <<current_proc, at, written, shell>>
  BY DEF MmioStore, Quiet
<1>2. PICK a \in IoAddresses, v \in 0 .. MaxTime :
        LET d == bus_store(a)
            r == [regs EXCEPT !.timecmp[d.of] = v]
        IN  /\ regs' = IF d.to = "timecmp" THEN r ELSE regs
            /\ procs' = CASE d.to = "timecmp" -> increment(r, procs, 0)
                          [] d.to = "msip" -> [procs EXCEPT ![d.of].msip = v % 2 = 1]
                          [] OTHER -> yield_load_reservation(procs, current_proc)
  BY DEF MmioStore
<1> DEFINE d == bus_store(a)
           r == [regs EXCEPT !.timecmp[d.of] = v]
<1> HIDE DEF d
<1>3. CASE d.to = "timecmp"
  <2>1. regs' = r /\ procs' = increment(r, procs, 0)
    BY <1>2, <1>3 DEF d
  <2>2. r \in ClockType
    BY DEF SimType, ClockType
  <2>3. /\ procs' \in [Procs -> HartType]
        /\ \A i \in Procs :
             /\ procs'[i].load_reservation = procs[i].load_reservation
             /\ procs'[i].mtip = (r.time + 0 >= r.timecmp[i])
    <3> HIDE DEF r
    <3> QED
      BY <2>1, <2>2, IncrementEffect DEF SimType
  <2>4. r.time + 0 = r.time
    BY <2>2 DEF ClockType
  <2> HIDE DEF r
  <2>5. TimerTrue'
    BY <2>1, <2>3, <2>4 DEF TimerTrue
  <2> QED
    BY <1>1, <2>1, <2>2, <2>3, <2>5 DEF SimType, OneReservation
<1>4. CASE d.to = "msip"
  <2>1. regs' = regs /\ procs' = [procs EXCEPT ![d.of].msip = v % 2 = 1]
    BY <1>2, <1>4 DEF d
  <2>2. /\ procs' \in [Procs -> HartType]
        /\ \A i \in Procs : /\ procs'[i].load_reservation = procs[i].load_reservation
                             /\ procs'[i].mtip = procs[i].mtip
    BY <2>1 DEF SimType, HartType
  <2> QED
    BY <1>1, <2>1, <2>2 DEF SimType, OneReservation, TimerTrue
<1>5. CASE d.to # "timecmp" /\ d.to # "msip"
  <2>1. regs' = regs /\ procs' = yield_load_reservation(procs, current_proc)
    BY <1>2, <1>5 DEF d
  <2>2. /\ procs' \in [Procs -> HartType]
        /\ \A i \in Procs :
             /\ procs'[i].mtip = procs[i].mtip
             /\ procs'[i].load_reservation # NoWord =>
                  procs[i].load_reservation # NoWord
    BY <2>1, YieldEffect DEF SimType
  <2> QED
    BY <1>1, <2>1, <2>2 DEF SimType, OneReservation, TimerTrue
<1> QED
  BY <1>3, <1>4, <1>5

(* The end of a turn gives the reservation up before the host runs and     *)
(* before another hart does.                                               *)
LEMMA EndCallKeeps ==
  ASSUME SimInv, EndCall
  PROVE  SimInv'
<1> USE DEF SimInv
<1> DEFINE step == current_step + Accounted
           next == (current_proc + 1) % NPROCS
           tick == step = INTERLEAVE /\ next = 0
           ps == IF step = INTERLEAVE THEN yield_load_reservation(procs, current_proc)
                                      ELSE procs
<1>1. /\ current_proc' = IF step = INTERLEAVE THEN next ELSE current_proc
      /\ procs' = IF tick THEN increment(regs, ps, TICKS) ELSE ps
      /\ regs' = IF tick THEN Tick(regs, TICKS) ELSE regs
      /\ at' = "host" => step = INTERLEAVE
      /\ UNCHANGED <<written, shell>>
  BY DEF EndCall, SimType, ShellType
<1>2. /\ ps \in [Procs -> HartType]
      /\ \A i \in Procs :
           /\ ps[i].mtip = procs[i].mtip
           /\ ps[i].load_reservation # NoWord =>
                /\ procs[i].load_reservation # NoWord
                /\ step = INTERLEAVE => i # current_proc
  BY YieldEffect DEF SimType
<1>3. next \in Procs
  BY NextProc DEF SimType
<1> HIDE DEF step, next, ps
<1>4. /\ procs' \in [Procs -> HartType]
      /\ regs' \in ClockType
      /\ \A i \in Procs : procs'[i].load_reservation = ps[i].load_reservation
  <2>1. CASE tick
    <3>1. procs' = increment(regs, ps, TICKS) /\ regs' = Tick(regs, TICKS)
      BY <1>1, <2>1
    <3> HIDE DEF tick
    <3> QED
      BY <1>2, <3>1, IncrementEffect, TickEffect, SimConstants DEF SimType
  <2>2. CASE ~tick
    BY <1>1, <1>2, <2>2 DEF SimType
  <2> QED
    BY <2>1, <2>2
<1>5. TimerTrue'
  <2>1. CASE tick
    <3>1. \A i \in Procs : procs'[i].mtip = (regs.time + TICKS >= regs.timecmp[i])
      BY <1>1, <1>2, <2>1, IncrementEffect, SimConstants DEF SimType
    <3>2. /\ regs'.timecmp = regs.timecmp
          /\ \A i \in Procs :
               (regs.time + TICKS >= regs.timecmp[i]) = (regs'.time >= regs.timecmp[i])
      BY <1>1, <2>1, TickEffect, SimConstants DEF SimType
    <3> QED
      BY <3>1, <3>2 DEF TimerTrue
  <2>2. CASE ~tick
    BY <1>1, <1>2, <2>2 DEF TimerTrue
  <2> QED
    BY <2>1, <2>2
<1>6. OneReservation'
  BY <1>1, <1>2, <1>4 DEF OneReservation
<1>7. SimType'
  BY <1>1, <1>3, <1>4 DEF SimType
<1> QED
  BY <1>5, <1>6, <1>7

(* The host writes memory while nobody has a reservation to lose.          *)
LEMMA HostTurnKeeps ==
  ASSUME SimInv, HostTurn
  PROVE  SimInv'
<1>1. UNCHANGED <<procs, regs, current_proc>> /\ at = "host"
  BY DEF HostTurn
<1>2. \A i \in Procs : procs[i].load_reservation = NoWord
  BY <1>1 DEF SimInv, OneReservation
<1>3. written' \in [Procs -> BOOLEAN]
  BY WroteType DEF HostTurn, SimInv, SimType
<1>4. SimType'
  BY <1>1, <1>3 DEF HostTurn, SimInv, SimType, ShellType
<1> QED
  BY <1>1, <1>2, <1>4 DEF SimInv, OneReservation, TimerTrue

(* The prompt and the main loop move the control only, and not to the      *)
(* host.                                                                   *)
LEMMA ShellKeeps ==
  ASSUME SimInv, \/ Main \/ Command \/ EmptyLine \/ Leave \/ interactive_run
                 \/ interactive_until \/ handle_signal
  PROVE  SimInv'
<1>1. UNCHANGED <<procs, regs, current_proc, written>>
  BY DEF Main, Command, EmptyLine, Leave, interactive_run, interactive_until,
         handle_signal, Idle
<1>2. at' = "host" => at = "host"
  BY DEF Main, Command, EmptyLine, Leave, interactive_run, interactive_until,
         handle_signal, StepFor
<1>3. SimType'
  <2>1. shell' \in ShellType
    <3>1. CASE Main \/ EmptyLine \/ Leave \/ interactive_until \/ handle_signal
      BY <3>1 DEF SimInv, SimType, ShellType, Main, EmptyLine, Leave, interactive_until,
         handle_signal
    <3>2. CASE Command
      <4>1. /\ RunCounts \cup {-1} \subseteq Int
            /\ shell \in ShellType
        BY SimConstants DEF SimInv, SimType
      <4> QED
        BY <3>2, <4>1 DEF ShellType, Command
    <3>3. CASE interactive_run
      BY <3>3 DEF SimInv, SimType, ShellType, interactive_run
    <3> QED
      BY <3>1, <3>2, <3>3
  <2> QED
    BY <1>1, <2>1 DEF SimInv, SimType
<1> QED
  BY <1>1, <1>2, <1>3 DEF SimInv, OneReservation, TimerTrue

LEMMA SimInvInductive == SimInv /\ [SimNext]_svars => SimInv'
<1> SUFFICES ASSUME SimInv, [SimNext]_svars PROVE SimInv'
  OBVIOUS
<1>1. CASE UNCHANGED svars
  BY <1>1 DEF svars, SimInv, SimType, OneReservation, TimerTrue
<1> QED
  BY <1>1, MemoryKeeps, FaultsKeeps, MmioStoreKeeps, EndCallKeeps, HostTurnKeeps,
     ShellKeeps DEF SimNext, SimRuns

LEMMA SimInvariant == SimSpec => []SimInv
  BY SimInvInit, SimInvInductive, PTL DEF SimSpec

(* A store-conditional that succeeds is atomic, for any number of harts,   *)
(* any length of a turn and any way the user cuts turns into steps         *)
(* (sim_t::step, processor_t::yield_load_reservation).                     *)
THEOREM ScAtomicHolds == SimSpec => []ScAtomic
<1>1. SimInv => ScAtomic
  BY DEF SimInv, SimType, OneReservation, ScAtomic
<1> QED
  BY <1>1, SimInvariant, PTL

(* The timer interrupt is pending exactly while the time has come, for any *)
(* speed of the clock and whoever writes timecmp (rtc_t::increment).       *)
THEOREM TimerTrueHolds == SimSpec => []TimerTrue
<1>1. SimInv => TimerTrue
  BY DEF SimInv
<1> QED
  BY <1>1, SimInvariant, PTL

-----------------------------------------------------------------------------
(***************************************************************************)
(* CacheSim                                                                *)
(***************************************************************************)

SetsOf(c) == 0 .. Sets[c] - 1
WaysOf(c) == 0 .. Ways[c] - 1

(* A tag that is dirty is that of a line.                                  *)
Entries == {Invalid} \cup [line : Lines, dirty : BOOLEAN]

TagsType(t) ==
    /\ t = [c \in Caches |-> t[c]]
    /\ \A c \in Caches : t[c] \in [SetsOf(c) -> [WaysOf(c) -> Entries]]

(* Line l is in cache c, and known to be dirty there.                      *)
DirtyIn(c, t, l) == \E w \in check_tag(c, t, l) : t[c][l % Sets[c]][w].dirty

(* No cache holds a line twice.                                            *)
Single(c, t) == \A l \in Lines : \A v, w \in check_tag(c, t, l) : v = w

-----------------------------------------------------------------------------
LEMMA SetOfLine == \A c \in Caches, l \in Lines : l % Sets[c] \in SetsOf(c)
<1> TAKE c \in Caches, l \in Lines
<1>1. l \in Nat /\ Sets[c] \in Nat \ {0}
  BY CacheConstants
<1> QED
  BY <1>1 DEF SetsOf

LEMMA EntryType ==
  /\ Invalid \in Entries
  /\ \A e \in Entries : e.dirty \in BOOLEAN /\ (e.dirty => e.line \in Lines)
  /\ \A l \in Lines, b \in BOOLEAN : [line |-> l, dirty |-> b] \in Entries
<1>1. Invalid.dirty = FALSE
  BY DEF Invalid
<1>2. \A e \in [line : Lines, dirty : BOOLEAN] : e.dirty \in BOOLEAN /\ e.line \in Lines
  OBVIOUS
<1>3. \A l \in Lines, b \in BOOLEAN : [line |-> l, dirty |-> b] \in [line : Lines, dirty : BOOLEAN]
  OBVIOUS
<1> QED
  BY <1>1, <1>2, <1>3 DEF Entries

(* A line that is there can be marked.                                     *)
LEMMA MarkedEntry ==
  ASSUME NEW e \in Entries, e.line \in Lines, NEW b \in BOOLEAN
  PROVE  /\ [e EXCEPT !.dirty = b] \in Entries
         /\ [e EXCEPT !.dirty = b].line = e.line
         /\ [e EXCEPT !.dirty = b].dirty = b
<1>1. -1 \notin Lines
  BY CacheConstants
<1>2. e \in [line : Lines, dirty : BOOLEAN]
  BY <1>1 DEF Entries, Invalid
<1> QED
  BY <1>2 DEF Entries

(* What a hit and a miss do to a tag.                                      *)
Mark(t, c, s, w, store) == [t EXCEPT ![c][s][w].dirty = @ \/ store]
Put(t, c, s, w, e) == [t EXCEPT ![c][s][w] = e]

(* Writing one tag leaves the others alone.                                *)
LEMMA OneTag ==
  ASSUME NEW t, TagsType(t), NEW c \in Caches, NEW s \in SetsOf(c), NEW w \in WaysOf(c),
         NEW e \in Entries
  PROVE  /\ TagsType(Put(t, c, s, w, e))
         /\ \A d \in Caches : d # c => Put(t, c, s, w, e)[d] = t[d]
         /\ \A x \in SetsOf(c), y \in WaysOf(c) :
              Put(t, c, s, w, e)[c][x][y] = IF x = s /\ y = w THEN e ELSE t[c][x][y]
  BY DEF TagsType, Put

(* A hit: the line is marked when it is stored to.                         *)
LEMMA MarkEffect ==
  ASSUME NEW t, NEW c \in Caches, NEW l \in Lines, TagsType(t), Single(c, t),
         NEW w \in check_tag(c, t, l), NEW store \in BOOLEAN,
         NEW v, v = Mark(t, c, l % Sets[c], w, store)
  PROVE  /\ TagsType(v) /\ Single(c, v)
         /\ \A d \in Caches : d # c => v[d] = t[d]
         /\ \A k \in Lines : DirtyIn(c, t, k) => DirtyIn(c, v, k)
         /\ store => DirtyIn(c, v, l)
<1> DEFINE s == l % Sets[c]
           e == [t[c][s][w] EXCEPT !.dirty = t[c][s][w].dirty \/ store]
           u == Put(t, c, s, w, e)
<1>1. s \in SetsOf(c) /\ w \in WaysOf(c) /\ t[c][s][w].line = l
  BY SetOfLine DEF check_tag, WaysOf
<1>2. t[c][s][w] \in Entries
  BY <1>1 DEF TagsType
<1>3. /\ e \in Entries /\ e.line = l
      /\ store => e.dirty
      /\ t[c][s][w].dirty => e.dirty
  <2> DEFINE b == t[c][s][w].dirty \/ store
  <2>1. b \in BOOLEAN
    OBVIOUS
  <2>2. e = [t[c][s][w] EXCEPT !.dirty = b]
    OBVIOUS
  <2>3. (store => b) /\ (t[c][s][w].dirty => b)
    OBVIOUS
  <2> HIDE DEF b, e
  <2> QED
    BY <1>1, <1>2, <2>1, <2>2, <2>3, MarkedEntry
<1>4. v = u
  BY <1>1 DEF TagsType, Mark, Put
<1> HIDE DEF e
<1>5. /\ TagsType(u)
      /\ \A d \in Caches : d # c => u[d] = t[d]
      /\ \A x \in SetsOf(c), y \in WaysOf(c) :
           u[c][x][y] = IF x = s /\ y = w THEN e ELSE t[c][x][y]
  BY <1>1, <1>3, OneTag
<1> HIDE DEF u
<1>6. ASSUME NEW k \in Lines
      PROVE  /\ check_tag(c, u, k) = check_tag(c, t, k)
             /\ \A y \in check_tag(c, t, k) :
                  t[c][k % Sets[c]][y].dirty => u[c][k % Sets[c]][y].dirty
  <2>1. k % Sets[c] \in SetsOf(c)
    BY SetOfLine
  <2>2. ASSUME NEW y \in WaysOf(c)
        PROVE  /\ u[c][k % Sets[c]][y].line = t[c][k % Sets[c]][y].line
               /\ t[c][k % Sets[c]][y].dirty => u[c][k % Sets[c]][y].dirty
    BY <1>1, <1>3, <1>5, <2>1
  <2> QED
    BY <2>2 DEF check_tag, WaysOf
<1>7. Single(c, u)
  BY <1>6 DEF Single
<1>8. \A k \in Lines : DirtyIn(c, t, k) => DirtyIn(c, u, k)
  BY <1>6 DEF DirtyIn
<1>9. store => DirtyIn(c, u, l)
  BY <1>1, <1>3, <1>5, <1>6 DEF DirtyIn
<1> QED
  BY <1>4, <1>5, <1>7, <1>8, <1>9

(* A miss: the line takes the place of another, which is dropped.          *)
LEMMA FillEffect ==
  ASSUME NEW t, NEW c \in Caches, NEW l \in Lines, TagsType(t), Single(c, t),
         check_tag(c, t, l) = {}, NEW w \in WaysOf(c), NEW store \in BOOLEAN,
         NEW u, u = Put(t, c, l % Sets[c], w, [line |-> l, dirty |-> store])
  PROVE  /\ TagsType(u) /\ Single(c, u)
         /\ \A d \in Caches : d # c => u[d] = t[d]
         /\ \A k \in Lines : DirtyIn(c, t, k) =>
              \/ DirtyIn(c, u, k)
              \/ /\ t[c][l % Sets[c]][w].dirty
                 /\ t[c][l % Sets[c]][w].line = k
         /\ store => DirtyIn(c, u, l)
<1> DEFINE s == l % Sets[c]
           e == [line |-> l, dirty |-> store]
<1>1. s \in SetsOf(c) /\ e \in Entries /\ e.line = l /\ e.dirty = store
  BY SetOfLine, EntryType
<1> HIDE DEF e
<1>2. /\ TagsType(u)
      /\ \A d \in Caches : d # c => u[d] = t[d]
      /\ \A x \in SetsOf(c), y \in WaysOf(c) :
           u[c][x][y] = IF x = s /\ y = w THEN e ELSE t[c][x][y]
  <2>1. u = Put(t, c, s, w, e)
    BY DEF e
  <2> QED
    BY <1>1, <2>1, OneTag
<1>3. ASSUME NEW k \in Lines, NEW y \in check_tag(c, u, k)
      PROVE  IF k = l THEN y = w ELSE y \in check_tag(c, t, k)
  BY <1>1, <1>2, SetOfLine DEF check_tag, WaysOf
<1>4. Single(c, u)
  BY <1>3 DEF Single
<1>5. ASSUME NEW k \in Lines, DirtyIn(c, t, k), ~(t[c][s][w].dirty /\ t[c][s][w].line = k)
      PROVE  DirtyIn(c, u, k)
  <2>1. PICK y \in check_tag(c, t, k) : t[c][k % Sets[c]][y].dirty
    BY <1>5 DEF DirtyIn
  <2>2. k % Sets[c] \in SetsOf(c) /\ y \in WaysOf(c) /\ t[c][k % Sets[c]][y].line = k
    BY <2>1, SetOfLine DEF check_tag, WaysOf
  <2>3. u[c][k % Sets[c]][y] = t[c][k % Sets[c]][y]
    BY <1>2, <1>5, <2>1, <2>2
  <2>4. y \in check_tag(c, u, k)
    BY <2>2, <2>3 DEF check_tag, WaysOf
  <2> QED
    BY <2>1, <2>3, <2>4 DEF DirtyIn
<1>6. ASSUME store
      PROVE  DirtyIn(c, u, l)
  <2>1. u[c][s][w] = e
    BY <1>1, <1>2
  <2>2. w \in check_tag(c, u, l)
    BY <1>1, <2>1 DEF check_tag, WaysOf
  <2> QED
    BY <1>1, <1>6, <2>1, <2>2 DEF DirtyIn
<1> QED
  BY <1>2, <1>4, <1>5, <1>6

-----------------------------------------------------------------------------
(***************************************************************************)
(* The accesses.                                                           *)
(***************************************************************************)

LEMMA VictimWay ==
  ASSUME NEW c, NEW t, NEW l, NEW w \in victimize(c, t, l)
  PROVE  w \in WaysOf(c)
<1> DEFINE free == {x \in 0 .. Ways[c] - 1 : t[c][l % Sets[c]][x] = Invalid}
<1>1. free # {} => (CHOOSE x \in free : TRUE) \in free
  OBVIOUS
<1> QED
  BY <1>1 DEF victimize, WaysOf

(* An access to the second level keeps what is dirty there, or writes it   *)
(* back, and touches no other cache.                                       *)
LEMMA Access2Effect ==
  ASSUME NEW t, NEW l \in Lines, NEW store \in BOOLEAN, TagsType(t), Single("L2$", t),
         NEW o \in access2(t, l, store)
  PROVE  /\ TagsType(o.tags) /\ Single("L2$", o.tags)
         /\ \A d \in Caches : d # "L2$" => o.tags[d] = t[d]
         /\ \A k \in Lines : DirtyIn("L2$", t, k) => DirtyIn("L2$", o.tags, k) \/ k \in o.saved
         /\ store => DirtyIn("L2$", o.tags, l)
<1>0. "L2$" \in Caches
  BY DEF Caches
<1> DEFINE hit == check_tag("L2$", t, l)
           s == l % Sets["L2$"]
<1>1. CASE hit # {}
  <2> DEFINE w == CHOOSE x \in hit : TRUE
  <2>1. w \in hit
    BY <1>1
  <2>2. o.tags = Mark(t, "L2$", s, w, store)
    BY <1>1 DEF access2, Mark
  <2> HIDE DEF w
  <2> QED
    BY <1>0, <2>1, <2>2, MarkEffect
<1>2. CASE hit = {}
  <2> DEFINE e == [line |-> l, dirty |-> store]
             saved(w) == IF t["L2$"][s][w].dirty THEN {t["L2$"][s][w].line} ELSE {}
  <2>0. access2(t, l, store) = {[tags |-> Put(t, "L2$", s, w, e), saved |-> saved(w)] :
                                  w \in victimize("L2$", t, l)}
    BY <1>2 DEF access2, Put
  <2> HIDE DEF e, saved
  <2>1. PICK w \in victimize("L2$", t, l) :
          o.tags = Put(t, "L2$", s, w, e) /\ o.saved = saved(w)
    BY <2>0
  <2>2. w \in WaysOf("L2$")
    BY VictimWay
  <2>3. /\ TagsType(o.tags) /\ Single("L2$", o.tags)
        /\ \A d \in Caches : d # "L2$" => o.tags[d] = t[d]
        /\ \A k \in Lines : DirtyIn("L2$", t, k) =>
             \/ DirtyIn("L2$", o.tags, k)
             \/ t["L2$"][s][w].dirty /\ t["L2$"][s][w].line = k
        /\ store => DirtyIn("L2$", o.tags, l)
    BY <1>0, <1>2, <2>1, <2>2, FillEffect DEF e
  <2> QED
    BY <2>1, <2>3 DEF saved
<1> QED
  BY <1>1, <1>2

(* DirtyIn and Single look at their own cache only.                        *)
LEMMA OwnCache ==
  ASSUME NEW t, NEW u, NEW c, u[c] = t[c]
  PROVE  /\ Single(c, t) <=> Single(c, u)
         /\ \A k \in Lines : DirtyIn(c, t, k) <=> DirtyIn(c, u, k)
  BY DEF Single, DirtyIn, check_tag

(* An access to a first-level cache.  What is dirty there stays or goes    *)
(* down; what is dirty in the second level, or comes down to it, stays or  *)
(* is written back.                                                        *)
LEMMA AccessEffect ==
  ASSUME NEW t, NEW c \in {"I$", "D$"}, NEW l \in Lines, NEW store \in BOOLEAN,
         TagsType(t), \A d \in Caches : Single(d, t), NEW o \in access(c, t, l, store)
  PROVE  /\ TagsType(o.tags) /\ \A d \in Caches : Single(d, o.tags)
         /\ \A d \in Caches : d # "L2$" /\ d # c => o.tags[d] = t[d]
         /\ \A k \in Lines : DirtyIn(c, t, k) => DirtyIn(c, o.tags, k) \/ k \in o.down
         /\ store => DirtyIn(c, o.tags, l)
         /\ \A k \in Lines : DirtyIn("L2$", t, k) \/ k \in o.down =>
                               DirtyIn("L2$", o.tags, k) \/ k \in o.saved
<1>0. c \in Caches /\ c # "L2$" /\ "L2$" \in Caches
  BY DEF Caches
<1> DEFINE hit == check_tag(c, t, l)
           s == l % Sets[c]
<1>1. CASE hit # {}
  <2> DEFINE w == CHOOSE x \in hit : TRUE
  <2>1. w \in hit
    BY <1>1
  <2>2. /\ o.tags = Mark(t, c, s, w, store)
        /\ o.down = {}
    BY <1>1 DEF access, Mark
  <2> HIDE DEF w
  <2>3. /\ TagsType(o.tags) /\ Single(c, o.tags)
        /\ \A d \in Caches : d # c => o.tags[d] = t[d]
        /\ \A k \in Lines : DirtyIn(c, t, k) => DirtyIn(c, o.tags, k)
        /\ store => DirtyIn(c, o.tags, l)
    BY <1>0, <2>1, <2>2, MarkEffect
  <2>4. ASSUME NEW d \in Caches
        PROVE  Single(d, o.tags)
    BY <2>3, OwnCache
  <2>5. \A k \in Lines : DirtyIn("L2$", t, k) => DirtyIn("L2$", o.tags, k)
    BY <1>0, <2>3, OwnCache
  <2> QED
    BY <2>2, <2>3, <2>4, <2>5
<1>2. CASE hit = {}
  <2> DEFINE fill(w) == Put(t, c, s, w, [line |-> l, dirty |-> store])
             down(w) == IF Victim(c, t, l, w).dirty THEN {Victim(c, t, l, w).line} ELSE {}
             wrote(w) == {[tags |-> fill(w), saved |-> {}] : v \in {v \in {1} : down(w) = {}}}
                         \cup UNION {access2(fill(w), v, TRUE) : v \in down(w)}
             miss(w) == UNION {{[tags |-> r.tags, down |-> down(w), saved |-> o1.saved \cup r.saved] :
                                  r \in access2(o1.tags, l, FALSE)} : o1 \in wrote(w)}
  <2>1. PICK w \in victimize(c, t, l) : o \in miss(w)
    BY <1>2 DEF access, Put
  <2>a. PICK o1 \in wrote(w) : \E r \in access2(o1.tags, l, FALSE) :
          o = [tags |-> r.tags, down |-> down(w), saved |-> o1.saved \cup r.saved]
    BY <2>1
  <2>2. PICK r \in access2(o1.tags, l, FALSE) :
          o = [tags |-> r.tags, down |-> down(w), saved |-> o1.saved \cup r.saved]
    BY <2>a
  <2>3. o.tags = r.tags /\ o.down = down(w) /\ o.saved = o1.saved \cup r.saved
    BY <2>2
  <2> DEFINE f == fill(w)
             g == down(w)
  <2>4. w \in WaysOf(c) /\ s \in SetsOf(c)
    BY <1>0, VictimWay, SetOfLine
  <2>5. /\ TagsType(f) /\ Single(c, f)
        /\ \A d \in Caches : d # c => f[d] = t[d]
        /\ \A k \in Lines : DirtyIn(c, t, k) =>
             \/ DirtyIn(c, f, k)
             \/ t[c][s][w].dirty /\ t[c][s][w].line = k
        /\ store => DirtyIn(c, f, l)
    BY <1>0, <1>2, <2>4, FillEffect
  <2>6. /\ g \subseteq Lines
        /\ \A k \in Lines : DirtyIn(c, t, k) => DirtyIn(c, f, k) \/ k \in g
    <3>1. t[c][s][w] \in Entries
      BY <1>0, <2>4 DEF TagsType
    <3> QED
      BY <2>5, <3>1, EntryType DEF Victim
  <2>7. (o1 = [tags |-> f, saved |-> {}] /\ g = {}) \/ \E v \in g : o1 \in access2(f, v, TRUE)
    BY <2>a
  <2>8. g = {} \/ \E v : g = {v}
    OBVIOUS
  <2> HIDE DEF f, g, fill, down, wrote, miss
  <2>9. Single("L2$", f) /\ \A k \in Lines : DirtyIn("L2$", t, k) => DirtyIn("L2$", f, k)
    BY <1>0, <2>5, OwnCache
  <2>10. /\ TagsType(o1.tags) /\ Single("L2$", o1.tags)
         /\ \A d \in Caches : d # "L2$" => o1.tags[d] = f[d]
         /\ \A k \in Lines : DirtyIn("L2$", f, k) \/ k \in g =>
                               DirtyIn("L2$", o1.tags, k) \/ k \in o1.saved
    <3>1. CASE o1 = [tags |-> f, saved |-> {}] /\ g = {}
      BY <2>5, <2>9, <3>1
    <3>2. CASE \E v \in g : o1 \in access2(f, v, TRUE)
      <4>1. PICK v \in g : o1 \in access2(f, v, TRUE)
        BY <3>2
      <4>2. v \in Lines /\ g = {v}
        BY <2>6, <2>8, <4>1
      <4>3. /\ TagsType(o1.tags) /\ Single("L2$", o1.tags)
            /\ \A d \in Caches : d # "L2$" => o1.tags[d] = f[d]
            /\ \A k \in Lines : DirtyIn("L2$", f, k) => DirtyIn("L2$", o1.tags, k) \/ k \in o1.saved
            /\ DirtyIn("L2$", o1.tags, v)
        BY <2>5, <2>9, <4>1, <4>2, Access2Effect
      <4> QED
        BY <4>2, <4>3
    <3> QED
      BY <2>7, <3>1, <3>2
  <2>11. /\ TagsType(r.tags) /\ Single("L2$", r.tags)
         /\ \A d \in Caches : d # "L2$" => r.tags[d] = o1.tags[d]
         /\ \A k \in Lines : DirtyIn("L2$", o1.tags, k) => DirtyIn("L2$", r.tags, k) \/ k \in r.saved
    BY <2>10, Access2Effect
  <2>12. \A d \in Caches : d # "L2$" => o.tags[d] = f[d]
    BY <2>3, <2>10, <2>11
  <2>13. ASSUME NEW d \in Caches
         PROVE  Single(d, o.tags)
    <3>1. CASE d = "L2$"
      BY <2>3, <2>11, <3>1
    <3>2. CASE d # "L2$"
      <4>1. o.tags[d] = f[d]
        BY <2>12, <3>2
      <4>2. Single(d, f)
        BY <2>5, OwnCache
      <4> QED
        BY <4>1, <4>2, OwnCache
    <3> QED
      BY <3>1, <3>2
  <2>14. /\ store => DirtyIn(c, o.tags, l)
         /\ \A k \in Lines : DirtyIn(c, t, k) => DirtyIn(c, o.tags, k) \/ k \in g
    <3>1. o.tags[c] = f[c]
      BY <1>0, <2>12
    <3>2. \A k \in Lines : DirtyIn(c, f, k) <=> DirtyIn(c, o.tags, k)
      BY <3>1, OwnCache
    <3> QED
      BY <2>5, <2>6, <3>2
  <2>15. \A k \in Lines : DirtyIn("L2$", t, k) \/ k \in g =>
                          DirtyIn("L2$", o.tags, k) \/ k \in o.saved
    BY <2>3, <2>9, <2>10, <2>11
  <2> QED
    BY <2>3, <2>5, <2>11, <2>12, <2>13, <2>14, <2>15 DEF g
<1> QED
  BY <1>1, <1>2

-----------------------------------------------------------------------------
(* The inductive invariant: every cache holds a line at most once, and     *)
(* whoever has the last value of a line knows that it is dirty.            *)
CacheInv ==
    /\ TagsType(tags)
    /\ newest \in [Lines -> {"memory", "D$", "L2$"}]
    /\ \A c \in Caches : Single(c, tags)
    /\ \A l \in Lines : newest[l] # "memory" => DirtyIn(newest[l], tags, l)

LEMMA TraceKeeps ==
  ASSUME CacheInv, NEW c \in {"I$", "D$"}, NEW line \in Lines, NEW store \in BOOLEAN,
         store => c = "D$", Trace(c, line, store)
  PROVE  CacheInv'
<1>0. "D$" \in Caches /\ "L2$" \in Caches /\ "D$" # "L2$"
  BY DEF Caches
<1>1. PICK o \in access(c, tags, line, store) :
        /\ tags' = o.tags
        /\ newest' = [l \in Lines |->
             IF store /\ l = line THEN "D$"
             ELSE IF l \in o.saved /\ (l \in o.down \/ newest[l] = "L2$") THEN "memory"
             ELSE IF l \in o.down THEN "L2$" ELSE newest[l]]
  BY DEF Trace
<1>2. /\ TagsType(o.tags) /\ \A d \in Caches : Single(d, o.tags)
      /\ \A d \in Caches : d # "L2$" /\ d # c => o.tags[d] = tags[d]
      /\ \A k \in Lines : DirtyIn(c, tags, k) => DirtyIn(c, o.tags, k) \/ k \in o.down
      /\ store => DirtyIn(c, o.tags, line)
      /\ \A k \in Lines : DirtyIn("L2$", tags, k) \/ k \in o.down =>
                            DirtyIn("L2$", o.tags, k) \/ k \in o.saved
  BY AccessEffect DEF CacheInv
<1>3. newest' \in [Lines -> {"memory", "D$", "L2$"}]
  BY <1>1 DEF CacheInv
<1>4. \A k \in Lines : DirtyIn("D$", tags, k) => DirtyIn("D$", o.tags, k) \/ k \in o.down
  <2>1. CASE c = "D$"
    BY <1>2, <2>1
  <2>2. CASE c # "D$"
    BY <1>0, <1>2, <2>2, OwnCache
  <2> QED
    BY <2>1, <2>2
<1>5. ASSUME NEW l \in Lines, newest'[l] # "memory"
      PROVE  DirtyIn(newest'[l], o.tags, l)
  <2>1. CASE store /\ l = line
    BY <1>1, <1>2, <2>1
  <2>2. CASE ~(store /\ l = line) /\ l \in o.down
    <3>1. newest'[l] = "L2$" /\ l \notin o.saved
      BY <1>1, <1>5, <2>2
    <3> QED
      BY <1>2, <2>2, <3>1
  <2>3. CASE ~(store /\ l = line) /\ l \notin o.down
    <3>1. newest'[l] = newest[l] /\ ~(l \in o.saved /\ newest[l] = "L2$")
      BY <1>1, <1>5, <2>3
    <3>2. DirtyIn(newest[l], tags, l) /\ newest[l] \in {"D$", "L2$"}
      BY <1>5, <3>1 DEF CacheInv
    <3> QED
      BY <1>2, <1>4, <2>3, <3>1, <3>2
  <2> QED
    BY <2>1, <2>2, <2>3
<1> QED
  BY <1>1, <1>2, <1>3, <1>5 DEF CacheInv

LEMMA CacheInvInductive == CacheInv /\ [CacheNext]_cvars => CacheInv'
<1> SUFFICES ASSUME CacheInv, [CacheNext]_cvars PROVE CacheInv'
  OBVIOUS
<1>1. CASE FetchTraced
  BY <1>1, TraceKeeps DEF FetchTraced
<1>2. CASE LoadTraced
  BY <1>2, TraceKeeps DEF LoadTraced
<1>3. CASE StoreTraced
  BY <1>3, TraceKeeps DEF StoreTraced
<1>4. CASE UNCHANGED cvars
  BY <1>4 DEF cvars, CacheInv
<1> QED
  BY <1>1, <1>2, <1>3, <1>4 DEF CacheNext

LEMMA CacheInvInit == CacheInit => CacheInv
<1> SUFFICES ASSUME CacheInit PROVE CacheInv
  OBVIOUS
<1>1. TagsType(tags) /\ \A c \in Caches : \A s \in SetsOf(c), w \in WaysOf(c) :
                          tags[c][s][w].line = -1
  BY EntryType DEF CacheInit, TagsType, SetsOf, WaysOf, Invalid
<1>2. ASSUME NEW c \in Caches, NEW l \in Lines
      PROVE  check_tag(c, tags, l) = {}
  <2>1. l % Sets[c] \in SetsOf(c) /\ l # -1
    BY SetOfLine, CacheConstants
  <2> QED
    BY <1>1, <2>1 DEF check_tag, WaysOf
<1> QED
  BY <1>1, <1>2 DEF CacheInv, CacheInit, Single

(* The last value stored to a line is never dropped by a victim's          *)
(* write-back, for any number of sets and ways, though the write-back and  *)
(* the fill that follows it may evict each other's lines from the second   *)
(* level (cache_sim_t::access); and no cache holds a line twice.           *)
THEOREM DirtyKeptHolds == CacheSpec => []DirtyKept
<1>1. CacheInv => DirtyKept
  <2> SUFFICES ASSUME CacheInv PROVE DirtyKept
    OBVIOUS
  <2>1. \A l \in Lines : newest[l] # "memory" =>
          \E w \in check_tag(newest[l], tags, l) : tags[newest[l]][l % Sets[newest[l]]][w].dirty
    BY DEF CacheInv, DirtyIn
  <2>2. ASSUME NEW c \in Caches, NEW l \in Lines
        PROVE  Cardinality(check_tag(c, tags, l)) <= 1
    <3>1. CASE check_tag(c, tags, l) = {}
      BY <3>1, FS_EmptySet
    <3>2. CASE check_tag(c, tags, l) # {}
      <4>1. PICK w \in check_tag(c, tags, l) : TRUE
        BY <3>2
      <4>2. check_tag(c, tags, l) = {w}
        BY <4>1 DEF CacheInv, Single
      <4>3. Cardinality({w}) = 1
        BY FS_Singleton
      <4> QED
        BY <4>2, <4>3
    <3> QED
      BY <3>1, <3>2
  <2>3. DOMAIN tags = Caches
    BY DEF CacheInv, TagsType
  <2> QED
    BY <2>1, <2>2, <2>3 DEF DirtyKept
<1> QED
  BY <1>1, CacheInvInit, CacheInvInductive, PTL DEF CacheSpec
==============================================================================
