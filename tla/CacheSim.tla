------------------------------ MODULE CacheSim ------------------------------
(***************************************************************************)
(* The cache model of the simulator (riscv/cachesim.cc): an instruction    *)
(* and a data cache that share a second level, write-back and              *)
(* write-allocate, with a victim chosen by a shift register.  An address   *)
(* is its line; the line sizes are equal.                                  *)
(***************************************************************************)
EXTENDS Integers, FiniteSets, Sequences

CONSTANTS
    Lines,         \* lines of memory, numbered
    Sets, Ways,    \* of each cache, by its name: "I$", "D$", "L2$"
    FaWays         \* one set of more ways is made fully associative

Caches == {"I$", "D$", "L2$"}

\* cache_sim_t::init turns a cache without sets away.
ASSUME CacheConstants ==
    /\ Lines \subseteq Nat
    /\ \A c \in Caches : Sets[c] \in Nat \ {0} /\ Ways[c] \in Nat

VARIABLES
    tags,          \* cache -> set -> way -> line and its dirty bit
    newest         \* history: where the last value stored to a line is

cvars == <<tags, newest>>

Invalid == [line |-> -1, dirty |-> FALSE]

\* The way a line is in, if any
check_tag(c, t, line) ==
    {w \in 0 .. Ways[c] - 1 : t[c][line % Sets[c]][w].line = line}

\* What the shift register may choose: any way of a set-associative cache,
\* and, in a fully associative one (fa_cache_sim_t), any once it is full.
victimize(c, t, line) ==
    LET free == {w \in 0 .. Ways[c] - 1 : t[c][line % Sets[c]][w] = Invalid}
    IN  IF Sets[c] = 1 /\ Ways[c] > FaWays /\ free # {}
        THEN {CHOOSE w \in free : TRUE}
        ELSE 0 .. Ways[c] - 1

\* The second level: its outcomes, and what it writes back to memory
access2(t, line, store) ==
    LET s == line % Sets["L2$"]
        hit == check_tag("L2$", t, line)
    IN  IF hit # {}
        THEN {[tags |-> [t EXCEPT !["L2$"][s][CHOOSE w \in hit : TRUE].dirty = @ \/ store],
               saved |-> {}]}
        ELSE {[tags |-> [t EXCEPT !["L2$"][s][w] = [line |-> line, dirty |-> store]],
               saved |-> IF t["L2$"][s][w].dirty THEN {t["L2$"][s][w].line} ELSE {}] :
                w \in victimize("L2$", t, line)}

\* Mutant: the victim is looked at after its tag has been overwritten.
Victim_Overwritten(c, t, line, w) == [line |-> line, dirty |-> FALSE]

Victim(c, t, line, w) == t[c][line % Sets[c]][w]

\* A dirty victim is written to the second level, then the line is read from
\* there, then the store marks it.  The outcomes: the tags, the lines written
\* to the second level, and those it wrote back.
access(c, t, line, store) ==
    LET s == line % Sets[c]
        hit == check_tag(c, t, line)
        fill(w) == [t EXCEPT ![c][s][w] = [line |-> line, dirty |-> store]]
        down(w) == IF Victim(c, t, line, w).dirty THEN {Victim(c, t, line, w).line} ELSE {}
        wrote(w) == {[tags |-> fill(w), saved |-> {}] : v \in {v \in {1} : down(w) = {}}}
                    \cup UNION {access2(fill(w), v, TRUE) : v \in down(w)}
        miss(w) == UNION {{[tags |-> r.tags, down |-> down(w), saved |-> o.saved \cup r.saved] :
                             r \in access2(o.tags, line, FALSE)} : o \in wrote(w)}
    IN  IF hit # {}
        THEN {[tags |-> [t EXCEPT ![c][s][CHOOSE w \in hit : TRUE].dirty = @ \/ store],
               down |-> {}, saved |-> {}]}
        ELSE UNION {miss(w) : w \in victimize(c, t, line)}

\* icache_sim_t::trace, dcache_sim_t::trace
Trace(c, line, store) ==
    \E o \in access(c, tags, line, store) :
      /\ tags' = o.tags
      /\ newest' = [l \in Lines |->
           IF store /\ l = line THEN "D$"
           ELSE IF l \in o.saved /\ (l \in o.down \/ newest[l] = "L2$") THEN "memory"
           ELSE IF l \in o.down THEN "L2$" ELSE newest[l]]

FetchTraced == \E line \in Lines : Trace("I$", line, FALSE)
LoadTraced == \E line \in Lines : Trace("D$", line, FALSE)
StoreTraced == \E line \in Lines : Trace("D$", line, TRUE)

CacheInit ==
    /\ tags = [c \in Caches |->
                 [s \in 0 .. Sets[c] - 1 |-> [w \in 0 .. Ways[c] - 1 |-> Invalid]]]
    /\ newest = [l \in Lines |-> "memory"]
CacheNext == FetchTraced \/ LoadTraced \/ StoreTraced
CacheSpec == CacheInit /\ [][CacheNext]_cvars

-----------------------------------------------------------------------------
\* The last value stored to a line is never dropped: the cache that has it
\* knows that it is dirty, until the second level writes it back to memory;
\* and no cache holds a line twice, of which one copy could be left behind.
DirtyKept ==
    /\ \A l \in Lines : newest[l] # "memory" =>
         \E w \in check_tag(newest[l], tags, l) : tags[newest[l]][l % Sets[newest[l]]][w].dirty
    /\ \A c \in DOMAIN tags, l \in Lines : Cardinality(check_tag(c, tags, l)) <= 1
=============================================================================
