----------------------------- MODULE SpikeDecode -----------------------------
(***************************************************************************)
(* The opcode table of a simulated hart (processor_t::decode_insn,         *)
(* build_opcode_map, register_extension): sorted once, so that of the      *)
(* entries an instruction fits the most specific comes first, and then     *)
(* reordered at every lookup so that what is looked up often is found      *)
(* soon, with a direct-mapped cache in front of it.                        *)
(***************************************************************************)
EXTENDS Integers, Sequences, SequencesExt, TLC, Bitwise

CONSTANTS
    BaseInsns,         \* register_base_instructions: a sequence of [match, mask, name]
    ExtensionInsns,    \* those of an extension
    InsnWords,         \* instruction words the program holds
    OPCODE_CACHE_SIZE

Fits(w, e) == w & e.mask = e.match

\* Of the 196 instructions of insns/, as encoding.h has them, only c.ebreak,
\* c.jalr and c.add, and c.jr and c.mv, are fitted by a common word.
ASSUME OverlapsShareMatch ==
    \A e, f \in ToSet(BaseInsns \o ExtensionInsns), w \in InsnWords :
      Fits(w, e) /\ Fits(w, f) => e.match = f.match

VARIABLES
    instructions, opcode_cache,
    ext,               \* the extension is registered
    decoded            \* history: the last word looked up, and its name

dvars == <<instructions, opcode_cache, ext, decoded>>

Illegal == [match |-> 0, mask |-> 0, name |-> "illegal"]

\* The comparison build_opcode_map sorts with
Before(e, f) == IF e.match = f.match THEN e.mask > f.mask ELSE e.match > f.match

build_opcode_map(entries) == SortSeq(entries, Before)
EmptyCache == [i \in 0 .. OPCODE_CACHE_SIZE - 1 |-> [bits |-> 0, name |-> "illegal"]]

\* An entry with a neighbour of its own match is one of several that some
\* word fits: it keeps its place.
Alone(p) == /\ instructions[p].match # instructions[p - 1].match
            /\ instructions[p].match # instructions[p + 1].match

\* Mutant: every entry found moves to the front.
MovesToFront_Always(p) == instructions[p].mask # 0 /\ p > 1

MovesToFront(p) == instructions[p].mask # 0 /\ p > 1 /\ Alone(p)

decode_insn ==
    \E w \in InsnWords :
      LET idx == w % OPCODE_CACHE_SIZE
          p == CHOOSE i \in DOMAIN instructions :
                 /\ Fits(w, instructions[i])
                 /\ \A j \in 1 .. i - 1 : ~Fits(w, instructions[j])
          name == instructions[p].name
      IN  IF opcode_cache[idx].bits = w
          THEN /\ decoded' = <<w, opcode_cache[idx].name>>
               /\ UNCHANGED <<instructions, opcode_cache, ext>>
          ELSE /\ decoded' = <<w, name>>
               /\ opcode_cache' = [opcode_cache EXCEPT ![idx] = [bits |-> w, name |-> name]]
               /\ instructions' = IF MovesToFront(p)
                                  THEN <<instructions[p]>> \o RemoveAt(instructions, p)
                                  ELSE instructions
               /\ UNCHANGED ext

\* The table is sorted anew and the cache emptied.
register_extension ==
    /\ ~ext /\ ext' = TRUE
    /\ instructions' = build_opcode_map(instructions \o ExtensionInsns)
    /\ opcode_cache' = EmptyCache
    /\ UNCHANGED decoded

DecodeInit ==
    /\ instructions = build_opcode_map(BaseInsns \o <<Illegal>>)
    /\ opcode_cache = EmptyCache
    /\ ext = FALSE /\ decoded = <<>>
DecodeNext == decode_insn \/ register_extension
DecodeSpec == DecodeInit /\ [][DecodeNext]_dvars

-----------------------------------------------------------------------------
\* However often the table was reordered, and whatever the cache remembers, an
\* instruction decodes to the most specific entry that fits it.  (The word 0
\* is illegal either way.)
MostSpecific ==
    [][decoded' # decoded /\ decoded'[1] # 0 =>
         LET table == BaseInsns \o <<Illegal>> \o IF ext THEN ExtensionInsns ELSE <<>>
             fits == {e \in ToSet(table) : Fits(decoded'[1], e)}
         IN  \E e \in fits : /\ e.name = decoded'[2]
                             /\ \A f \in fits : f # e => Before(e, f)]_dvars
=============================================================================
