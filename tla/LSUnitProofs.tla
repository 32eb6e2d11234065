---------------------------- MODULE LSUnitProofs ----------------------------
(***************************************************************************)
(* Theorems about LSUnit, for every size of the queues, the ROB and the    *)
(* D-cache and every stream of packets: the queues follow the ROB, every   *)
(* answer from memory finds the load that asked, memory holds what the     *)
(* committed stores make of it, and a load returns what it should.         *)
(*                                                                         *)
(* What has to hold is stated of a ROB r and the parts of a queue as       *)
(* parameters, so that the lemmas about entering, leaving and flushing     *)
(* serve both queues and the states before and after a step.               *)
(***************************************************************************)
EXTENDS LSUnit, SequenceTheorems, WellFoundedInduction, TLAPS

Stage == {"map", "issued", "done"}
StoreEntry == [filled : BOOLEAN, valid : BOOLEAN, loc : Loc, data : Val]
LoadEntry  == [filled : BOOLEAN, valid : BOOLEAN, store_mask : SUBSET MemQ, loc : Loc,
               forwarded : BOOLEAN, forward_ack : BOOLEAN, aliased : BOOLEAN]
Request == [ld_st : {"Load", "Store"}, loc : Loc, data : Val, tag : Tag]
LoadReq == [store_mask : SUBSET MemQ, loc : Loc, index : MemQ, tag : Tag]
Inst(D) == [mem_type : {"LD", "STR"}, index : MemQ, stage : Stage, loc : Loc, data : D]

-----------------------------------------------------------------------------
(* Arithmetic of the circular queues.                                      *)

LEMMA IncValue ==
  ASSUME NEW i \in MemQ
  PROVE  Inc(i) = (IF i = MEMQ_SIZE - 1 THEN 0 ELSE i + 1) /\ Inc(i) \in MemQ
  BY SizeAssumption DEF Inc, MemQ

LEMMA DistanceValue ==
  ASSUME NEW h \in MemQ, NEW i \in MemQ
  PROVE  /\ Distance(h, i) = IF i >= h THEN i - h ELSE i - h + MEMQ_SIZE
         /\ Distance(h, i) \in MemQ
<1>1. CASE i >= h
  <2>1. i + MEMQ_SIZE - h \in MEMQ_SIZE .. 2 * MEMQ_SIZE - 1
    BY <1>1, SizeAssumption DEF MemQ
  <2>2. (i + MEMQ_SIZE - h) % MEMQ_SIZE = i - h
    BY <1>1, <2>1, SizeAssumption DEF MemQ
  <2> QED BY <1>1, <2>2, SizeAssumption DEF MemQ, Distance
<1>2. CASE i < h
  BY <1>2, SizeAssumption DEF MemQ, Distance
<1> QED BY <1>1, <1>2, SizeAssumption DEF MemQ

(* The head moves: every other entry comes one closer, the old head is now *)
(* the farthest.                                                           *)
LEMMA DistanceAfter ==
  ASSUME NEW h \in MemQ, NEW i \in MemQ
  PROVE  Distance(Inc(h), i) = IF i = h THEN MEMQ_SIZE - 1 ELSE Distance(h, i) - 1
<1>1. Inc(h) = (IF h = MEMQ_SIZE - 1 THEN 0 ELSE h + 1) /\ Inc(h) \in MemQ
  BY IncValue
<1>2. Distance(Inc(h), i) = IF i >= Inc(h) THEN i - Inc(h) ELSE i - Inc(h) + MEMQ_SIZE
  BY <1>1, DistanceValue
<1>3. Distance(h, i) = IF i >= h THEN i - h ELSE i - h + MEMQ_SIZE
  BY DistanceValue
<1> QED BY <1>1, <1>2, <1>3, SizeAssumption DEF MemQ

LEMMA DistanceInc ==
  ASSUME NEW h \in MemQ, NEW i \in MemQ
  PROVE  /\ Distance(h, Inc(i)) = IF Inc(i) = h THEN 0 ELSE Distance(h, i) + 1
         /\ Inc(i) = h => Distance(h, i) = MEMQ_SIZE - 1
<1>1. Inc(i) = (IF i = MEMQ_SIZE - 1 THEN 0 ELSE i + 1) /\ Inc(i) \in MemQ
  BY IncValue
<1>2. Distance(h, Inc(i)) = IF Inc(i) >= h THEN Inc(i) - h ELSE Inc(i) - h + MEMQ_SIZE
  BY <1>1, DistanceValue
<1>3. Distance(h, i) = IF i >= h THEN i - h ELSE i - h + MEMQ_SIZE
  BY DistanceValue
<1> QED BY <1>1, <1>2, <1>3, SizeAssumption DEF MemQ

LEMMA DistanceInjective ==
  ASSUME NEW h \in MemQ, NEW i \in MemQ, NEW j \in MemQ, Distance(h, i) = Distance(h, j)
  PROVE  i = j
<1>1. Distance(h, i) = IF i >= h THEN i - h ELSE i - h + MEMQ_SIZE
  BY DistanceValue
<1>2. Distance(h, j) = IF j >= h THEN j - h ELSE j - h + MEMQ_SIZE
  BY DistanceValue
<1>3. (IF i >= h THEN i - h ELSE i - h + MEMQ_SIZE) = IF j >= h THEN j - h ELSE j - h + MEMQ_SIZE
  BY <1>1, <1>2, Zenon
<1> QED BY <1>3, SizeAssumption DEF MemQ

LEMMA DistanceHead ==
  ASSUME NEW h \in MemQ PROVE Distance(h, h) = 0
  BY DistanceValue, SizeAssumption DEF MemQ

(* A distance is a number, and positive but for the head itself.           *)
LEMMA DistanceType ==
  ASSUME NEW h \in MemQ, NEW i \in MemQ
  PROVE  /\ Distance(h, i) \in Int /\ 0 <= Distance(h, i) /\ Distance(h, i) < MEMQ_SIZE
         /\ (Distance(h, i) = 0) <=> (i = h)
<1>1. Distance(h, i) = IF i >= h THEN i - h ELSE i - h + MEMQ_SIZE
  BY DistanceValue
<1>2. /\ i \in Int /\ h \in Int /\ MEMQ_SIZE \in Int
      /\ 0 <= i /\ i < MEMQ_SIZE /\ 0 <= h /\ h < MEMQ_SIZE
  BY SizeAssumption DEF MemQ
<1>3. CASE i >= h
  BY <1>1, <1>2, <1>3
<1>4. CASE i < h
  BY <1>1, <1>2, <1>4
<1> QED BY <1>2, <1>3, <1>4

-----------------------------------------------------------------------------
(* A queue and the ROB.                                                    *)

Filled(q) == {i \in MemQ : q[i].filled}
Own(r, type) == {k \in DOMAIN r : r[k].mem_type = type}

(* F, the filled entries, reach from the head to the tail, or all the way  *)
(* round; they are those of the instructions in the ROB, in their order.   *)
QueueOK(r, type, F, head, tail) ==
  /\ head \in MemQ /\ tail \in MemQ
  /\ \/ F = {i \in MemQ : Distance(head, i) < Distance(head, tail)}
     \/ head = tail /\ F = MemQ
  /\ F = {r[k].index : k \in Own(r, type)}
  /\ \A j, k \in Own(r, type) :
       j < k => Distance(head, r[j].index) < Distance(head, r[k].index)

(* A FIFO of one place, full.                                              *)
LEMMA OneEntry ==
  ASSUME NEW x
  PROVE  Head(<<x>>) = x /\ <<x>>[1] = x /\ DOMAIN <<x>> = {1}
OBVIOUS

(* s is r with x behind it.                                                *)
Grown(r, n, s, x) == /\ DOMAIN r = 1 .. n /\ DOMAIN s = 1 .. n + 1
                     /\ \A k \in 1 .. n : s[k] = r[k]
                     /\ s[n + 1] = x

(* An instruction of the queue's type enters at the tail.                  *)
LEMMA QueueEnter ==
  ASSUME NEW r, NEW n \in Nat, NEW s, NEW x, Grown(r, n, s, x),
         NEW type, NEW F, NEW head, NEW tail, x.mem_type = type, x.index = tail,
         QueueOK(r, type, F, head, tail),
         ~(head = tail /\ F = MemQ)
  PROVE  QueueOK(s, type, F \cup {tail}, head, Inc(tail))
<1> USE DEF Grown
<1>1. /\ head \in MemQ /\ tail \in MemQ
      /\ F = {i \in MemQ : Distance(head, i) < Distance(head, tail)}
      /\ F = {r[k].index : k \in Own(r, type)}
  BY DEF QueueOK
<1>2. Own(s, type) = Own(r, type) \cup {n + 1}
  BY DEF Own
<1>3. Own(r, type) \subseteq 1 .. n
  BY DEF Own
<1>4. F \cup {tail} = {s[k].index : k \in Own(s, type)}
  BY <1>1, <1>2, <1>3
<1>5. ASSUME NEW j \in Own(s, type), NEW k \in Own(s, type), j < k
      PROVE  Distance(head, s[j].index) < Distance(head, s[k].index)
  <2>1. j \in Own(r, type) /\ j \in 1 .. n
    BY <1>2, <1>3, <1>5
  <2>2. CASE k \in Own(r, type)
    BY <1>3, <1>5, <2>1, <2>2 DEF QueueOK
  <2>3. CASE k = n + 1
    <3>1. r[j].index \in F /\ s[j].index = r[j].index
      BY <1>1, <2>1
    <3> QED BY <1>1, <2>3, <3>1
  <2> QED BY <1>2, <2>2, <2>3
<1>6. \/ F \cup {tail} = {i \in MemQ : Distance(head, i) < Distance(head, Inc(tail))}
      \/ head = Inc(tail) /\ F \cup {tail} = MemQ
  <2>1. \A i \in MemQ : i \in F \cup {tail} <=> Distance(head, i) < Distance(head, tail) + 1
    <3> SUFFICES ASSUME NEW i \in MemQ
                 PROVE  i \in F \cup {tail} <=> Distance(head, i) < Distance(head, tail) + 1
      OBVIOUS
    <3>1. Distance(head, i) \in Int /\ Distance(head, tail) \in Int
      BY <1>1, DistanceValue DEF MemQ
    <3>2. Distance(head, i) = Distance(head, tail) => i = tail
      BY <1>1, DistanceInjective
    <3> QED BY <1>1, <3>1, <3>2
  <2>2. F \cup {tail} \subseteq MemQ
    BY <1>1
  <2>3. CASE Inc(tail) # head
    BY <1>1, <2>1, <2>2, <2>3, DistanceInc
  <2>4. CASE Inc(tail) = head
    <3>1. Distance(head, tail) = MEMQ_SIZE - 1
      BY <1>1, <2>4, DistanceInc
    <3>2. \A i \in MemQ : Distance(head, i) < Distance(head, tail) + 1
      <4> SUFFICES ASSUME NEW i \in MemQ PROVE Distance(head, i) < Distance(head, tail) + 1
        OBVIOUS
      <4>1. Distance(head, i) \in Int /\ Distance(head, i) < MEMQ_SIZE
        BY <1>1, DistanceType
      <4> QED BY <3>1, <4>1, SizeAssumption
    <3> QED BY <2>1, <2>2, <2>4, <3>2
  <2> QED BY <2>3, <2>4
<1>7. Inc(tail) \in MemQ
  BY <1>1, IncValue
<1> QED BY <1>1, <1>4, <1>5, <1>6, <1>7 DEF QueueOK

(* One of the other type enters, or an entry changes otherwise.            *)
LEMMA QueueSame ==
  ASSUME NEW r, NEW s, NEW type, NEW F, NEW head, NEW tail,
         Own(s, type) = Own(r, type),
         \A k \in Own(r, type) : s[k].index = r[k].index,
         QueueOK(r, type, F, head, tail)
  PROVE  QueueOK(s, type, F, head, tail)
<1>1. {s[k].index : k \in Own(s, type)} = {r[k].index : k \in Own(r, type)}
  OBVIOUS
<1>2. \A j, k \in Own(s, type) :
        j < k => Distance(head, s[j].index) < Distance(head, s[k].index)
  BY DEF QueueOK
<1> QED BY <1>1, <1>2 DEF QueueOK

(* The oldest instruction has the entry at the head of its queue.          *)
LEMMA QueueHead ==
  ASSUME NEW r, NEW n \in Nat, DOMAIN r = 1 .. n + 1,
         NEW type, NEW F, NEW head, NEW tail, r[1].mem_type = type,
         QueueOK(r, type, F, head, tail)
  PROVE  r[1].index = head /\ head \in MemQ
<1>1. /\ head \in MemQ /\ tail \in MemQ /\ F \subseteq MemQ
      /\ F = {r[k].index : k \in Own(r, type)}
  BY DEF QueueOK
<1>2. Own(r, type) \subseteq 1 .. n + 1 /\ 1 \in Own(r, type)
  BY DEF Own
<1>3. \A k \in Own(r, type) : r[k].index \in F /\ r[k].index \in MemQ
  BY <1>1
<1>4. head \in F
  <2>1. CASE F = {i \in MemQ : Distance(head, i) < Distance(head, tail)}
    <3>1. Distance(head, r[1].index) < Distance(head, tail)
      BY <1>2, <1>3, <2>1
    <3>2. Distance(head, r[1].index) \in Int /\ 0 <= Distance(head, r[1].index)
      BY <1>1, <1>2, <1>3, DistanceType
    <3>3. Distance(head, tail) \in Int /\ Distance(head, head) = 0
      BY <1>1, DistanceType, DistanceHead
    <3>4. Distance(head, head) < Distance(head, tail)
      BY <3>1, <3>2, <3>3
    <3> QED BY <1>1, <2>1, <3>4
  <2>2. CASE F = MemQ
    BY <1>1, <2>2
  <2> QED BY <2>1, <2>2 DEF QueueOK
<1>5. PICK k \in Own(r, type) : r[k].index = head
  BY <1>1, <1>4
<1>6. CASE k # 1
  <2>1. k > 1
    BY <1>2, <1>6
  <2>2. Distance(head, r[1].index) < Distance(head, head)
    BY <1>2, <1>5, <2>1 DEF QueueOK
  <2>3. Distance(head, r[1].index) \in Int /\ 0 <= Distance(head, r[1].index)
    BY <1>1, <1>2, <1>3, DistanceType
  <2>4. Distance(head, head) = 0
    BY <1>1, DistanceHead
  <2> QED BY <2>2, <2>3, <2>4
<1> QED BY <1>1, <1>5, <1>6

(* The oldest instruction leaves, with the entry at the head if it is of   *)
(* the queue's type.                                                       *)
LEMMA QueueLeave ==
  ASSUME NEW r, NEW n \in Nat, DOMAIN r = 1 .. n + 1, NEW s, DOMAIN s = 1 .. n,
         NEW type, NEW F, NEW head, NEW tail,
         \A k \in 1 .. n : s[k] = r[k + 1],
         r[1].mem_type = type,
         QueueOK(r, type, F, head, tail)
  PROVE  QueueOK(s, type, F \ {head}, Inc(head), tail) /\ r[1].index = head
<1>0. /\ head \in MemQ /\ tail \in MemQ /\ F \subseteq MemQ
      /\ F = {r[k].index : k \in Own(r, type)}
  BY DEF QueueOK
<1>1. /\ Own(s, type) \subseteq 1 .. n /\ Own(r, type) \subseteq 1 .. n + 1
      /\ \A k \in 1 .. n : k \in Own(s, type) <=> k + 1 \in Own(r, type)
      /\ 1 \in Own(r, type)
  BY DEF Own
<1>2. \A k \in Own(r, type) : r[k].index \in F /\ r[k].index \in MemQ
  BY <1>0
<1>3. r[1].index = head
  BY QueueHead
<1>4. ASSUME NEW j \in Own(r, type), NEW k \in Own(r, type), j < k
      PROVE  Distance(Inc(head), r[j].index) < Distance(Inc(head), r[k].index)
             \/ r[j].index = head
  <2>1. Distance(head, r[j].index) < Distance(head, r[k].index)
    BY <1>4 DEF QueueOK
  <2>2. /\ Distance(head, r[j].index) \in Int /\ 0 <= Distance(head, r[j].index)
        /\ Distance(head, r[k].index) \in Int
        /\ Distance(head, r[k].index) = 0 <=> r[k].index = head
    BY <1>0, <1>2, DistanceType
  <2>3. r[k].index # head
    BY <2>1, <2>2
  <2>4. Distance(Inc(head), r[k].index) = Distance(head, r[k].index) - 1
    BY <1>0, <1>2, <2>3, DistanceAfter
  <2>5. r[j].index # head => Distance(Inc(head), r[j].index) = Distance(head, r[j].index) - 1
    BY <1>0, <1>2, DistanceAfter
  <2> QED BY <2>1, <2>2, <2>4, <2>5
<1>5. \A k \in Own(r, type) : k # 1 => r[k].index # head
  <2> SUFFICES ASSUME NEW k \in Own(r, type), k # 1, r[k].index = head PROVE FALSE
    OBVIOUS
  <2>1. Distance(head, head) < Distance(head, head)
    BY <1>1, <1>3 DEF QueueOK
  <2> QED BY <1>0, <2>1, DistanceHead
<1>6. F \ {head} = {s[k].index : k \in Own(s, type)}
  <2>1. ASSUME NEW i \in F \ {head} PROVE i \in {s[k].index : k \in Own(s, type)}
    <3>1. PICK k \in Own(r, type) : r[k].index = i
      BY <1>0
    <3>2. k # 1 /\ k - 1 \in 1 .. n
      BY <1>1, <1>3, <3>1
    <3>3. k - 1 \in Own(s, type) /\ s[k - 1].index = i
      BY <1>1, <3>1, <3>2
    <3> QED BY <3>3
  <2>2. ASSUME NEW k \in Own(s, type) PROVE s[k].index \in F \ {head}
    <3>1. k + 1 \in Own(r, type) /\ s[k] = r[k + 1] /\ k + 1 # 1
      BY <1>1
    <3> QED BY <1>2, <1>5, <3>1
  <2> QED BY <2>1, <2>2
<1>7. ASSUME NEW j \in Own(s, type), NEW k \in Own(s, type), j < k
      PROVE  Distance(Inc(head), s[j].index) < Distance(Inc(head), s[k].index)
  <2>1. /\ j + 1 \in Own(r, type) /\ k + 1 \in Own(r, type) /\ j + 1 < k + 1 /\ j + 1 # 1
        /\ s[j] = r[j + 1] /\ s[k] = r[k + 1]
    BY <1>1, <1>7
  <2> QED BY <1>4, <1>5, <2>1
<1>8. \/ F \ {head} = {i \in MemQ : Distance(Inc(head), i) < Distance(Inc(head), tail)}
      \/ Inc(head) = tail /\ F \ {head} = MemQ
  <2>1. CASE F = {i \in MemQ : Distance(head, i) < Distance(head, tail)}
    <3>1. tail # head
      <4>1. r[1].index \in F
        BY <1>1, <1>2
      <4>2. Distance(head, head) < Distance(head, tail)
        BY <1>3, <2>1, <4>1
      <4> QED BY <1>0, <4>2, DistanceHead
    <3>2. ASSUME NEW i \in MemQ
          PROVE  i \in F \ {head} <=> Distance(Inc(head), i) < Distance(Inc(head), tail)
      <4>1. Distance(Inc(head), tail) = Distance(head, tail) - 1
        BY <1>0, <3>1, DistanceAfter
      <4>2. Distance(Inc(head), i) = IF i = head THEN MEMQ_SIZE - 1 ELSE Distance(head, i) - 1
        BY <1>0, DistanceAfter
      <4>3. /\ Distance(head, tail) \in Int /\ Distance(head, tail) < MEMQ_SIZE
            /\ Distance(head, i) \in Int
        BY <1>0, DistanceType
      <4> QED BY <2>1, <4>1, <4>2, <4>3, SizeAssumption
    <3> QED BY <1>0, <3>2
  <2>2. CASE head = tail /\ F = MemQ
    <3>1. ASSUME NEW i \in MemQ
          PROVE  i \in F \ {head} <=> Distance(Inc(head), i) < Distance(Inc(head), tail)
      <4>1. Distance(Inc(head), tail) = MEMQ_SIZE - 1
        BY <1>0, <2>2, DistanceAfter
      <4>2. Distance(Inc(head), i) = IF i = head THEN MEMQ_SIZE - 1 ELSE Distance(head, i) - 1
        BY <1>0, DistanceAfter
      <4>3. Distance(head, i) \in Int /\ Distance(head, i) < MEMQ_SIZE
        BY <1>0, DistanceType
      <4> QED BY <2>2, <4>1, <4>2, <4>3, SizeAssumption
    <3> QED BY <1>0, <3>1
  <2> QED BY <2>1, <2>2 DEF QueueOK
<1>9. Inc(head) \in MemQ
  BY <1>0, IncValue
<1> QED BY <1>0, <1>3, <1>6, <1>7, <1>8, <1>9 DEF QueueOK

(* The oldest instruction, of the other type, leaves.                      *)
LEMMA QueueShift ==
  ASSUME NEW r, NEW n \in Nat, DOMAIN r = 1 .. n + 1, NEW s, DOMAIN s = 1 .. n,
         NEW type, NEW F, NEW head, NEW tail,
         \A k \in 1 .. n : s[k] = r[k + 1],
         r[1].mem_type # type,
         QueueOK(r, type, F, head, tail)
  PROVE  QueueOK(s, type, F, head, tail)
<1>1. /\ Own(s, type) \subseteq 1 .. n /\ Own(r, type) \subseteq 1 .. n + 1
      /\ \A k \in 1 .. n : k \in Own(s, type) <=> k + 1 \in Own(r, type)
      /\ 1 \notin Own(r, type)
  BY DEF Own
<1>2. {s[k].index : k \in Own(s, type)} = {r[k].index : k \in Own(r, type)}
  <2>1. ASSUME NEW k \in Own(s, type)
        PROVE  s[k].index \in {r[m].index : m \in Own(r, type)}
    <3>1. k + 1 \in Own(r, type) /\ s[k] = r[k + 1]
      BY <1>1
    <3> QED BY <3>1
  <2>2. ASSUME NEW k \in Own(r, type)
        PROVE  r[k].index \in {s[m].index : m \in Own(s, type)}
    <3>1. k - 1 \in 1 .. n /\ k = (k - 1) + 1
      BY <1>1
    <3>2. k - 1 \in Own(s, type) /\ s[k - 1] = r[k]
      BY <1>1, <3>1
    <3> QED BY <3>2
  <2> QED BY <2>1, <2>2
<1>3. ASSUME NEW j \in Own(s, type), NEW k \in Own(s, type), j < k
      PROVE  Distance(head, s[j].index) < Distance(head, s[k].index)
  <2>1. /\ j + 1 \in Own(r, type) /\ k + 1 \in Own(r, type) /\ j + 1 < k + 1
        /\ s[j] = r[j + 1] /\ s[k] = r[k + 1]
    BY <1>1, <1>3
  <2> QED BY <2>1 DEF QueueOK
<1> QED BY <1>2, <1>3 DEF QueueOK
-----------------------------------------------------------------------------
(* Tags and answers.                                                       *)

(* The tag of the k-th instruction of a ROB whose head is at h             *)
At(h, k) == (h + k - 1) % ENTRY_ROB_SIZE

LEMMA AtValue ==
  ASSUME NEW h \in Tag, NEW k \in 1 .. ENTRY_ROB_SIZE
  PROVE  At(h, k) = IF h + k - 1 < ENTRY_ROB_SIZE THEN h + k - 1 ELSE h + k - 1 - ENTRY_ROB_SIZE
<1>1. CASE h + k - 1 < ENTRY_ROB_SIZE
  BY <1>1, SizeAssumption DEF Tag, At
<1>2. CASE h + k - 1 >= ENTRY_ROB_SIZE
  <2>1. h + k - 1 \in ENTRY_ROB_SIZE .. 2 * ENTRY_ROB_SIZE - 1
    BY <1>2, SizeAssumption DEF Tag
  <2>2. (h + k - 1) % ENTRY_ROB_SIZE = h + k - 1 - ENTRY_ROB_SIZE
    BY <1>2, <2>1, SizeAssumption DEF Tag
  <2> QED BY <1>2, <2>2, SizeAssumption DEF Tag, At
<1> QED BY <1>1, <1>2, SizeAssumption DEF Tag

LEMMA AtInjective ==
  ASSUME NEW h \in Tag, NEW j \in 1 .. ENTRY_ROB_SIZE, NEW k \in 1 .. ENTRY_ROB_SIZE,
         At(h, j) = At(h, k)
  PROVE  j = k
<1> DEFINE at(m) == IF h + m - 1 < ENTRY_ROB_SIZE THEN h + m - 1 ELSE h + m - 1 - ENTRY_ROB_SIZE
<1>1. At(h, j) = at(j) /\ At(h, k) = at(k)
  BY AtValue
<1>2. at(j) = at(k)
  <2> HIDE DEF at
  <2> QED BY <1>1
<1> QED BY <1>2, SizeAssumption DEF Tag

LEMMA AtAfter ==
  ASSUME NEW h \in Tag, NEW k \in 1 .. ENTRY_ROB_SIZE - 1
  PROVE  IncTag(h) \in Tag /\ At(IncTag(h), k) = At(h, k + 1)
<1>1. IncTag(h) = (IF h = ENTRY_ROB_SIZE - 1 THEN 0 ELSE h + 1) /\ IncTag(h) \in Tag
  BY SizeAssumption DEF Tag, IncTag
<1>2. k \in 1 .. ENTRY_ROB_SIZE /\ k + 1 \in 1 .. ENTRY_ROB_SIZE
  BY SizeAssumption
<1> DEFINE at(g, m) == IF g + m - 1 < ENTRY_ROB_SIZE THEN g + m - 1 ELSE g + m - 1 - ENTRY_ROB_SIZE
<1>3. At(IncTag(h), k) = at(IncTag(h), k) /\ At(h, k + 1) = at(h, k + 1)
  BY <1>1, <1>2, AtValue
<1>4. at(IncTag(h), k) = at(h, k + 1)
  BY <1>1, SizeAssumption DEF Tag
<1> HIDE DEF at
<1> QED BY <1>1, <1>3, <1>4

(* The load, the store that a tag belongs to has been issued and waits.    *)
Awaited(r, h, tag, l) ==
  \E k \in DOMAIN r : /\ At(h, k) = tag /\ r[k].mem_type = "LD"
                      /\ r[k].stage = "issued" /\ r[k].loc = l
StoreAwaited(r, h, tag) ==
  \E k \in DOMAIN r : At(h, k) = tag /\ r[k].mem_type = "STR" /\ r[k].stage = "issued"

IsLoad(x) == x.ld_st = "Load"

(* Everything on its way has someone who waits for it: the loads in ffl,   *)
(* the requests of loads, the results, and the completed stores of sb.     *)
Awaiting(r, h, ffl, reqs, res, sb) ==
  /\ \A i \in DOMAIN ffl : Awaited(r, h, ffl[i].tag, ffl[i].loc)
  /\ \A i \in DOMAIN reqs : IsLoad(reqs[i]) => Awaited(r, h, reqs[i].tag, reqs[i].loc)
  /\ \A i \in DOMAIN res : \E l : Awaited(r, h, res[i].tag, l) /\ DOMAIN res[i].data = Cells(l)
  /\ \A i \in DOMAIN sb : StoreAwaited(r, h, sb[i])

(* No load is on its way twice.                                            *)
Apart(ffl, reqs, res) ==
  /\ \A i, j \in DOMAIN reqs :
       i # j /\ IsLoad(reqs[i]) /\ IsLoad(reqs[j]) => reqs[i].tag # reqs[j].tag
  /\ \A i \in DOMAIN ffl, j \in DOMAIN reqs : IsLoad(reqs[j]) => ffl[i].tag # reqs[j].tag
  /\ \A i \in DOMAIN res, j \in DOMAIN reqs : IsLoad(reqs[j]) => res[i].tag # reqs[j].tag
  /\ \A i \in DOMAIN res, j \in DOMAIN ffl : res[i].tag # ffl[j].tag

(* A tag is not awaited by a load and by a store.                          *)
LEMMA KindsApart ==
  ASSUME NEW r, NEW h \in Tag, NEW n \in 0 .. ENTRY_ROB_SIZE, DOMAIN r = 1 .. n,
         NEW tag, NEW l, Awaited(r, h, tag, l), StoreAwaited(r, h, tag)
  PROVE  FALSE
<1>1. PICK j \in DOMAIN r : At(h, j) = tag /\ r[j].mem_type = "LD"
  BY DEF Awaited
<1>2. PICK k \in DOMAIN r : At(h, k) = tag /\ r[k].mem_type = "STR"
  BY DEF StoreAwaited
<1>3. j \in 1 .. ENTRY_ROB_SIZE /\ k \in 1 .. ENTRY_ROB_SIZE
  BY <1>1, <1>2, SizeAssumption
<1>4. j = k
  BY <1>1, <1>2, <1>3, AtInjective
<1> QED BY <1>1, <1>2, <1>4

(* Whatever a step does to the ROB, what is on its way stays awaited if    *)
(* only the tags of Gone lose their instruction.                           *)
LEMMA AwaitingMoves ==
  ASSUME NEW r, NEW h, NEW s, NEW g, NEW ffl, NEW reqs, NEW res, NEW sb, NEW Gone,
         Awaiting(r, h, ffl, reqs, res, sb),
         \A tag, l : tag \notin Gone /\ Awaited(r, h, tag, l) => Awaited(s, g, tag, l),
         \A tag : tag \notin Gone /\ StoreAwaited(r, h, tag) => StoreAwaited(s, g, tag),
         \A i \in DOMAIN ffl : ffl[i].tag \notin Gone,
         \A i \in DOMAIN reqs : IsLoad(reqs[i]) => reqs[i].tag \notin Gone,
         \A i \in DOMAIN res : res[i].tag \notin Gone,
         \A i \in DOMAIN sb : sb[i] \notin Gone
  PROVE  Awaiting(s, g, ffl, reqs, res, sb)
<1>1. \A i \in DOMAIN ffl : Awaited(s, g, ffl[i].tag, ffl[i].loc)
  BY DEF Awaiting
<1>2. \A i \in DOMAIN reqs : IsLoad(reqs[i]) => Awaited(s, g, reqs[i].tag, reqs[i].loc)
  BY DEF Awaiting
<1>3. \A i \in DOMAIN res : \E l : Awaited(s, g, res[i].tag, l) /\ DOMAIN res[i].data = Cells(l)
  BY DEF Awaiting
<1>4. \A i \in DOMAIN sb : StoreAwaited(s, g, sb[i])
  BY DEF Awaiting
<1> QED BY <1>1, <1>2, <1>3, <1>4 DEF Awaiting

LEMMA AwaitingKept ==
  ASSUME NEW r, NEW h, NEW s, NEW g, NEW ffl, NEW reqs, NEW res, NEW sb,
         Awaiting(r, h, ffl, reqs, res, sb),
         \A tag, l : Awaited(r, h, tag, l) => Awaited(s, g, tag, l),
         \A tag : StoreAwaited(r, h, tag) => StoreAwaited(s, g, tag)
  PROVE  Awaiting(s, g, ffl, reqs, res, sb)
  BY DEF Awaiting

(* The instruction at the head leaves, after its broadcast.                *)
LEMMA AwaitedLeave ==
  ASSUME NEW r, NEW h \in Tag, NEW n \in 0 .. ENTRY_ROB_SIZE - 1, DOMAIN r = 1 .. n + 1,
         NEW s, DOMAIN s = 1 .. n, \A k \in 1 .. n : s[k] = r[k + 1],
         r[1].stage = "done"
  PROVE  /\ \A tag, l : Awaited(r, h, tag, l) => Awaited(s, IncTag(h), tag, l)
         /\ \A tag : StoreAwaited(r, h, tag) => StoreAwaited(s, IncTag(h), tag)
<1>0. \A k \in 1 .. n + 1 : r[k].stage = "issued" =>
        k - 1 \in DOMAIN s /\ s[k - 1] = r[k] /\ At(IncTag(h), k - 1) = At(h, k)
  <2> SUFFICES ASSUME NEW k \in 1 .. n + 1, r[k].stage = "issued"
               PROVE  k - 1 \in DOMAIN s /\ s[k - 1] = r[k] /\ At(IncTag(h), k - 1) = At(h, k)
    OBVIOUS
  <2>1. k # 1
    OBVIOUS
  <2>2. k - 1 \in 1 .. n /\ k - 1 \in 1 .. ENTRY_ROB_SIZE - 1 /\ (k - 1) + 1 = k
    BY <2>1, SizeAssumption
  <2> QED BY <2>2, AtAfter
<1>1. ASSUME NEW tag, NEW l, Awaited(r, h, tag, l) PROVE Awaited(s, IncTag(h), tag, l)
  <2>1. PICK k \in DOMAIN r : /\ At(h, k) = tag /\ r[k].mem_type = "LD"
                             /\ r[k].stage = "issued" /\ r[k].loc = l
    BY <1>1 DEF Awaited
  <2>2. k - 1 \in DOMAIN s /\ s[k - 1] = r[k] /\ At(IncTag(h), k - 1) = tag
    BY <1>0, <2>1
  <2> QED BY <2>1, <2>2 DEF Awaited
<1>2. ASSUME NEW tag, StoreAwaited(r, h, tag) PROVE StoreAwaited(s, IncTag(h), tag)
  <2>1. PICK k \in DOMAIN r : At(h, k) = tag /\ r[k].mem_type = "STR" /\ r[k].stage = "issued"
    BY <1>2 DEF StoreAwaited
  <2>2. k - 1 \in DOMAIN s /\ s[k - 1] = r[k] /\ At(IncTag(h), k - 1) = tag
    BY <1>0, <2>1
  <2> QED BY <2>1, <2>2 DEF StoreAwaited
<1> QED BY <1>1, <1>2
-----------------------------------------------------------------------------
(* The inductive invariant.                                                *)

Reqs == dcache \o ff_request

RobType == /\ \E D : rob \in Seq(Inst(D))
           /\ Len(rob) <= ENTRY_ROB_SIZE /\ rg_erob_head \in Tag
QueueType == store_q \in [MemQ -> StoreEntry] /\ load_q \in [MemQ -> LoadEntry]
FifoType ==
  /\ ff_load = <<>> \/ \E x \in LoadReq : ff_load = <<x>>
  /\ ff_request = <<>> \/ \E x \in Request : ff_request = <<x>>
  /\ dcache \in Seq(Request)
  /\ ff_load_result = <<>> \/ \E t \in Tag : \E d : ff_load_result = <<[tag |-> t, data |-> d]>>
  /\ ff_store_broadcast = <<>> \/ \E t \in Tag : ff_store_broadcast = <<t>>

Queues == /\ QueueOK(rob, "STR", Filled(store_q), rg_store_q_head, rg_store_q_tail)
          /\ QueueOK(rob, "LD", Filled(load_q), rg_load_q_head, rg_load_q_tail)
Answers == /\ Awaiting(rob, rg_erob_head, ff_load, Reqs, ff_load_result, ff_store_broadcast)
           /\ Apart(ff_load, Reqs, ff_load_result)

LSInv == RobType /\ QueueType /\ FifoType /\ Queues /\ Answers

LEMMA RobDomain ==
  ASSUME RobType
  PROVE  /\ Len(rob) \in 0 .. ENTRY_ROB_SIZE /\ DOMAIN rob = 1 .. Len(rob)
         /\ \A k \in DOMAIN rob : /\ rob[k].mem_type \in {"LD", "STR"} /\ rob[k].index \in MemQ
                                  /\ rob[k].loc \in Loc
<1>1. PICK D : rob \in Seq(Inst(D))
  BY DEF RobType
<1>2. Len(rob) \in Nat /\ DOMAIN rob = 1 .. Len(rob) /\ \A k \in 1 .. Len(rob) : rob[k] \in Inst(D)
  BY <1>1
<1>3. \A k \in 1 .. Len(rob) : /\ rob[k].mem_type \in {"LD", "STR"} /\ rob[k].index \in MemQ
                               /\ rob[k].loc \in Loc
  BY <1>2 DEF Inst
<1> QED BY <1>2, <1>3, SizeAssumption DEF RobType

LEMMA FifoSeq ==
  ASSUME FifoType
  PROVE  /\ ff_request \in Seq(Request) /\ Reqs \in Seq(Request)
         /\ DOMAIN Reqs = 1 .. Len(Reqs) /\ Len(Reqs) \in Nat
         /\ \A i \in DOMAIN Reqs : Reqs[i] \in Request
<1>1. ff_request \in Seq(Request) /\ dcache \in Seq(Request)
  <2>1. CASE ff_request = <<>>
    BY <2>1 DEF FifoType
  <2>2. CASE \E x \in Request : ff_request = <<x>>
    <3>1. PICK x \in Request : ff_request = <<x>>
      BY <2>2
    <3>2. <<x>> \in Seq(Request)
      OBVIOUS
    <3> QED BY <3>1, <3>2 DEF FifoType
  <2> QED BY <2>1, <2>2 DEF FifoType
<1>2. Reqs \in Seq(Request)
  BY <1>1 DEF Reqs
<1> HIDE DEF Reqs
<1> QED BY <1>1, <1>2

(* A request enters the FIFO behind all that wait.                         *)
LEMMA EnqFifo ==
  ASSUME FifoType, NEW x \in Request, EnqRequest(x)
  PROVE  /\ dcache' \in Seq(Request) /\ ff_request' = <<x>>
         /\ DOMAIN Reqs' = 1 .. Len(Reqs) + 1
         /\ \A i \in 1 .. Len(Reqs) : Reqs'[i] = Reqs[i]
         /\ Reqs'[Len(Reqs) + 1] = x
<1>1. Reqs' = Reqs \o <<x>> /\ dcache' = Reqs /\ ff_request' = <<x>>
  BY DEF EnqRequest, Reqs
<1>2. Reqs \in Seq(Request)
  BY FifoSeq
<1> HIDE DEF Reqs
<1>3. <<x>> \in Seq(Request) /\ Len(<<x>>) = 1 /\ <<x>>[1] = x
  OBVIOUS
<1>4. /\ Reqs \o <<x>> \in Seq(Request) /\ Len(Reqs \o <<x>>) = Len(Reqs) + 1
      /\ \A i \in 1 .. Len(Reqs) + 1 :
           (Reqs \o <<x>>)[i] = IF i <= Len(Reqs) THEN Reqs[i] ELSE <<x>>[i - Len(Reqs)]
  BY <1>2, <1>3, ConcatProperties
<1>5. Len(Reqs) \in Nat
  BY <1>2
<1>6. DOMAIN (Reqs \o <<x>>) = 1 .. Len(Reqs) + 1
  BY <1>4, LenProperties
<1> QED BY <1>1, <1>2, <1>3, <1>4, <1>5, <1>6

(* The D-cache serves the oldest request.                                  *)
LEMMA ServeFifo ==
  ASSUME FifoType, dcache # <<>>, dcache' = Tail(dcache), ff_request' = ff_request
  PROVE  /\ dcache' \in Seq(Request) /\ Head(dcache) \in Request
         /\ Len(Reqs) \in Nat \ {0} /\ Reqs[1] = Head(dcache)
         /\ DOMAIN Reqs' = 1 .. Len(Reqs) - 1
         /\ \A i \in 1 .. Len(Reqs) - 1 : Reqs'[i] = Reqs[i + 1]
<1>1. dcache \in Seq(Request) /\ ff_request \in Seq(Request) /\ Len(dcache) \in Nat \ {0}
  BY FifoSeq, EmptySeq DEF FifoType
<1> DEFINE d == Tail(dcache)
           n == Len(dcache)
           m == Len(ff_request)
<1>2. /\ d \in Seq(Request) /\ Len(d) = n - 1 /\ Head(dcache) \in Request
      /\ \A i \in 1 .. n - 1 : d[i] = dcache[i + 1]
  BY <1>1, HeadTailProperties
<1>3. Head(dcache) = dcache[1] /\ n \in Nat \ {0} /\ m \in Nat
  BY <1>1
<1> HIDE DEF d, n, m
<1>4. /\ Len(dcache \o ff_request) = n + m
      /\ \A i \in 1 .. n + m : (dcache \o ff_request)[i] =
                                 IF i <= n THEN dcache[i] ELSE ff_request[i - n]
  BY <1>1, ConcatProperties DEF n, m
<1>5. /\ d \o ff_request \in Seq(Request) /\ Len(d \o ff_request) = n - 1 + m
      /\ \A i \in 1 .. n - 1 + m : (d \o ff_request)[i] =
                                     IF i <= n - 1 THEN d[i] ELSE ff_request[i - (n - 1)]
  <2>1. /\ d \o ff_request \in Seq(Request) /\ Len(d \o ff_request) = Len(d) + m
        /\ \A i \in 1 .. Len(d) + m : (d \o ff_request)[i] =
                                     IF i <= Len(d) THEN d[i] ELSE ff_request[i - Len(d)]
    BY <1>1, <1>2, ConcatProperties DEF m
  <2> QED BY <1>2, <2>1
<1>6. Reqs = dcache \o ff_request /\ Reqs' = d \o ff_request /\ dcache' = d
  BY DEF Reqs, d
<1>7. DOMAIN (d \o ff_request) = 1 .. n - 1 + m
  BY <1>5, LenProperties
<1>8. Len(Reqs) = n + m /\ Reqs[1] = Head(dcache)
  BY <1>3, <1>4, <1>6
<1>9. \A i \in 1 .. n + m - 1 : Reqs'[i] = Reqs[i + 1]
  <2> SUFFICES ASSUME NEW i \in 1 .. n + m - 1 PROVE Reqs'[i] = Reqs[i + 1]
    OBVIOUS
  <2>1. i \in 1 .. n - 1 + m /\ i + 1 \in 1 .. n + m
    BY <1>3
  <2>2. CASE i <= n - 1
    <3>1. Reqs'[i] = d[i]
      BY <1>5, <1>6, <2>1, <2>2
    <3>2. i + 1 <= n /\ i \in 1 .. n - 1
      BY <1>3, <2>1, <2>2
    <3>3. Reqs[i + 1] = dcache[i + 1]
      BY <1>4, <1>6, <2>1, <3>2
    <3> QED BY <1>2, <3>1, <3>2, <3>3
  <2>3. CASE i > n - 1
    <3>1. i - (n - 1) = i + 1 - n
      BY <1>3, <2>1
    <3>2. Reqs'[i] = ff_request[i - (n - 1)]
      BY <1>3, <1>5, <1>6, <2>1, <2>3
    <3>3. Reqs[i + 1] = ff_request[i + 1 - n]
      BY <1>3, <1>4, <1>6, <2>1, <2>3
    <3> QED BY <3>1, <3>2, <3>3
  <2> QED BY <1>3, <2>1, <2>2, <2>3
<1>10. n - 1 + m = n + m - 1 /\ n + m \in Nat \ {0}
  BY <1>3
<1> DEFINE k == Len(Reqs)
<1>k. k = n + m
  BY <1>8
<1> HIDE DEF k
<1>11. DOMAIN Reqs' = 1 .. k - 1
  BY <1>3, <1>6, <1>7, <1>k, <1>10
<1>12. \A i \in 1 .. k - 1 : Reqs'[i] = Reqs[i + 1]
  BY <1>3, <1>9, <1>k
<1>13. Len(Reqs) \in Nat \ {0}
  BY <1>8, <1>10, Zenon
<1> QED BY <1>2, <1>6, <1>8, <1>11, <1>12, <1>13, Zenon DEF k
-----------------------------------------------------------------------------
(* The steps between the queues and memory: the ROB stays as it is.        *)

(* A change of the load queue that fills and empties nothing               *)
LEMMA FilledSame ==
  ASSUME NEW q, NEW p, \A i \in MemQ : p[i].filled = q[i].filled
  PROVE  Filled(p) = Filled(q)
  BY DEF Filled

LEMMA ForwardStep ==
  ASSUME LSInv, Forward
  PROVE  LSInv'
<1> DEFINE ld == Head(ff_load)
<1>1. PICK x \in LoadReq : ff_load = <<x>>
  BY DEF LSInv, FifoType, Forward
<1>2. ld = x /\ DOMAIN ff_load = {1} /\ ff_load[1] = x
  BY <1>1
<1>3. PICK d : ff_load_result' = <<[tag |-> x.tag, data |-> d]>> /\ DOMAIN d = Cells(x.loc)
  BY <1>2 DEF Forward, Fill
<1>4. x.tag \in Tag /\ x.index \in MemQ
  BY DEF LoadReq
<1>5. /\ ff_load' = <<>> /\ ff_load_result = <<>>
      /\ load_q' = [load_q EXCEPT ![x.index].forwarded = TRUE]
      /\ UNCHANGED <<rob, rg_erob_head, store_q, rg_store_q_head, rg_store_q_tail,
                     rg_load_q_head, rg_load_q_tail, ff_request, ff_store_broadcast, dcache>>
  BY <1>2 DEF Forward
<1>6. RobType'
  BY <1>5 DEF LSInv, RobType
<1>7. QueueType' /\ \A i \in MemQ : load_q'[i].filled = load_q[i].filled
  <2>1. load_q \in [MemQ -> LoadEntry] /\ load_q[x.index] \in LoadEntry
    BY <1>4 DEF LSInv, QueueType
  <2> DEFINE e == [load_q[x.index] EXCEPT !.forwarded = TRUE]
  <2>2. e \in LoadEntry /\ e.filled = load_q[x.index].filled
    BY <2>1 DEF LoadEntry
  <2>3. load_q' = [load_q EXCEPT ![x.index] = e]
    BY <1>5
  <2> HIDE DEF e
  <2> QED BY <1>4, <1>5, <2>1, <2>2, <2>3 DEF LSInv, QueueType
<1>8. FifoType'
  BY <1>3, <1>4, <1>5 DEF LSInv, FifoType
<1>9. Queues'
  <2>1. Filled(load_q') = Filled(load_q)
    BY <1>7, FilledSame
  <2> QED BY <1>5, <2>1 DEF LSInv, Queues
<1>10. Answers'
  <2> DEFINE res == <<[tag |-> x.tag, data |-> d]>>
  <2>0. /\ Awaiting(rob, rg_erob_head, ff_load, Reqs, ff_load_result, ff_store_broadcast)
        /\ Apart(ff_load, Reqs, ff_load_result)
    BY DEF LSInv, Answers
  <2>1. Awaited(rob, rg_erob_head, x.tag, x.loc)
    BY <1>2, <2>0 DEF Awaiting
  <2>2. DOMAIN res = {1} /\ res[1].tag = x.tag /\ res[1].data = d
    OBVIOUS
  <2> HIDE DEF res
  <2>3. Reqs' = Reqs
    BY <1>5 DEF Reqs
  <2>4. Awaiting(rob, rg_erob_head, <<>>, Reqs, res, ff_store_broadcast)
    BY <1>3, <2>0, <2>1, <2>2 DEF Awaiting
  <2>5. Apart(<<>>, Reqs, res)
    BY <1>2, <2>0, <2>2 DEF Apart
  <2> QED BY <1>3, <1>5, <2>3, <2>4, <2>5 DEF Answers, res
<1> QED BY <1>6, <1>7, <1>8, <1>9, <1>10 DEF LSInv

LEMMA AccessStep ==
  ASSUME LSInv, AccessMemory
  PROVE  LSInv'
<1>1. PICK x \in LoadReq : ff_load = <<x>>
  BY DEF LSInv, FifoType, AccessMemory
<1>2. Head(ff_load) = x /\ DOMAIN ff_load = {1} /\ ff_load[1] = x
  BY <1>1
<1> DEFINE q == [ld_st |-> "Load", loc |-> x.loc, data |-> 0, tag |-> x.tag]
<1>3. /\ ff_load' = <<>> /\ EnqRequest(q)
      /\ UNCHANGED <<rob, rg_erob_head, store_q, rg_store_q_head, rg_store_q_tail,
                     load_q, rg_load_q_head, rg_load_q_tail, ff_load_result,
                     ff_store_broadcast>>
  BY <1>2 DEF AccessMemory, ls_queues
<1>4. q \in Request /\ q.tag = x.tag /\ q.loc = x.loc
  BY LocAssumption DEF LoadReq, Request
<1> HIDE DEF q
<1>5. /\ dcache' \in Seq(Request) /\ ff_request' = <<q>>
      /\ DOMAIN Reqs' = 1 .. Len(Reqs) + 1
      /\ \A i \in 1 .. Len(Reqs) : Reqs'[i] = Reqs[i]
      /\ Reqs'[Len(Reqs) + 1] = q
  BY <1>3, <1>4, EnqFifo DEF LSInv
<1>6. DOMAIN Reqs = 1 .. Len(Reqs) /\ Len(Reqs) \in Nat
  BY FifoSeq DEF LSInv
<1>7. RobType' /\ QueueType' /\ Queues'
  BY <1>3 DEF LSInv, RobType, QueueType, Queues
<1>8. FifoType'
  BY <1>3, <1>4, <1>5 DEF LSInv, FifoType
<1>9. Answers'
  <2>0. /\ Awaiting(rob, rg_erob_head, ff_load, Reqs, ff_load_result, ff_store_broadcast)
        /\ Apart(ff_load, Reqs, ff_load_result)
    BY DEF LSInv, Answers
  <2>1. Awaited(rob, rg_erob_head, x.tag, x.loc)
    BY <1>2, <2>0 DEF Awaiting
  <2> DEFINE R == Reqs
             S == Reqs'
             n == Len(Reqs)
  <2>2. /\ n \in Nat /\ DOMAIN R = 1 .. n /\ DOMAIN S = 1 .. n + 1
        /\ \A i \in 1 .. n : S[i] = R[i]
        /\ S[n + 1] = q
    BY <1>5, <1>6
  <2>3. /\ Awaiting(rob, rg_erob_head, ff_load, R, ff_load_result, ff_store_broadcast)
        /\ Apart(ff_load, R, ff_load_result)
    BY <2>0
  <2> HIDE DEF R, S, n
  <2>4. Awaiting(rob, rg_erob_head, <<>>, S, ff_load_result, ff_store_broadcast)
    <3>1. \A i \in DOMAIN S : IsLoad(S[i]) => Awaited(rob, rg_erob_head, S[i].tag, S[i].loc)
      <4> SUFFICES ASSUME NEW i \in DOMAIN S, IsLoad(S[i])
                   PROVE  Awaited(rob, rg_erob_head, S[i].tag, S[i].loc)
        OBVIOUS
      <4>1. CASE i = n + 1
        BY <1>4, <2>1, <2>2, <4>1
      <4>2. CASE i \in 1 .. n
        BY <2>2, <2>3, <4>2 DEF Awaiting
      <4> QED BY <2>2, <4>1, <4>2
    <3> QED BY <2>3, <3>1 DEF Awaiting
  <2>5. Apart(<<>>, S, ff_load_result)
    <3>1. \A i \in 1 .. n : IsLoad(R[i]) => R[i].tag # x.tag
      BY <1>2, <2>2, <2>3 DEF Apart
    <3>2. ASSUME NEW i \in DOMAIN S, NEW j \in DOMAIN S, i # j, IsLoad(S[i]), IsLoad(S[j])
          PROVE  S[i].tag # S[j].tag
      <4>1. CASE i \in 1 .. n /\ j \in 1 .. n
        BY <2>2, <2>3, <3>2, <4>1 DEF Apart
      <4>2. CASE i = n + 1 /\ j \in 1 .. n
        BY <1>4, <2>2, <3>1, <3>2, <4>2
      <4>3. CASE j = n + 1 /\ i \in 1 .. n
        BY <1>4, <2>2, <3>1, <3>2, <4>3
      <4> QED BY <2>2, <3>2, <4>1, <4>2, <4>3
    <3>3. ASSUME NEW i \in DOMAIN ff_load_result, NEW j \in DOMAIN S, IsLoad(S[j])
          PROVE  ff_load_result[i].tag # S[j].tag
      <4>1. CASE j \in 1 .. n
        BY <2>2, <2>3, <3>3, <4>1 DEF Apart
      <4>2. CASE j = n + 1
        BY <1>2, <1>4, <2>2, <2>3, <4>2 DEF Apart
      <4> QED BY <2>2, <4>1, <4>2
    <3> QED BY <3>2, <3>3 DEF Apart
  <2> QED BY <1>3, <2>4, <2>5 DEF Answers, S
<1> QED BY <1>7, <1>8, <1>9 DEF LSInv

LEMMA AcceptStep ==
  ASSUME LSInv, DcacheAccept
  PROVE  LSInv'
<1>1. /\ dcache' = Reqs /\ ff_request' = <<>>
      /\ UNCHANGED <<rob, rg_erob_head, store_q, rg_store_q_head, rg_store_q_tail,
                     load_q, rg_load_q_head, rg_load_q_tail, ff_load, ff_load_result,
                     ff_store_broadcast>>
  BY DEF DcacheAccept, ls_queues, Reqs
<1>2. Reqs \in Seq(Request)
  BY FifoSeq DEF LSInv
<1>3. Reqs' = Reqs
  <2>1. Reqs' = Reqs \o <<>>
    BY <1>1 DEF Reqs
  <2> QED BY <1>2, <2>1, ConcatEmptySeq
<1>4. RobType' /\ QueueType' /\ Queues'
  BY <1>1 DEF LSInv, RobType, QueueType, Queues
<1>5. FifoType'
  BY <1>1, <1>2 DEF LSInv, FifoType
<1>6. Answers'
  BY <1>1, <1>3 DEF LSInv, Answers
<1> QED BY <1>4, <1>5, <1>6 DEF LSInv
(* The oldest request is served.                                           *)
LEMMA ServeAnswers ==
  ASSUME NEW r, NEW h, NEW ffl, NEW R, NEW S, NEW res, NEW sb, NEW n \in Nat \ {0},
         DOMAIN R = 1 .. n, DOMAIN S = 1 .. n - 1, \A i \in 1 .. n - 1 : S[i] = R[i + 1],
         Awaiting(r, h, ffl, R, res, sb), Apart(ffl, R, res)
  PROVE  Awaiting(r, h, ffl, S, res, sb) /\ Apart(ffl, S, res)
<1>1. \A i \in DOMAIN S : i + 1 \in DOMAIN R /\ S[i] = R[i + 1] /\ i + 1 # 1
  OBVIOUS
<1>2. \A i \in DOMAIN S : IsLoad(S[i]) => Awaited(r, h, S[i].tag, S[i].loc)
  BY <1>1 DEF Awaiting
<1>3. Awaiting(r, h, ffl, S, res, sb)
  BY <1>2 DEF Awaiting
<1>4. ASSUME NEW i \in DOMAIN S, NEW j \in DOMAIN S, i # j, IsLoad(S[i]), IsLoad(S[j])
      PROVE  S[i].tag # S[j].tag
  <2>1. i + 1 # j + 1
    BY <1>4
  <2> QED BY <1>1, <1>4, <2>1 DEF Apart
<1>5. \A i \in DOMAIN ffl, j \in DOMAIN S : IsLoad(S[j]) => ffl[i].tag # S[j].tag
  BY <1>1 DEF Apart
<1>6. \A i \in DOMAIN res, j \in DOMAIN S : IsLoad(S[j]) => res[i].tag # S[j].tag
  BY <1>1 DEF Apart
<1>7. Apart(ffl, S, res)
  BY <1>4, <1>5, <1>6 DEF Apart
<1> QED BY <1>3, <1>7

LEMMA WriteStep ==
  ASSUME LSInv, DcacheWrite
  PROVE  LSInv'
<1>1. /\ dcache # <<>> /\ dcache' = Tail(dcache)
      /\ UNCHANGED <<rob, rg_erob_head, store_q, rg_store_q_head, rg_store_q_tail,
                     load_q, rg_load_q_head, rg_load_q_tail, ff_load, ff_request,
                     ff_load_result, ff_store_broadcast>>
  BY DEF DcacheWrite, ls_queues
<1>2. /\ dcache' \in Seq(Request) /\ Len(Reqs) \in Nat \ {0}
      /\ DOMAIN Reqs' = 1 .. Len(Reqs) - 1
      /\ \A i \in 1 .. Len(Reqs) - 1 : Reqs'[i] = Reqs[i + 1]
  BY <1>1, ServeFifo DEF LSInv
<1>3. DOMAIN Reqs = 1 .. Len(Reqs)
  BY FifoSeq DEF LSInv
<1>4. /\ Awaiting(rob, rg_erob_head, ff_load, Reqs', ff_load_result, ff_store_broadcast)
      /\ Apart(ff_load, Reqs', ff_load_result)
  BY <1>2, <1>3, ServeAnswers DEF LSInv, Answers
<1>5. RobType' /\ QueueType' /\ Queues'
  BY <1>1 DEF LSInv, RobType, QueueType, Queues
<1>6. FifoType'
  BY <1>1, <1>2 DEF LSInv, FifoType
<1> QED BY <1>1, <1>4, <1>5, <1>6 DEF LSInv, Answers

LEMMA ResultStep ==
  ASSUME LSInv, GetLoadResult
  PROVE  LSInv'
<1>1. /\ dcache # <<>> /\ dcache' = Tail(dcache) /\ ff_load_result = <<>>
      /\ IsLoad(Head(dcache))
      /\ UNCHANGED <<rob, rg_erob_head, store_q, rg_store_q_head, rg_store_q_tail,
                     load_q, rg_load_q_head, rg_load_q_tail, ff_load, ff_request,
                     ff_store_broadcast>>
  BY DEF GetLoadResult, ls_queues, IsLoad
<1>2. /\ dcache' \in Seq(Request) /\ Len(Reqs) \in Nat \ {0} /\ Reqs[1] = Head(dcache)
      /\ Head(dcache) \in Request
      /\ DOMAIN Reqs' = 1 .. Len(Reqs) - 1
      /\ \A i \in 1 .. Len(Reqs) - 1 : Reqs'[i] = Reqs[i + 1]
  BY <1>1, ServeFifo DEF LSInv
<1>3. DOMAIN Reqs = 1 .. Len(Reqs) /\ 1 \in DOMAIN Reqs
  BY <1>2, FifoSeq DEF LSInv
<1> DEFINE x == Head(dcache)
           d == Read(mem, x.loc)
<1>4. ff_load_result' = <<[tag |-> x.tag, data |-> d]>> /\ DOMAIN d = Cells(x.loc)
  BY DEF GetLoadResult, Read
<1>r. Reqs[1] = x /\ IsLoad(x) /\ x \in Request
  BY <1>1, <1>2
<1> HIDE DEF x, d
<1>5. /\ Awaiting(rob, rg_erob_head, ff_load, Reqs', ff_load_result, ff_store_broadcast)
      /\ Apart(ff_load, Reqs', ff_load_result)
      /\ \A i \in DOMAIN Reqs' : IsLoad(Reqs'[i]) => Reqs'[i].tag # x.tag
  <2> DEFINE R == Reqs
             S == Reqs'
             n == Len(Reqs)
  <2>1. /\ n \in Nat \ {0} /\ DOMAIN R = 1 .. n /\ DOMAIN S = 1 .. n - 1
        /\ \A i \in 1 .. n - 1 : S[i] = R[i + 1]
        /\ R[1] = x
        /\ Awaiting(rob, rg_erob_head, ff_load, R, ff_load_result, ff_store_broadcast)
        /\ Apart(ff_load, R, ff_load_result)
    BY <1>2, <1>3, <1>r DEF LSInv, Answers
  <2> HIDE DEF R, S, n
  <2>2. /\ Awaiting(rob, rg_erob_head, ff_load, S, ff_load_result, ff_store_broadcast)
        /\ Apart(ff_load, S, ff_load_result)
    BY <2>1, ServeAnswers
  <2>3. IsLoad(R[1]) => \A i \in DOMAIN S : IsLoad(S[i]) => S[i].tag # R[1].tag
    <3>1. \A i \in DOMAIN S : i + 1 \in DOMAIN R /\ S[i] = R[i + 1] /\ i + 1 # 1
      BY <2>1
    <3>2. 1 \in DOMAIN R
      BY <2>1
    <3> QED BY <2>1, <3>1, <3>2 DEF Apart
  <2> QED BY <1>r, <2>1, <2>2, <2>3 DEF S
<1>6. /\ Awaited(rob, rg_erob_head, x.tag, x.loc)
      /\ \A i \in DOMAIN ff_load : ff_load[i].tag # x.tag
  <2> QED BY <1>r, <1>3 DEF LSInv, Answers, Awaiting, Apart
<1> DEFINE res == <<[tag |-> x.tag, data |-> d]>>
<1>7. DOMAIN res = {1} /\ res[1].tag = x.tag /\ res[1].data = d
  OBVIOUS
<1>8. RobType' /\ QueueType' /\ Queues'
  BY <1>1 DEF LSInv, RobType, QueueType, Queues
<1>9. FifoType'
  <2>1. x.tag \in Tag
    BY <1>r DEF Request
  <2> QED BY <1>1, <1>2, <1>4, <2>1 DEF LSInv, FifoType
<1> HIDE DEF res
<1> DEFINE S == Reqs'
<1>10. /\ Awaiting(rob, rg_erob_head, ff_load, S, ff_load_result, ff_store_broadcast)
       /\ Apart(ff_load, S, ff_load_result)
       /\ \A i \in DOMAIN S : IsLoad(S[i]) => S[i].tag # x.tag
  BY <1>5
<1> HIDE DEF S
<1>11. Awaiting(rob, rg_erob_head, ff_load, S, res, ff_store_broadcast)
  BY <1>4, <1>6, <1>7, <1>10 DEF Awaiting
<1>12. Apart(ff_load, S, res)
  BY <1>6, <1>7, <1>10 DEF Apart
<1>13. Answers'
  BY <1>1, <1>4, <1>11, <1>12 DEF Answers, S, res
<1> QED BY <1>8, <1>9, <1>13 DEF LSInv
-----------------------------------------------------------------------------
(* The steps that advance an instruction in the ROB.                       *)

(* The instructions keep their type and their place in a queue.            *)
LEMMA ShapeKept ==
  ASSUME NEW r, NEW s, DOMAIN s = DOMAIN r,
         \A k \in DOMAIN r : s[k].mem_type = r[k].mem_type /\ s[k].index = r[k].index,
         NEW type, NEW F, NEW head, NEW tail, QueueOK(r, type, F, head, tail)
  PROVE  QueueOK(s, type, F, head, tail)
<1>1. Own(s, type) = Own(r, type) /\ Own(r, type) \subseteq DOMAIN r
  BY DEF Own
<1> QED BY <1>1, QueueSame

LEMMA QueuesKept ==
  ASSUME Queues, DOMAIN rob' = DOMAIN rob,
         \A k \in DOMAIN rob : rob'[k].mem_type = rob[k].mem_type /\ rob'[k].index = rob[k].index,
         Filled(store_q') = Filled(store_q), Filled(load_q') = Filled(load_q),
         UNCHANGED <<rg_store_q_head, rg_store_q_tail, rg_load_q_head, rg_load_q_tail>>
  PROVE  Queues'
<1> DEFINE r == rob
           s == rob'
<1>1. /\ DOMAIN s = DOMAIN r
      /\ \A k \in DOMAIN r : s[k].mem_type = r[k].mem_type /\ s[k].index = r[k].index
      /\ QueueOK(r, "STR", Filled(store_q), rg_store_q_head, rg_store_q_tail)
      /\ QueueOK(r, "LD", Filled(load_q), rg_load_q_head, rg_load_q_tail)
  BY DEF Queues
<1> HIDE DEF r, s
<1>2. QueueOK(s, "STR", Filled(store_q), rg_store_q_head, rg_store_q_tail)
  BY <1>1, ShapeKept
<1>3. QueueOK(s, "LD", Filled(load_q), rg_load_q_head, rg_load_q_tail)
  BY <1>1, ShapeKept
<1> QED BY <1>2, <1>3 DEF Queues, s

(* Instruction k is replaced by x.                                         *)
LEMMA RobExcept ==
  ASSUME NEW D, rob \in Seq(Inst(D)), NEW k \in DOMAIN rob, NEW C, NEW x \in Inst(C)
  PROVE  LET s == [rob EXCEPT ![k] = x]
         IN  /\ s \in Seq(Inst(D \cup C)) /\ Len(s) = Len(rob) /\ DOMAIN s = DOMAIN rob
             /\ s[k] = x /\ \A j \in DOMAIN rob : j # k => s[j] = rob[j]
<1>1. Inst(D) \subseteq Inst(D \cup C) /\ Inst(C) \subseteq Inst(D \cup C)
  BY DEF Inst
<1>2. rob \in Seq(Inst(D \cup C))
  BY <1>1, SeqMonotonic
<1>3. x \in Inst(D \cup C)
  BY <1>1
<1>5. k \in 1 .. Len(rob)
  OBVIOUS
<1> DEFINE s == [rob EXCEPT ![k] = x]
<1>4. s \in Seq(Inst(D \cup C)) /\ Len(s) = Len(rob)
  BY <1>2, <1>3, <1>5, ExceptSeq
<1> QED BY <1>4

LEMMA IssueStoreStep ==
  ASSUME LSInv, NEW k \in DOMAIN rob, NEW l \in Loc, NEW v \in Val, IssueStore(k, l, v)
  PROVE  LSInv'
<1>1. PICK D : rob \in Seq(Inst(D))
  BY DEF LSInv, RobType
<1>2. /\ Len(rob) \in 0 .. ENTRY_ROB_SIZE /\ DOMAIN rob = 1 .. Len(rob)
      /\ rob[k] \in Inst(D) /\ rob[k].index \in MemQ
  BY <1>1, RobDomain DEF LSInv
<1>3. /\ rob[k].mem_type = "STR" /\ rob[k].stage = "map"
      /\ ff_store_broadcast = <<>> /\ ff_store_broadcast' = <<At(rg_erob_head, k)>>
      /\ store_q' = [store_q EXCEPT ![rob[k].index] =
                       [filled |-> TRUE, valid |-> TRUE, loc |-> l, data |-> v]]
      /\ UNCHANGED <<rg_erob_head, rg_store_q_head, rg_store_q_tail, load_q, rg_load_q_head,
                     rg_load_q_tail, ff_load, ff_request, ff_load_result, dcache>>
  BY DEF IssueStore, TagAt, At
<1> DEFINE x == [rob[k] EXCEPT !.stage = "issued", !.loc = l, !.data = Fill(l, v)]
<1>4. rob' = [rob EXCEPT ![k] = x]
  BY <1>1, <1>2 DEF IssueStore
<1>5. /\ x \in Inst({Fill(l, v)}) /\ x.mem_type = "STR" /\ x.index = rob[k].index
      /\ x.stage = "issued"
  BY <1>2, <1>3 DEF Inst, Stage
<1> HIDE DEF x
<1>6. /\ rob' \in Seq(Inst(D \cup {Fill(l, v)})) /\ Len(rob') = Len(rob)
      /\ DOMAIN rob' = DOMAIN rob
      /\ rob'[k] = x /\ \A j \in DOMAIN rob : j # k => rob'[j] = rob[j]
  BY <1>1, <1>4, <1>5, RobExcept
<1>7. RobType'
  BY <1>3, <1>6 DEF LSInv, RobType
<1>8. QueueType' /\ Filled(store_q') = Filled(store_q)
  <2>1. store_q \in [MemQ -> StoreEntry]
    BY DEF LSInv, QueueType
  <2>2. store_q[rob[k].index].filled
    BY <1>3 DEF LSInv, Queues, QueueOK, Own, Filled
  <2>3. store_q' \in [MemQ -> StoreEntry]
    BY <1>2, <1>3, <2>1 DEF StoreEntry
  <2>4. \A i \in MemQ : store_q'[i].filled = store_q[i].filled
    <3>1. store_q[rob[k].index] \in StoreEntry
      BY <1>2, <2>1
    <3>2. store_q[rob[k].index].filled = TRUE
      BY <2>2, <3>1 DEF StoreEntry
    <3> QED BY <1>2, <1>3, <2>1, <3>2
  <2> QED BY <1>3, <2>3, <2>4, FilledSame DEF LSInv, QueueType
<1>9. FifoType'
  <2>1. At(rg_erob_head, k) \in Tag
    BY <1>2, SizeAssumption DEF LSInv, RobType, Tag, At
  <2> QED BY <1>3, <2>1 DEF LSInv, FifoType
<1>10. Queues'
  <2>1. \A j \in DOMAIN rob : rob'[j].mem_type = rob[j].mem_type /\ rob'[j].index = rob[j].index
    BY <1>3, <1>5, <1>6
  <2> QED BY <1>3, <1>6, <1>8, <2>1, QueuesKept DEF LSInv
<1>11. Answers'
  <2> DEFINE h == rg_erob_head
  <2>1. \A tag, m : Awaited(rob, h, tag, m) => Awaited(rob', h, tag, m)
    BY <1>3, <1>6 DEF Awaited
  <2>2. \A tag : StoreAwaited(rob, h, tag) => StoreAwaited(rob', h, tag)
    BY <1>3, <1>6 DEF StoreAwaited
  <2>3. Awaiting(rob', h, ff_load, Reqs, ff_load_result, ff_store_broadcast)
    <3>1. Awaiting(rob, h, ff_load, Reqs, ff_load_result, ff_store_broadcast)
      BY DEF LSInv, Answers
    <3> HIDE DEF h
    <3> DEFINE s == rob'
    <3>2. /\ \A tag, m : Awaited(rob, h, tag, m) => Awaited(s, h, tag, m)
          /\ \A tag : StoreAwaited(rob, h, tag) => StoreAwaited(s, h, tag)
      BY <2>1, <2>2
    <3> HIDE DEF s
    <3>3. Awaiting(s, h, ff_load, Reqs, ff_load_result, ff_store_broadcast)
      BY <3>1, <3>2, AwaitingKept
    <3> QED BY <3>3 DEF s
  <2>4. StoreAwaited(rob', h, At(h, k))
    BY <1>3, <1>5, <1>6 DEF StoreAwaited
  <2>5. \A i \in DOMAIN <<At(h, k)>> : StoreAwaited(rob', h, <<At(h, k)>>[i])
    BY <2>4
  <2>6. Awaiting(rob', h, ff_load, Reqs, ff_load_result, <<At(h, k)>>)
    BY <2>3, <2>5 DEF Awaiting
  <2>7. Reqs' = Reqs
    BY <1>3 DEF Reqs
  <2> QED BY <1>3, <2>6, <2>7 DEF LSInv, Answers
<1> QED BY <1>7, <1>8, <1>9, <1>10, <1>11 DEF LSInv

LEMMA IssueLoadStep ==
  ASSUME LSInv, NEW k \in DOMAIN rob, NEW l \in Loc, IssueLoad(k, l)
  PROVE  LSInv'
<1>1. PICK D : rob \in Seq(Inst(D))
  BY DEF LSInv, RobType
<1>2. /\ Len(rob) \in 0 .. ENTRY_ROB_SIZE /\ DOMAIN rob = 1 .. Len(rob)
      /\ rob[k] \in Inst(D) /\ rob[k].index \in MemQ
  BY <1>1, RobDomain DEF LSInv
<1> DEFINE i == rob[k].index
           q == [store_mask |-> load_q[i].store_mask, loc |-> l, index |-> i,
                 tag |-> At(rg_erob_head, k)]
<1>3. /\ rob[k].mem_type = "LD" /\ rob[k].stage = "map"
      /\ ff_load = <<>> /\ ff_load' = <<q>>
      /\ load_q' = [load_q EXCEPT ![i].valid = TRUE, ![i].loc = l]
      /\ UNCHANGED <<rg_erob_head, store_q, rg_store_q_head, rg_store_q_tail, rg_load_q_head,
                     rg_load_q_tail, ff_request, ff_load_result, ff_store_broadcast, dcache>>
  BY DEF IssueLoad, TagAt, At
<1> DEFINE x == [rob[k] EXCEPT !.stage = "issued", !.loc = l]
<1>4. rob' = [rob EXCEPT ![k] = x]
  BY <1>1, <1>2 DEF IssueLoad
<1>5. /\ x \in Inst(D) /\ x.mem_type = "LD" /\ x.index = i
      /\ x.stage = "issued" /\ x.loc = l
  BY <1>2, <1>3 DEF Inst, Stage
<1> HIDE DEF x
<1>6. /\ rob' \in Seq(Inst(D \cup D)) /\ Len(rob') = Len(rob)
      /\ DOMAIN rob' = DOMAIN rob
      /\ rob'[k] = x /\ \A j \in DOMAIN rob : j # k => rob'[j] = rob[j]
  BY <1>1, <1>4, <1>5, RobExcept
<1>7. RobType'
  BY <1>3, <1>6 DEF LSInv, RobType
<1>8. load_q \in [MemQ -> LoadEntry] /\ load_q[i] \in LoadEntry
  BY <1>2 DEF LSInv, QueueType
<1>9. QueueType' /\ Filled(load_q') = Filled(load_q)
  <2> DEFINE e == [load_q[i] EXCEPT !.valid = TRUE, !.loc = l]
  <2>1. e \in LoadEntry /\ e.filled = load_q[i].filled
    BY <1>8 DEF LoadEntry
  <2>2. load_q' = [load_q EXCEPT ![i] = e]
    BY <1>2, <1>3, <1>8
  <2> HIDE DEF e, i
  <2>3. load_q' \in [MemQ -> LoadEntry] /\ \A j \in MemQ : load_q'[j].filled = load_q[j].filled
    BY <1>8, <2>1, <2>2
  <2> QED BY <1>3, <2>3, FilledSame DEF LSInv, QueueType
<1>10. At(rg_erob_head, k) \in Tag
  BY <1>2, SizeAssumption DEF LSInv, RobType, Tag, At
<1>11. q \in LoadReq /\ q.tag = At(rg_erob_head, k) /\ q.loc = l
  BY <1>2, <1>8, <1>10 DEF LoadReq, LoadEntry
<1> HIDE DEF q
<1>12. FifoType'
  BY <1>3, <1>11 DEF LSInv, FifoType
<1>13. Queues'
  <2>1. \A j \in DOMAIN rob : rob'[j].mem_type = rob[j].mem_type /\ rob'[j].index = rob[j].index
    BY <1>3, <1>5, <1>6
  <2> QED BY <1>3, <1>6, <1>9, <2>1, QueuesKept DEF LSInv
<1>14. Answers'
  <2> DEFINE h == rg_erob_head
  <2>0. /\ Awaiting(rob, h, ff_load, Reqs, ff_load_result, ff_store_broadcast)
        /\ Apart(ff_load, Reqs, ff_load_result)
    BY DEF LSInv, Answers
  <2>1. \A tag, m : Awaited(rob, h, tag, m) => Awaited(rob', h, tag, m)
    BY <1>3, <1>6 DEF Awaited
  <2>2. \A tag : StoreAwaited(rob, h, tag) => StoreAwaited(rob', h, tag)
    BY <1>3, <1>6 DEF StoreAwaited
  <2>3. \A tag, m : Awaited(rob, h, tag, m) => tag # q.tag
    <3> SUFFICES ASSUME NEW m, Awaited(rob, h, q.tag, m) PROVE FALSE
      OBVIOUS
    <3>1. PICK j \in DOMAIN rob : At(h, j) = q.tag /\ rob[j].stage = "issued"
      BY DEF Awaited
    <3>2. j \in 1 .. ENTRY_ROB_SIZE /\ k \in 1 .. ENTRY_ROB_SIZE /\ h \in Tag
      BY <1>2, SizeAssumption DEF LSInv, RobType
    <3>3. j = k
      BY <1>11, <3>1, <3>2, AtInjective
    <3> QED BY <1>3, <3>1, <3>3
  <2>4. Awaited(rob', h, q.tag, q.loc)
    BY <1>5, <1>6, <1>11 DEF Awaited
  <2> HIDE DEF h
  <2>5. Awaiting(rob', h, ff_load, Reqs, ff_load_result, ff_store_broadcast)
    <3> DEFINE s == rob'
    <3>2. /\ \A tag, m : Awaited(rob, h, tag, m) => Awaited(s, h, tag, m)
          /\ \A tag : StoreAwaited(rob, h, tag) => StoreAwaited(s, h, tag)
      BY <2>1, <2>2
    <3> HIDE DEF s
    <3>3. Awaiting(s, h, ff_load, Reqs, ff_load_result, ff_store_broadcast)
      BY <2>0, <3>2, AwaitingKept
    <3> QED BY <3>3 DEF s
  <2>6. DOMAIN <<q>> = {1} /\ <<q>>[1] = q
    OBVIOUS
  <2>7. Awaiting(rob', h, <<q>>, Reqs, ff_load_result, ff_store_broadcast)
    BY <2>4, <2>5, <2>6 DEF Awaiting
  <2>8. Apart(<<q>>, Reqs, ff_load_result)
    <3>1. \A j \in DOMAIN Reqs : IsLoad(Reqs[j]) => q.tag # Reqs[j].tag
      BY <2>0, <2>3 DEF Awaiting
    <3>2. \A j \in DOMAIN ff_load_result : ff_load_result[j].tag # q.tag
      BY <2>0, <2>3 DEF Awaiting
    <3> QED BY <2>0, <2>6, <3>1, <3>2 DEF Apart
  <2>9. Reqs' = Reqs
    BY <1>3 DEF Reqs
  <2> QED BY <1>3, <2>7, <2>8, <2>9 DEF Answers, h
<1> QED BY <1>7, <1>9, <1>12, <1>13, <1>14 DEF LSInv

(* A broadcast of the tag t: instructions with other tags stay as they are.*)
LEMMA BroadcastStep ==
  ASSUME LSInv, NEW t, NEW C, rob' \in [DOMAIN rob -> Inst(C)],
         \A k \in DOMAIN rob :
           /\ rob'[k].mem_type = rob[k].mem_type /\ rob'[k].index = rob[k].index
           /\ At(rg_erob_head, k) # t => rob'[k] = rob[k],
         UNCHANGED <<rg_erob_head, store_q, rg_store_q_head, rg_store_q_tail,
                     load_q, rg_load_q_head, rg_load_q_tail>>,
         NEW ffl, NEW reqs, NEW res, NEW sb,
         Awaiting(rob, rg_erob_head, ffl, reqs, res, sb),
         \A i \in DOMAIN ffl : ffl[i].tag # t,
         \A i \in DOMAIN reqs : IsLoad(reqs[i]) => reqs[i].tag # t,
         \A i \in DOMAIN res : res[i].tag # t,
         \A i \in DOMAIN sb : sb[i] # t
  PROVE  RobType' /\ QueueType' /\ Queues' /\ Awaiting(rob', rg_erob_head', ffl, reqs, res, sb)
<1>1. /\ Len(rob) \in 0 .. ENTRY_ROB_SIZE /\ DOMAIN rob = 1 .. Len(rob)
  BY RobDomain DEF LSInv
<1>2. Len(rob) \in Nat /\ rob' \in [1 .. Len(rob) -> Inst(C)]
  BY <1>1
<1>3. rob' \in Seq(Inst(C)) /\ Len(rob') = Len(rob) /\ DOMAIN rob' = DOMAIN rob
  <2> DEFINE n == Len(rob)
             s == rob'
  <2>1. n \in Nat /\ s \in [1 .. n -> Inst(C)] /\ DOMAIN rob = 1 .. n
    BY <1>1, <1>2
  <2> HIDE DEF n, s
  <2>2. s \in Seq(Inst(C)) /\ Len(s) = n /\ DOMAIN s = DOMAIN rob
    BY <2>1, SeqDef
  <2> QED BY <2>2 DEF n, s
<1>4. RobType'
  BY <1>3 DEF LSInv, RobType
<1>5. QueueType' /\ Queues'
  BY <1>3, QueuesKept DEF LSInv, QueueType
<1> DEFINE s == rob'
           h == rg_erob_head
<1>6. /\ DOMAIN s = DOMAIN rob /\ \A k \in DOMAIN rob : At(h, k) # t => s[k] = rob[k]
      /\ Awaiting(rob, h, ffl, reqs, res, sb)
  BY <1>3
<1> HIDE DEF s, h
<1>7. \A tag, l : tag \notin {t} /\ Awaited(rob, h, tag, l) => Awaited(s, h, tag, l)
  BY <1>6 DEF Awaited
<1>8. \A tag : tag \notin {t} /\ StoreAwaited(rob, h, tag) => StoreAwaited(s, h, tag)
  BY <1>6 DEF StoreAwaited
<1>9. /\ \A i \in DOMAIN ffl : ffl[i].tag \notin {t}
      /\ \A i \in DOMAIN reqs : IsLoad(reqs[i]) => reqs[i].tag \notin {t}
      /\ \A i \in DOMAIN res : res[i].tag \notin {t}
      /\ \A i \in DOMAIN sb : sb[i] \notin {t}
  OBVIOUS
<1>10. Awaiting(s, h, ffl, reqs, res, sb)
  <2> DEFINE Gone == {t}
  <2>1. /\ \A tag, l : tag \notin Gone /\ Awaited(rob, h, tag, l) => Awaited(s, h, tag, l)
        /\ \A tag : tag \notin Gone /\ StoreAwaited(rob, h, tag) => StoreAwaited(s, h, tag)
        /\ \A i \in DOMAIN ffl : ffl[i].tag \notin Gone
        /\ \A i \in DOMAIN reqs : IsLoad(reqs[i]) => reqs[i].tag \notin Gone
        /\ \A i \in DOMAIN res : res[i].tag \notin Gone
        /\ \A i \in DOMAIN sb : sb[i] \notin Gone
    BY <1>7, <1>8, <1>9
  <2> HIDE DEF Gone
  <2> QED BY <1>6, <2>1, AwaitingMoves
<1>11. Awaiting(rob', rg_erob_head', ffl, reqs, res, sb)
  <2>1. rg_erob_head' = h
    BY DEF h
  <2> QED BY <1>10, <2>1 DEF s
<1> QED BY <1>4, <1>5, <1>11

LEMMA LoadBroadcastStep ==
  ASSUME LSInv, LoadBroadcast
  PROVE  LSInv'
<1>0. PICK t \in Tag : \E d : ff_load_result = <<[tag |-> t, data |-> d]>>
  BY DEF LSInv, FifoType, LoadBroadcast
<1>1. PICK d : ff_load_result = <<[tag |-> t, data |-> d]>>
  BY <1>0
<1>2. /\ Head(ff_load_result).tag = t /\ Head(ff_load_result).data = d
      /\ DOMAIN ff_load_result = {1} /\ ff_load_result[1].tag = t
  <2> DEFINE y == [tag |-> t, data |-> d]
  <2>1. ff_load_result = <<y>> /\ y.tag = t /\ y.data = d
    BY <1>1
  <2> HIDE DEF y
  <2> QED BY <2>1, OneEntry
<1> DEFINE h == rg_erob_head
           x(k) == [rob[k] EXCEPT !.stage = "done", !.data = d]
<1>3. /\ ff_load_result' = <<>>
      /\ rob' = [k \in DOMAIN rob |-> IF At(h, k) = t THEN x(k) ELSE rob[k]]
      /\ UNCHANGED <<rg_erob_head, store_q, rg_store_q_head, rg_store_q_tail,
                     load_q, rg_load_q_head, rg_load_q_tail, ff_load, ff_request,
                     ff_store_broadcast, dcache>>
  BY <1>2 DEF LoadBroadcast, TagAt, At, ls_queues
<1>4. PICK D : rob \in Seq(Inst(D))
  BY DEF LSInv, RobType
<1>5. \A k \in DOMAIN rob : rob[k] \in Inst(D)
  BY <1>4
<1>6. \A k \in DOMAIN rob : /\ rob[k] \in Inst(D \cup {d}) /\ x(k) \in Inst(D \cup {d})
                            /\ x(k).mem_type = rob[k].mem_type /\ x(k).index = rob[k].index
  BY <1>5 DEF Inst, Stage
<1> HIDE DEF x
<1>7. /\ rob' \in [DOMAIN rob -> Inst(D \cup {d})]
      /\ \A k \in DOMAIN rob :
           /\ rob'[k].mem_type = rob[k].mem_type /\ rob'[k].index = rob[k].index
           /\ At(h, k) # t => rob'[k] = rob[k]
  BY <1>3, <1>6
<1>8. /\ Awaiting(rob, h, ff_load, Reqs, ff_load_result, ff_store_broadcast)
      /\ Apart(ff_load, Reqs, ff_load_result)
  BY DEF LSInv, Answers
<1>9. /\ \A i \in DOMAIN ff_load : ff_load[i].tag # t
      /\ \A i \in DOMAIN Reqs : IsLoad(Reqs[i]) => Reqs[i].tag # t
  BY <1>2, <1>8 DEF Apart
<1>10. \A i \in DOMAIN ff_store_broadcast : ff_store_broadcast[i] # t
  <2>1. PICK l : Awaited(rob, h, t, l)
    BY <1>2, <1>8 DEF Awaiting
  <2>2. h \in Tag /\ Len(rob) \in 0 .. ENTRY_ROB_SIZE /\ DOMAIN rob = 1 .. Len(rob)
    BY RobDomain DEF LSInv, RobType
  <2>3. ~StoreAwaited(rob, h, t)
    BY <2>1, <2>2, KindsApart
  <2> QED BY <1>8, <2>3 DEF Awaiting
<1>11. Awaiting(rob, h, ff_load, Reqs, <<>>, ff_store_broadcast)
  BY <1>8 DEF Awaiting
<1>12. /\ RobType' /\ QueueType' /\ Queues'
       /\ Awaiting(rob', rg_erob_head', ff_load, Reqs, <<>>, ff_store_broadcast)
  <2> DEFINE none == <<>>
             reqs == Reqs
             C == D \cup {d}
  <2>1. \A i \in DOMAIN none : none[i].tag # t
    OBVIOUS
  <2>2. /\ \A i \in DOMAIN reqs : IsLoad(reqs[i]) => reqs[i].tag # t
        /\ Awaiting(rob, rg_erob_head, ff_load, reqs, none, ff_store_broadcast)
        /\ rob' \in [DOMAIN rob -> Inst(C)]
    BY <1>7, <1>9, <1>11
  <2> HIDE DEF none, reqs, C
  <2>3. /\ RobType' /\ QueueType' /\ Queues'
        /\ Awaiting(rob', rg_erob_head', ff_load, reqs, none, ff_store_broadcast)
    BY <1>3, <1>7, <1>9, <1>10, <2>1, <2>2, BroadcastStep
  <2> QED BY <2>3 DEF none, reqs
<1>13. FifoType'
  BY <1>3 DEF LSInv, FifoType
<1>14. Apart(ff_load, Reqs, <<>>)
  BY <1>8 DEF Apart
<1>15. Reqs' = Reqs
  BY <1>3 DEF Reqs
<1>16. Answers'
  BY <1>3, <1>12, <1>14, <1>15 DEF Answers
<1> QED BY <1>12, <1>13, <1>16 DEF LSInv

LEMMA StoreBroadcastStep ==
  ASSUME LSInv, StoreBroadcast
  PROVE  LSInv'
<1>1. PICK t \in Tag : ff_store_broadcast = <<t>>
  BY DEF LSInv, FifoType, StoreBroadcast
<1>2. /\ Head(ff_store_broadcast) = t
      /\ DOMAIN ff_store_broadcast = {1} /\ ff_store_broadcast[1] = t
  BY <1>1
<1> DEFINE h == rg_erob_head
           x(k) == [rob[k] EXCEPT !.stage = "done"]
<1>3. /\ ff_store_broadcast' = <<>>
      /\ rob' = [k \in DOMAIN rob |-> IF At(h, k) = t THEN x(k) ELSE rob[k]]
      /\ UNCHANGED <<rg_erob_head, store_q, rg_store_q_head, rg_store_q_tail,
                     load_q, rg_load_q_head, rg_load_q_tail, ff_load, ff_request,
                     ff_load_result, dcache>>
  BY <1>2 DEF StoreBroadcast, TagAt, At, ls_queues
<1>4. PICK D : rob \in Seq(Inst(D))
  BY DEF LSInv, RobType
<1>5. \A k \in DOMAIN rob : rob[k] \in Inst(D)
  BY <1>4
<1>6. \A k \in DOMAIN rob : /\ rob[k] \in Inst(D) /\ x(k) \in Inst(D)
                            /\ x(k).mem_type = rob[k].mem_type /\ x(k).index = rob[k].index
  BY <1>5 DEF Inst, Stage
<1> HIDE DEF x
<1>7. /\ rob' \in [DOMAIN rob -> Inst(D)]
      /\ \A k \in DOMAIN rob :
           /\ rob'[k].mem_type = rob[k].mem_type /\ rob'[k].index = rob[k].index
           /\ At(h, k) # t => rob'[k] = rob[k]
  BY <1>3, <1>6
<1>8. /\ Awaiting(rob, h, ff_load, Reqs, ff_load_result, ff_store_broadcast)
      /\ Apart(ff_load, Reqs, ff_load_result)
  BY DEF LSInv, Answers
<1>9. \A l : ~Awaited(rob, h, t, l)
  <2>1. StoreAwaited(rob, h, t)
    BY <1>2, <1>8 DEF Awaiting
  <2>2. h \in Tag /\ Len(rob) \in 0 .. ENTRY_ROB_SIZE /\ DOMAIN rob = 1 .. Len(rob)
    BY RobDomain DEF LSInv, RobType
  <2> QED BY <2>1, <2>2, KindsApart
<1>10. /\ \A i \in DOMAIN ff_load : ff_load[i].tag # t
       /\ \A i \in DOMAIN Reqs : IsLoad(Reqs[i]) => Reqs[i].tag # t
       /\ \A i \in DOMAIN ff_load_result : ff_load_result[i].tag # t
  BY <1>8, <1>9 DEF Awaiting
<1>11. Awaiting(rob, h, ff_load, Reqs, ff_load_result, <<>>)
  BY <1>8 DEF Awaiting
<1>12. /\ RobType' /\ QueueType' /\ Queues'
       /\ Awaiting(rob', rg_erob_head', ff_load, Reqs, ff_load_result, <<>>)
  <2> DEFINE none == <<>>
             reqs == Reqs
  <2>1. \A i \in DOMAIN none : none[i] # t
    OBVIOUS
  <2>2. /\ \A i \in DOMAIN reqs : IsLoad(reqs[i]) => reqs[i].tag # t
        /\ Awaiting(rob, rg_erob_head, ff_load, reqs, ff_load_result, none)
    BY <1>10, <1>11
  <2> HIDE DEF none, reqs
  <2>3. /\ RobType' /\ QueueType' /\ Queues'
        /\ Awaiting(rob', rg_erob_head', ff_load, reqs, ff_load_result, none)
    BY <1>3, <1>7, <1>10, <2>1, <2>2, BroadcastStep
  <2> QED BY <2>3 DEF none, reqs
<1>13. FifoType'
  BY <1>3 DEF LSInv, FifoType
<1>14. Reqs' = Reqs
  BY <1>3 DEF Reqs
<1>15. Answers'
  BY <1>3, <1>8, <1>12, <1>14 DEF Answers
<1> QED BY <1>12, <1>13, <1>15 DEF LSInv
-----------------------------------------------------------------------------
(* Commit: the instruction at the head leaves the ROB and its queue.       *)

LEMMA LeaveRob ==
  ASSUME LSInv, rob # <<>>, rob[1].stage = "done",
         rob' = Tail(rob), rg_erob_head' = IncTag(rg_erob_head)
  PROVE  /\ Len(rob) - 1 \in 0 .. ENTRY_ROB_SIZE - 1 /\ DOMAIN rob = 1 .. (Len(rob) - 1) + 1
         /\ DOMAIN rob' = 1 .. Len(rob) - 1
         /\ \A k \in 1 .. Len(rob) - 1 : rob'[k] = rob[k + 1]
         /\ RobType'
         /\ Awaiting(rob', rg_erob_head', ff_load, Reqs, ff_load_result, ff_store_broadcast)
<1> DEFINE n == Len(rob) - 1
           s == rob'
           h == rg_erob_head
           reqs == Reqs
<1>1. PICK D : rob \in Seq(Inst(D))
  BY DEF LSInv, RobType
<1>2. Len(rob) \in 0 .. ENTRY_ROB_SIZE /\ DOMAIN rob = 1 .. Len(rob) /\ h \in Tag
  BY RobDomain DEF LSInv, RobType
<1>3. Len(rob) # 0
  BY <1>1, EmptySeq
<1>4. /\ s \in Seq(Inst(D)) /\ Len(s) = n
      /\ \A k \in 1 .. n : s[k] = rob[k + 1]
  BY <1>1, HeadTailProperties
<1>5. n \in 0 .. ENTRY_ROB_SIZE - 1 /\ n \in Nat /\ DOMAIN rob = 1 .. n + 1 /\ Len(rob) = n + 1
  BY <1>2, <1>3, SizeAssumption
<1>6. DOMAIN s = 1 .. n
  BY <1>4, LenProperties
<1>7. Awaiting(rob, h, ff_load, reqs, ff_load_result, ff_store_broadcast)
  BY DEF LSInv, Answers
<1>8. RobType'
  <2>1. IncTag(h) \in Tag
    BY <1>2, SizeAssumption DEF IncTag, Tag
  <2>2. Len(rob') <= ENTRY_ROB_SIZE
    BY <1>4, <1>5, SizeAssumption
  <2>3. rg_erob_head' \in Tag
    BY <2>1
  <2>4. \E C : rob' \in Seq(Inst(C))
    BY <1>4
  <2> QED BY <2>2, <2>3, <2>4 DEF RobType
<1>9. rob' = s /\ rg_erob_head' = IncTag(h)
  OBVIOUS
<1>10. n = Len(rob) - 1
  OBVIOUS
<1> HIDE DEF n, s, h
<1>11. /\ \A tag, l : Awaited(rob, h, tag, l) => Awaited(s, IncTag(h), tag, l)
       /\ \A tag : StoreAwaited(rob, h, tag) => StoreAwaited(s, IncTag(h), tag)
  BY <1>2, <1>4, <1>5, <1>6, AwaitedLeave
<1> HIDE DEF reqs
<1>12. Awaiting(s, IncTag(h), ff_load, reqs, ff_load_result, ff_store_broadcast)
  BY <1>7, <1>11, AwaitingKept
<1> QED BY <1>4, <1>5, <1>6, <1>8, <1>9, <1>12 DEF n, reqs

(* The committed store does not empty an entry of the load queue.          *)
LEMMA AliasKeeps ==
  ASSUME NEW ld \in LoadEntry, NEW s
  PROVE  Alias(ld, s) \in LoadEntry /\ Alias(ld, s).filled = ld.filled
<1>1. [ld EXCEPT !.forward_ack = TRUE] \in LoadEntry /\ [ld EXCEPT !.aliased = TRUE] \in LoadEntry
  BY DEF LoadEntry
<1>2. /\ [ld EXCEPT !.forward_ack = TRUE].filled = ld.filled
      /\ [ld EXCEPT !.aliased = TRUE].filled = ld.filled
  BY DEF LoadEntry
<1> QED BY <1>1, <1>2, Zenon DEF Alias

(* The entry at the head is given free.                                    *)
LEMMA FilledWithout ==
  ASSUME NEW q, DOMAIN q = MemQ, NEW h \in MemQ, NEW p,
         \A i \in MemQ : i # h => p[i] = q[i], ~p[h].filled
  PROVE  Filled(p) = Filled(q) \ {h}
  BY DEF Filled

LEMMA CommitStoreStep ==
  ASSUME LSInv, CommitStore
  PROVE  LSInv'
<1> DEFINE n == Len(rob) - 1
           hd == rg_store_q_head
           e == store_q[hd]
           q == [ld_st |-> "Store", loc |-> e.loc, data |-> e.data, tag |-> 0]
<1>1. /\ rob # <<>> /\ rob[1].mem_type = "STR" /\ rob[1].stage = "done"
      /\ rob' = Tail(rob) /\ rg_erob_head' = IncTag(rg_erob_head)
      /\ store_q' = [store_q EXCEPT ![hd].filled = FALSE]
      /\ rg_store_q_head' = Inc(hd)
      /\ load_q' = [i \in MemQ |-> Alias(load_q[i], e)]
      /\ EnqRequest(q)
      /\ UNCHANGED <<rg_store_q_tail, rg_load_q_head, rg_load_q_tail, ff_load,
                     ff_load_result, ff_store_broadcast>>
  BY DEF CommitStore, AtHead
<1>2. /\ n \in 0 .. ENTRY_ROB_SIZE - 1 /\ DOMAIN rob = 1 .. n + 1 /\ DOMAIN rob' = 1 .. n
      /\ \A k \in 1 .. n : rob'[k] = rob[k + 1]
      /\ RobType'
      /\ Awaiting(rob', rg_erob_head', ff_load, Reqs, ff_load_result, ff_store_broadcast)
  BY <1>1, LeaveRob
<1>3. hd \in MemQ /\ store_q \in [MemQ -> StoreEntry] /\ load_q \in [MemQ -> LoadEntry]
  BY DEF LSInv, QueueType, Queues, QueueOK
<1>4. e \in StoreEntry /\ e.loc \in Loc /\ e.data \in Val
  BY <1>3 DEF StoreEntry
<1>5. q \in Request /\ ~IsLoad(q)
  BY <1>4, SizeAssumption DEF Request, Tag, IsLoad
<1>6. /\ store_q' \in [MemQ -> StoreEntry] /\ Filled(store_q') = Filled(store_q) \ {hd}
  <2> DEFINE f == [e EXCEPT !.filled = FALSE]
  <2>1. f \in StoreEntry /\ f.filled = FALSE
    BY <1>4 DEF StoreEntry
  <2>2. store_q' = [store_q EXCEPT ![hd] = f]
    BY <1>1
  <2> HIDE DEF f, e
  <2>3. /\ store_q' \in [MemQ -> StoreEntry]
        /\ \A i \in MemQ : i # hd => store_q'[i] = store_q[i]
        /\ store_q'[hd] = f
    BY <1>3, <2>1, <2>2
  <2>4. ~store_q'[hd].filled /\ DOMAIN store_q = MemQ
    BY <1>3, <2>1, <2>3
  <2> HIDE DEF hd
  <2> QED BY <1>3, <2>3, <2>4, FilledWithout
<1>7. load_q' \in [MemQ -> LoadEntry] /\ Filled(load_q') = Filled(load_q)
  <2> HIDE DEF e
  <2>1. \A i \in MemQ : /\ Alias(load_q[i], e) \in LoadEntry
                        /\ Alias(load_q[i], e).filled = load_q[i].filled
    BY <1>3, AliasKeeps
  <2>2. /\ load_q' \in [MemQ -> LoadEntry]
        /\ \A i \in MemQ : load_q'[i].filled = load_q[i].filled
    BY <1>1, <2>1
  <2> QED BY <2>2, FilledSame
<1>8. QueueType'
  BY <1>6, <1>7 DEF QueueType
<1> HIDE DEF q, e
<1>9. /\ dcache' \in Seq(Request) /\ ff_request' = <<q>>
      /\ DOMAIN Reqs' = 1 .. Len(Reqs) + 1
      /\ \A i \in 1 .. Len(Reqs) : Reqs'[i] = Reqs[i]
      /\ Reqs'[Len(Reqs) + 1] = q
  BY <1>1, <1>5, EnqFifo DEF LSInv
<1>10. FifoType'
  BY <1>1, <1>5, <1>9 DEF LSInv, FifoType
<1>11. Queues'
  <2> DEFINE r == rob
             s == rob'
  <2>1. /\ n \in Nat /\ DOMAIN r = 1 .. n + 1 /\ DOMAIN s = 1 .. n
        /\ \A k \in 1 .. n : s[k] = r[k + 1]
        /\ r[1].mem_type = "STR"
        /\ QueueOK(r, "STR", Filled(store_q), hd, rg_store_q_tail)
        /\ QueueOK(r, "LD", Filled(load_q), rg_load_q_head, rg_load_q_tail)
    BY <1>1, <1>2 DEF LSInv, Queues
  <2>2. s = rob' /\ rg_store_q_head' = Inc(hd)
    BY <1>1
  <2> HIDE DEF r, s, n, hd
  <2>3. QueueOK(s, "STR", Filled(store_q) \ {hd}, Inc(hd), rg_store_q_tail)
    BY <2>1, QueueLeave
  <2>4. QueueOK(s, "LD", Filled(load_q), rg_load_q_head, rg_load_q_tail)
    BY <2>1, QueueShift
  <2> QED BY <1>1, <1>6, <1>7, <2>2, <2>3, <2>4 DEF Queues
<1>12. Answers'
  <2> DEFINE R == Reqs
             S == Reqs'
             m == Len(Reqs)
  <2>1. /\ m \in Nat /\ DOMAIN R = 1 .. m /\ DOMAIN S = 1 .. m + 1
        /\ \A i \in 1 .. m : S[i] = R[i]
        /\ S[m + 1] = q
    BY <1>9, FifoSeq DEF LSInv
  <2>2. /\ Awaiting(rob', rg_erob_head', ff_load, R, ff_load_result, ff_store_broadcast)
        /\ Apart(ff_load, R, ff_load_result)
    BY <1>2 DEF LSInv, Answers
  <2> HIDE DEF R, S, m
  <2>3. \A i \in DOMAIN S : IsLoad(S[i]) => i \in DOMAIN R /\ S[i] = R[i]
    <3> SUFFICES ASSUME NEW i \in DOMAIN S, IsLoad(S[i]) PROVE i \in DOMAIN R /\ S[i] = R[i]
      OBVIOUS
    <3>1. i # m + 1
      BY <1>5, <2>1
    <3> QED BY <2>1, <3>1
  <2>4. Awaiting(rob', rg_erob_head', ff_load, S, ff_load_result, ff_store_broadcast)
    BY <2>2, <2>3 DEF Awaiting
  <2>5. Apart(ff_load, S, ff_load_result)
    BY <2>2, <2>3 DEF Apart
  <2> QED BY <1>1, <2>4, <2>5 DEF Answers, S
<1> QED BY <1>2, <1>8, <1>10, <1>11, <1>12 DEF LSInv

LEMMA CommitLoadStep ==
  ASSUME LSInv, CommitLoad
  PROVE  LSInv'
<1> DEFINE n == Len(rob) - 1
           hd == rg_load_q_head
           e == load_q[hd]
<1>1. /\ rob # <<>> /\ rob[1].mem_type = "LD" /\ rob[1].stage = "done"
      /\ rob' = Tail(rob) /\ rg_erob_head' = IncTag(rg_erob_head)
      /\ load_q' = [load_q EXCEPT ![hd].filled = FALSE]
      /\ rg_load_q_head' = Inc(hd)
      /\ UNCHANGED <<store_q, rg_store_q_head, rg_store_q_tail, rg_load_q_tail, ff_load,
                     ff_request, ff_load_result, ff_store_broadcast, dcache>>
  BY DEF CommitLoad, AtHead
<1>2. /\ n \in 0 .. ENTRY_ROB_SIZE - 1 /\ DOMAIN rob = 1 .. n + 1 /\ DOMAIN rob' = 1 .. n
      /\ \A k \in 1 .. n : rob'[k] = rob[k + 1]
      /\ RobType'
      /\ Awaiting(rob', rg_erob_head', ff_load, Reqs, ff_load_result, ff_store_broadcast)
  BY <1>1, LeaveRob
<1>3. hd \in MemQ /\ load_q \in [MemQ -> LoadEntry]
  BY DEF LSInv, QueueType, Queues, QueueOK
<1>4. e \in LoadEntry
  BY <1>3
<1>5. /\ load_q' \in [MemQ -> LoadEntry] /\ Filled(load_q') = Filled(load_q) \ {hd}
  <2> DEFINE f == [e EXCEPT !.filled = FALSE]
  <2>1. f \in LoadEntry /\ f.filled = FALSE
    BY <1>4 DEF LoadEntry
  <2>2. load_q' = [load_q EXCEPT ![hd] = f]
    BY <1>1
  <2> HIDE DEF f, e
  <2>3. /\ load_q' \in [MemQ -> LoadEntry]
        /\ \A i \in MemQ : i # hd => load_q'[i] = load_q[i]
        /\ load_q'[hd] = f
    BY <1>3, <2>1, <2>2
  <2>4. ~load_q'[hd].filled /\ DOMAIN load_q = MemQ
    BY <1>3, <2>1, <2>3
  <2> HIDE DEF hd
  <2> QED BY <1>3, <2>3, <2>4, FilledWithout
<1>6. QueueType' /\ FifoType'
  BY <1>1, <1>5 DEF LSInv, QueueType, FifoType
<1>7. Queues'
  <2> DEFINE r == rob
             s == rob'
  <2>1. /\ n \in Nat /\ DOMAIN r = 1 .. n + 1 /\ DOMAIN s = 1 .. n
        /\ \A k \in 1 .. n : s[k] = r[k + 1]
        /\ r[1].mem_type = "LD"
        /\ QueueOK(r, "STR", Filled(store_q), rg_store_q_head, rg_store_q_tail)
        /\ QueueOK(r, "LD", Filled(load_q), hd, rg_load_q_tail)
    BY <1>1, <1>2 DEF LSInv, Queues
  <2>2. s = rob' /\ rg_load_q_head' = Inc(hd)
    BY <1>1
  <2> HIDE DEF r, s, n, hd
  <2>3. QueueOK(s, "LD", Filled(load_q) \ {hd}, Inc(hd), rg_load_q_tail)
    BY <2>1, QueueLeave
  <2>4. QueueOK(s, "STR", Filled(store_q), rg_store_q_head, rg_store_q_tail)
    BY <2>1, QueueShift
  <2> QED BY <1>1, <1>5, <2>2, <2>3, <2>4 DEF Queues
<1>8. Reqs' = Reqs
  BY <1>1 DEF Reqs
<1>9. Answers'
  BY <1>1, <1>2, <1>8 DEF LSInv, Answers
<1> QED BY <1>2, <1>6, <1>7, <1>9 DEF LSInv
-----------------------------------------------------------------------------
(* Dispatch: the ROB and the queues grow by up to two instructions.        *)

LEMMA QueueEntered ==
  ASSUME NEW r, NEW n \in Nat, NEW s, NEW x, Grown(r, n, s, x),
         NEW type, NEW F, NEW head, NEW tail, QueueOK(r, type, F, head, tail)
  PROVE  /\ x.mem_type # type => QueueOK(s, type, F, head, tail)
         /\ x.mem_type = type /\ x.index = tail /\ ~(head = tail /\ F = MemQ)
              => QueueOK(s, type, F \cup {tail}, head, Inc(tail))
<1>1. /\ DOMAIN r = 1 .. n /\ DOMAIN s = 1 .. n + 1 /\ \A k \in 1 .. n : s[k] = r[k]
      /\ s[n + 1] = x
  BY DEF Grown
<1>2. ASSUME x.mem_type # type PROVE QueueOK(s, type, F, head, tail)
  <2>1. Own(s, type) = Own(r, type) /\ \A k \in Own(r, type) : s[k].index = r[k].index
    BY <1>1, <1>2 DEF Own
  <2> QED BY <2>1, QueueSame
<1>3. ASSUME x.mem_type = type, x.index = tail, ~(head = tail /\ F = MemQ)
      PROVE  QueueOK(s, type, F \cup {tail}, head, Inc(tail))
  BY <1>3, QueueEnter
<1> QED BY <1>2, <1>3

(* What one queue sees of a packet: r1 is the ROB after the first, s after *)
(* the second request.                                                     *)
LEMMA QueueAllot ==
  ASSUME NEW req \in Mem_type \X Mem_type, NEW type \in {"LD", "STR"},
         NEW r, NEW n \in Nat, NEW r1, NEW m \in Nat, NEW s, NEW x1, NEW x2,
         req[1] = "NOP" => r1 = r,
         req[1] # "NOP" => Grown(r, n, r1, x1),
         req[2] = "NOP" => s = r1,
         req[2] # "NOP" => Grown(r1, m, s, x2),
         NEW F, NEW head, NEW tail, QueueOK(r, type, F, head, tail),
         x1.mem_type = req[1], x2.mem_type = req[2],
         req[1] = type => x1.index = tail,
         req[2] = type => x2.index = QIndex(req, 2, tail),
         type \in {req[1], req[2]} => ~(head = tail /\ F = MemQ) /\ Inc(tail) # head
  PROVE  /\ QueueOK(s, type, F \cup {i \in MemQ : EnteredAt(req, type, tail, i) # {}},
                    head, Moved(req, type, tail))
<1> DEFINE N == {i \in MemQ : EnteredAt(req, type, tail, i) # {}}
           F1 == IF req[1] = type THEN F \cup {tail} ELSE F
           t1 == IF req[1] = type THEN Inc(tail) ELSE tail
           F2 == IF req[2] = type THEN F1 \cup {t1} ELSE F1
           t2 == IF req[2] = type THEN Inc(t1) ELSE t1
<1>1. head \in MemQ /\ tail \in MemQ /\ Inc(tail) \in MemQ /\ type # "NOP"
  BY IncValue DEF QueueOK
<1>2. QueueOK(r1, type, F1, head, t1)
  <2>1. CASE req[1] = type
    BY <1>1, <2>1, QueueEntered
  <2>2. CASE req[1] # type
    BY <1>1, <2>2, QueueEntered
  <2> QED BY <2>1, <2>2
<1>3. req[2] = type => x2.index = t1 /\ ~(head = t1 /\ F1 = MemQ)
  BY DEF QIndex
<1>4. F2 = F \cup N /\ t2 = Moved(req, type, tail)
  <2>1. \A i \in MemQ : EnteredAt(req, type, tail, i) # {} <=>
          \/ req[1] = type /\ i = tail
          \/ req[2] = type /\ i = QIndex(req, 2, tail)
    <3>1. QIndex(req, 1, tail) = tail
      BY DEF QIndex
    <3>2. \A k : k \in 1 .. 2 <=> k = 1 \/ k = 2
      OBVIOUS
    <3> QED BY <3>1, <3>2, Zenon DEF EnteredAt
  <2>2. req[2] = type => QIndex(req, 2, tail) = t1
    BY DEF QIndex
  <2>3. F2 = F \cup N
    BY <1>1, <2>1, <2>2
  <2>4. t2 = Moved(req, type, tail)
    BY DEF Moved
  <2> QED BY <2>3, <2>4
<1> HIDE DEF F1, t1
<1>5. QueueOK(s, type, F2, head, t2)
  <2>1. CASE req[2] = type
    <3>1. Grown(r1, m, s, x2) /\ x2.mem_type = type /\ x2.index = t1 /\ ~(head = t1 /\ F1 = MemQ)
      BY <1>1, <1>3, <2>1
    <3>2. QueueOK(s, type, F1 \cup {t1}, head, Inc(t1))
      BY <1>2, <3>1, QueueEntered
    <3> QED BY <2>1, <3>2
  <2>2. CASE req[2] # type
    BY <1>1, <1>2, <2>2, QueueEntered
  <2> QED BY <2>1, <2>2
<1> QED BY <1>4, <1>5

LEMMA AppendGrown ==
  ASSUME NEW S, NEW r \in Seq(S), NEW x \in S
  PROVE  /\ Grown(r, Len(r), Append(r, x), x) /\ Append(r, x) \in Seq(S)
         /\ Len(Append(r, x)) = Len(r) + 1
<1>1. /\ Append(r, x) \in Seq(S) /\ Len(Append(r, x)) = Len(r) + 1
      /\ \A i \in 1 .. Len(r) : Append(r, x)[i] = r[i]
      /\ Append(r, x)[Len(r) + 1] = x
  BY AppendProperties
<1>2. DOMAIN r = 1 .. Len(r) /\ DOMAIN Append(r, x) = 1 .. Len(r) + 1
  BY <1>1, LenProperties
<1> QED BY <1>1, <1>2 DEF Grown

(* Two instructions at once are one after the other.                       *)
LEMMA ConcatTwo ==
  ASSUME NEW S, NEW r \in Seq(S), NEW x \in S, NEW y \in S
  PROVE  /\ r \o (<<>> \o <<>>) = r
         /\ r \o (<<x>> \o <<>>) = Append(r, x)
         /\ r \o (<<>> \o <<y>>) = Append(r, y)
         /\ r \o (<<x>> \o <<y>>) = Append(Append(r, x), y)
<1>1. /\ <<x>> \in Seq(S) /\ <<y>> \in Seq(S) /\ <<>> \in Seq(S)
  OBVIOUS
<1>2. /\ <<>> \o <<>> = <<>> /\ <<x>> \o <<>> = <<x>> /\ <<>> \o <<y>> = <<y>>
  BY <1>1, ConcatEmptySeq
<1>3. r \o <<>> = r
  BY ConcatEmptySeq
<1>4. r \o <<x>> = Append(r, x) /\ r \o <<y>> = Append(r, y)
  BY AppendIsConcat
<1>5. Append(r, x) \in Seq(S)
  BY AppendProperties
<1>6. r \o (<<x>> \o <<y>>) = (r \o <<x>>) \o <<y>>
  BY <1>1, ConcatAssociative
<1>7. Append(r, x) \o <<y>> = Append(Append(r, x), y)
  BY <1>5, AppendIsConcat
<1> QED BY <1>2, <1>3, <1>4, <1>6, <1>7

(* The ROB after a packet: r1 is the ROB after the first request.          *)
LEMMA AllotRob ==
  ASSUME LSInv, NEW p \in Packets, Allot(p)
  PROVE  \E C, r1 :
           /\ rob \in Seq(Inst(C)) /\ r1 \in Seq(Inst(C)) /\ rob' \in Seq(Inst(C))
           /\ p.req[1] = "NOP" => r1 = rob /\ Len(r1) = Len(rob)
           /\ p.req[1] # "NOP" => /\ Grown(rob, Len(rob), r1, NewInst(p.req, 1))
                                 /\ Len(r1) = Len(rob) + 1
           /\ p.req[2] = "NOP" => rob' = r1 /\ Len(rob') = Len(r1)
           /\ p.req[2] # "NOP" => /\ Grown(r1, Len(r1), rob', NewInst(p.req, 2))
                                 /\ Len(rob') = Len(r1) + 1
<1> DEFINE req == p.req
           x1 == NewInst(req, 1)
           x2 == NewInst(req, 2)
           d0 == Fill(AnyLoc, 0)
<1>1. /\ req \in Mem_type \X Mem_type /\ p.valid1 \in BOOLEAN
      /\ ~p.valid1 => req[2] = "NOP"
  BY PacketsAssumption
<1>2. req[1] \in Mem_type /\ req[2] \in Mem_type
  BY <1>1
<1>3. PICK D : rob \in Seq(Inst(D))
  BY DEF LSInv, RobType
<1> DEFINE C == D \cup {d0}
           r1 == IF req[1] = "NOP" THEN rob ELSE Append(rob, x1)
           s == IF req[2] = "NOP" THEN r1 ELSE Append(r1, x2)
<1>4. /\ rg_store_q_head \in MemQ /\ rg_store_q_tail \in MemQ
      /\ rg_load_q_head \in MemQ /\ rg_load_q_tail \in MemQ
      /\ store_q \in [MemQ -> StoreEntry] /\ load_q \in [MemQ -> LoadEntry]
  BY DEF LSInv, QueueType, Queues, QueueOK
<1>5. AnyLoc \in Loc
  BY LocAssumption DEF AnyLoc
<1>6. /\ x1.mem_type = req[1] /\ x2.mem_type = req[2]
      /\ req[1] = "LD" => x1.index = rg_load_q_tail
      /\ req[1] = "STR" => x1.index = rg_store_q_tail
      /\ req[2] = "LD" => x2.index = QIndex(req, 2, rg_load_q_tail)
      /\ req[2] = "STR" => x2.index = QIndex(req, 2, rg_store_q_tail)
  BY DEF NewInst, QIndex
<1>7. /\ req[1] # "NOP" => x1 \in Inst(C)
      /\ req[2] # "NOP" => x2 \in Inst(C)
  <2>1. \A k \in 1 .. 2 : /\ QIndex(req, k, rg_load_q_tail) \in MemQ
                          /\ QIndex(req, k, rg_store_q_tail) \in MemQ
    BY <1>4, IncValue DEF QIndex
  <2>2. ASSUME NEW k \in 1 .. 2, req[k] # "NOP" PROVE NewInst(req, k) \in Inst(C)
    <3>1. req[k] \in {"LD", "STR"}
      BY <1>2, <2>2 DEF Mem_type
    <3>2. d0 \in C
      OBVIOUS
    <3> HIDE DEF d0, C, req
    <3>3. NewInst(req, k) =
            [mem_type |-> req[k],
             index |-> QIndex(req, k, IF req[k] = "LD" THEN rg_load_q_tail ELSE rg_store_q_tail),
             stage |-> "map", loc |-> AnyLoc, data |-> d0]
      BY DEF NewInst, d0
    <3>4. QIndex(req, k, IF req[k] = "LD" THEN rg_load_q_tail ELSE rg_store_q_tail) \in MemQ
      BY <2>1
    <3> QED BY <1>5, <3>1, <3>2, <3>3, <3>4 DEF Inst, Stage
  <2> QED BY <2>2
<1>8. rob \in Seq(Inst(C))
  <2>1. Inst(D) \subseteq Inst(C)
    BY DEF Inst
  <2> QED BY <1>3, <2>1, SeqMonotonic
<1>9. rob' = s
  <2>0. rob' = rob \o ((IF req[1] = "NOP" THEN <<>> ELSE <<x1>>)
                         \o (IF req[2] # "NOP" THEN <<x2>> ELSE <<>>))
    BY <1>1 DEF Allot, Dispatched
  <2> HIDE DEF x1, x2, req, C
  <2>1. CASE req[1] = "NOP" /\ req[2] = "NOP"
    BY <1>8, <2>0, <2>1, ConcatEmptySeq
  <2>2. CASE req[1] # "NOP" /\ req[2] = "NOP"
    BY <1>7, <1>8, <2>0, <2>2, ConcatTwo
  <2>3. CASE req[1] = "NOP" /\ req[2] # "NOP"
    BY <1>7, <1>8, <2>0, <2>3, ConcatTwo
  <2>4. CASE req[1] # "NOP" /\ req[2] # "NOP"
    BY <1>7, <1>8, <2>0, <2>4, ConcatTwo
  <2> QED BY <2>1, <2>2, <2>3, <2>4
<1> DEFINE n == Len(rob)
           m == Len(r1)
<1> HIDE DEF x1, x2, C
<1>11. /\ n \in Nat /\ r1 \in Seq(Inst(C))
       /\ req[1] = "NOP" => r1 = rob /\ m = n
       /\ req[1] # "NOP" => Grown(rob, n, r1, x1) /\ m = n + 1
  <2>1. CASE req[1] = "NOP"
    BY <1>8, <2>1
  <2>2. CASE req[1] # "NOP"
    BY <1>7, <1>8, <2>2, AppendGrown
  <2> QED BY <2>1, <2>2
<1> HIDE DEF r1
<1>12. /\ m \in Nat /\ s \in Seq(Inst(C))
       /\ req[2] = "NOP" => s = r1 /\ Len(s) = m
       /\ req[2] # "NOP" => Grown(r1, m, s, x2) /\ Len(s) = m + 1
  <2>1. CASE req[2] = "NOP"
    BY <1>11, <2>1
  <2>2. CASE req[2] # "NOP"
    BY <1>7, <1>11, <2>2, AppendGrown
  <2> QED BY <2>1, <2>2
<1> QED BY <1>8, <1>9, <1>11, <1>12 DEF n, m, x1, x2

LEMMA AllotStep ==
  ASSUME LSInv, NEW p \in Packets, Allot(p)
  PROVE  LSInv'
<1> DEFINE req == p.req
           x1 == NewInst(req, 1)
           x2 == NewInst(req, 2)
           n == Len(rob)
           s == rob'
<1>1. req \in Mem_type \X Mem_type
  BY PacketsAssumption
<1>2. req[1] \in Mem_type /\ req[2] \in Mem_type
  BY <1>1
<1>3. PICK C, r1 :
        /\ rob \in Seq(Inst(C)) /\ r1 \in Seq(Inst(C)) /\ s \in Seq(Inst(C))
        /\ req[1] = "NOP" => r1 = rob /\ Len(r1) = n
        /\ req[1] # "NOP" => Grown(rob, n, r1, x1) /\ Len(r1) = n + 1
        /\ req[2] = "NOP" => s = r1 /\ Len(s) = Len(r1)
        /\ req[2] # "NOP" => Grown(r1, Len(r1), s, x2) /\ Len(s) = Len(r1) + 1
  BY AllotRob, Zenon
<1> DEFINE m == Len(r1)
<1>4. /\ rg_store_q_head \in MemQ /\ rg_store_q_tail \in MemQ
      /\ rg_load_q_head \in MemQ /\ rg_load_q_tail \in MemQ
      /\ store_q \in [MemQ -> StoreEntry] /\ load_q \in [MemQ -> LoadEntry]
  BY DEF LSInv, QueueType, Queues, QueueOK
<1>5. AnyLoc \in Loc
  BY LocAssumption DEF AnyLoc
<1>6. /\ x1.mem_type = req[1] /\ x2.mem_type = req[2]
      /\ req[1] = "LD" => x1.index = rg_load_q_tail
      /\ req[1] = "STR" => x1.index = rg_store_q_tail
      /\ req[2] = "LD" => x2.index = QIndex(req, 2, rg_load_q_tail)
      /\ req[2] = "STR" => x2.index = QIndex(req, 2, rg_store_q_tail)
  BY DEF NewInst, QIndex
<1>9. rob' = s
  OBVIOUS
<1>10. /\ Len(rob) + 2 <= ENTRY_ROB_SIZE
       /\ "LD" \in {req[1], req[2]} => ~load_q_full
       /\ "STR" \in {req[1], req[2]} => ~store_q_full
       /\ load_q' = [i \in MemQ |->
            LET ks == EnteredAt(req, "LD", rg_load_q_tail, i)
            IN  IF ks = {} THEN load_q[i]
                ELSE [EmptyLoad EXCEPT !.filled = TRUE,
                                       !.store_mask = StoreMask(req, CHOOSE k \in ks : TRUE)]]
       /\ store_q' = [i \in MemQ |->
            IF EnteredAt(req, "STR", rg_store_q_tail, i) = {} THEN store_q[i]
            ELSE [EmptyStore EXCEPT !.filled = TRUE]]
       /\ rg_load_q_tail' = Moved(req, "LD", rg_load_q_tail)
       /\ rg_store_q_tail' = Moved(req, "STR", rg_store_q_tail)
       /\ UNCHANGED <<rg_erob_head, rg_store_q_head, rg_load_q_head, ff_load, ff_request,
                      ff_load_result, ff_store_broadcast, dcache>>
  BY DEF Allot
<1> HIDE DEF x1, x2
<1>11. /\ n \in Nat
       /\ req[1] = "NOP" => r1 = rob /\ m = n
       /\ req[1] # "NOP" => Grown(rob, n, r1, x1) /\ m = n + 1
  BY <1>3
<1>12. /\ m \in Nat /\ s \in Seq(Inst(C))
       /\ req[2] = "NOP" => s = r1 /\ Len(s) = m
       /\ req[2] # "NOP" => Grown(r1, m, s, x2) /\ Len(s) = m + 1
  BY <1>3
<1>13. Len(s) <= n + 2
  BY <1>11, <1>12
<1>14. RobType'
  <2>1. Len(rob') <= ENTRY_ROB_SIZE /\ rob' \in Seq(Inst(C))
    <3> HIDE DEF s
    <3>1. Len(s) \in Nat /\ n + 2 <= ENTRY_ROB_SIZE /\ ENTRY_ROB_SIZE \in Nat
      <4>1. Len(s) \in Nat
        BY <1>12, LenProperties
      <4> QED BY <1>10, <4>1, SizeAssumption
    <3>2. Len(s) <= ENTRY_ROB_SIZE
      <4> HIDE DEF n
      <4> QED BY <1>11, <1>13, <3>1
    <3> QED BY <1>9, <1>12, <3>2
  <2> QED BY <1>10, <2>1 DEF LSInv, RobType
<1>15. store_q' \in [MemQ -> StoreEntry]
       /\ Filled(store_q') = Filled(store_q) \cup {i \in MemQ : EnteredAt(req, "STR", rg_store_q_tail, i) # {}}
  <2> DEFINE e == [EmptyStore EXCEPT !.filled = TRUE]
             E(i) == EnteredAt(req, "STR", rg_store_q_tail, i) = {}
  <2>1. e \in StoreEntry /\ e.filled = TRUE
    BY <1>5, LocAssumption DEF EmptyStore, StoreEntry
  <2>2. store_q' = [i \in MemQ |-> IF E(i) THEN store_q[i] ELSE e]
    BY <1>10
  <2> HIDE DEF e, E
  <2>3. store_q' \in [MemQ -> StoreEntry]
    BY <1>4, <2>1, <2>2
  <2>4. \A i \in MemQ : store_q'[i].filled <=> store_q[i].filled \/ ~E(i)
    <3> SUFFICES ASSUME NEW i \in MemQ PROVE store_q'[i].filled <=> store_q[i].filled \/ ~E(i)
      OBVIOUS
    <3>1. E(i) => store_q'[i] = store_q[i]
      BY <2>2
    <3>2. ~E(i) => store_q'[i] = e
      BY <2>2
    <3> QED BY <2>1, <3>1, <3>2
  <2>5. Filled(store_q') = Filled(store_q) \cup {i \in MemQ : ~E(i)}
    BY <2>4 DEF Filled
  <2> QED BY <2>3, <2>5 DEF E
<1>16. load_q' \in [MemQ -> LoadEntry]
       /\ Filled(load_q') = Filled(load_q) \cup {i \in MemQ : EnteredAt(req, "LD", rg_load_q_tail, i) # {}}
  <2> DEFINE E(i) == EnteredAt(req, "LD", rg_load_q_tail, i) = {}
             e(i) == [EmptyLoad EXCEPT !.filled = TRUE,
                        !.store_mask = StoreMask(req,
                           CHOOSE k \in EnteredAt(req, "LD", rg_load_q_tail, i) : TRUE)]
  <2>1. \A i \in MemQ : e(i) \in LoadEntry /\ e(i).filled = TRUE
    <3>1. \A k : StoreMask(req, k) \subseteq MemQ
      BY <1>4 DEF StoreMask
    <3> QED BY <1>5, <3>1 DEF EmptyLoad, LoadEntry
  <2>2. load_q' = [i \in MemQ |-> IF E(i) THEN load_q[i] ELSE e(i)]
    BY <1>10
  <2> HIDE DEF e, E
  <2>3. load_q' \in [MemQ -> LoadEntry]
    BY <1>4, <2>1, <2>2
  <2>4. \A i \in MemQ : load_q'[i].filled <=> load_q[i].filled \/ ~E(i)
    <3> SUFFICES ASSUME NEW i \in MemQ PROVE load_q'[i].filled <=> load_q[i].filled \/ ~E(i)
      OBVIOUS
    <3>1. E(i) => load_q'[i] = load_q[i]
      BY <2>2
    <3>2. ~E(i) => load_q'[i] = e(i)
      BY <2>2
    <3> QED BY <2>1, <3>1, <3>2
  <2>5. Filled(load_q') = Filled(load_q) \cup {i \in MemQ : ~E(i)}
    BY <2>4 DEF Filled
  <2> QED BY <2>3, <2>5 DEF E
<1>17. QueueType' /\ FifoType'
  BY <1>10, <1>15, <1>16 DEF LSInv, QueueType, FifoType
<1> HIDE DEF req, n, m, s
<1>18. Queues'
  <2>1. QueueOK(s, "STR", Filled(store_q) \cup {i \in MemQ : EnteredAt(req, "STR", rg_store_q_tail, i) # {}},
                rg_store_q_head, Moved(req, "STR", rg_store_q_tail))
    <3>1. QueueOK(rob, "STR", Filled(store_q), rg_store_q_head, rg_store_q_tail)
      BY DEF LSInv, Queues
    <3>2. "STR" \in {req[1], req[2]} =>
            /\ ~(rg_store_q_head = rg_store_q_tail /\ Filled(store_q) = MemQ)
            /\ Inc(rg_store_q_tail) # rg_store_q_head
      BY <1>4, <1>10 DEF store_q_full, Filled
    <3> DEFINE type == "STR"
               F == Filled(store_q)
               head == rg_store_q_head
               tail == rg_store_q_tail
    <3>3. /\ type \in {"LD", "STR"} /\ QueueOK(rob, type, F, head, tail)
          /\ req[1] = type => x1.index = tail
          /\ req[2] = type => x2.index = QIndex(req, 2, tail)
          /\ type \in {req[1], req[2]} => ~(head = tail /\ F = MemQ) /\ Inc(tail) # head
      BY <1>6, <3>1, <3>2
    <3> HIDE DEF type, F, head, tail
    <3>4. /\ req[1] = "NOP" => r1 = rob
          /\ req[1] # "NOP" => Grown(rob, n, r1, x1)
          /\ req[2] = "NOP" => s = r1
          /\ req[2] # "NOP" => Grown(r1, m, s, x2)
          /\ n \in Nat /\ m \in Nat /\ x1.mem_type = req[1] /\ x2.mem_type = req[2]
      BY <1>6, <1>11, <1>12
    <3>5. QueueOK(s, type, F \cup {i \in MemQ : EnteredAt(req, type, tail, i) # {}},
                  head, Moved(req, type, tail))
      BY <1>1, <3>3, <3>4, QueueAllot
    <3> QED BY <3>5 DEF type, F, head, tail
  <2>2. QueueOK(s, "LD", Filled(load_q) \cup {i \in MemQ : EnteredAt(req, "LD", rg_load_q_tail, i) # {}},
                rg_load_q_head, Moved(req, "LD", rg_load_q_tail))
    <3>1. QueueOK(rob, "LD", Filled(load_q), rg_load_q_head, rg_load_q_tail)
      BY DEF LSInv, Queues
    <3>2. "LD" \in {req[1], req[2]} =>
            /\ ~(rg_load_q_head = rg_load_q_tail /\ Filled(load_q) = MemQ)
            /\ Inc(rg_load_q_tail) # rg_load_q_head
      BY <1>4, <1>10 DEF load_q_full, Filled
    <3> DEFINE type == "LD"
               F == Filled(load_q)
               head == rg_load_q_head
               tail == rg_load_q_tail
    <3>3. /\ type \in {"LD", "STR"} /\ QueueOK(rob, type, F, head, tail)
          /\ req[1] = type => x1.index = tail
          /\ req[2] = type => x2.index = QIndex(req, 2, tail)
          /\ type \in {req[1], req[2]} => ~(head = tail /\ F = MemQ) /\ Inc(tail) # head
      BY <1>6, <3>1, <3>2
    <3> HIDE DEF type, F, head, tail
    <3>4. /\ req[1] = "NOP" => r1 = rob
          /\ req[1] # "NOP" => Grown(rob, n, r1, x1)
          /\ req[2] = "NOP" => s = r1
          /\ req[2] # "NOP" => Grown(r1, m, s, x2)
          /\ n \in Nat /\ m \in Nat /\ x1.mem_type = req[1] /\ x2.mem_type = req[2]
      BY <1>6, <1>11, <1>12
    <3>5. QueueOK(s, type, F \cup {i \in MemQ : EnteredAt(req, type, tail, i) # {}},
                  head, Moved(req, type, tail))
      BY <1>1, <3>3, <3>4, QueueAllot
    <3> QED BY <3>5 DEF type, F, head, tail
  <2> QED BY <1>9, <1>10, <1>15, <1>16, <2>1, <2>2 DEF Queues
<1>19. Answers'
  <2> DEFINE h == rg_erob_head
             reqs == Reqs
  <2>1. /\ Awaiting(rob, h, ff_load, reqs, ff_load_result, ff_store_broadcast)
        /\ Apart(ff_load, reqs, ff_load_result)
    BY DEF LSInv, Answers
  <2>2. Reqs' = reqs /\ rg_erob_head' = h
    BY <1>10 DEF Reqs
  <2> HIDE DEF h, reqs
  <2>3. DOMAIN rob \subseteq DOMAIN s /\ \A k \in DOMAIN rob : s[k] = rob[k]
    <3>1. DOMAIN rob \subseteq DOMAIN r1 /\ \A k \in DOMAIN rob : r1[k] = rob[k]
      BY <1>11 DEF Grown
    <3>2. DOMAIN r1 \subseteq DOMAIN s /\ \A k \in DOMAIN r1 : s[k] = r1[k]
      BY <1>12 DEF Grown
    <3> QED BY <3>1, <3>2
  <2>4. /\ \A tag, l : Awaited(rob, h, tag, l) => Awaited(s, h, tag, l)
        /\ \A tag : StoreAwaited(rob, h, tag) => StoreAwaited(s, h, tag)
    BY <2>3 DEF Awaited, StoreAwaited
  <2>5. Awaiting(s, h, ff_load, reqs, ff_load_result, ff_store_broadcast)
    BY <2>1, <2>4, AwaitingKept
  <2> QED BY <1>9, <1>10, <2>1, <2>2, <2>5 DEF Answers
<1> QED BY <1>14, <1>17, <1>18, <1>19 DEF LSInv
-----------------------------------------------------------------------------
(* A flush, and the beginning: nothing is in flight.                       *)

LEMMA EmptyQueues ==
  ASSUME NEW type, NEW F, F = {}
  PROVE  QueueOK(<<>>, type, F, 0, 0)
<1>1. 0 \in MemQ
  BY SizeAssumption DEF MemQ
<1>2. Own(<<>>, type) = {}
  BY DEF Own
<1>3. {i \in MemQ : Distance(0, i) < Distance(0, 0)} = {}
  <2> SUFFICES ASSUME NEW i \in MemQ PROVE ~(Distance(0, i) < Distance(0, 0))
    OBVIOUS
  <2>1. Distance(0, 0) = 0 /\ Distance(0, i) \in Int /\ 0 <= Distance(0, i)
    BY <1>1, DistanceHead, DistanceType
  <2> QED BY <2>1
<1> QED BY <1>1, <1>2, <1>3 DEF QueueOK

LEMMA NothingPending ==
  Awaiting(<<>>, 0, <<>>, <<>>, <<>>, <<>>) /\ Apart(<<>>, <<>>, <<>>)
  BY DEF Awaiting, Apart

LEMMA InitLS ==
  ASSUME Init
  PROVE  LSInv
<1>1. AnyLoc \in Loc
  BY LocAssumption DEF AnyLoc
<1>2. EmptyStore \in StoreEntry /\ ~EmptyStore.filled /\ EmptyLoad \in LoadEntry /\ ~EmptyLoad.filled
  BY <1>1, LocAssumption DEF EmptyStore, EmptyLoad, StoreEntry, LoadEntry
<1> HIDE DEF EmptyStore, EmptyLoad
<1>3. QueueType /\ Filled(store_q) = {} /\ Filled(load_q) = {}
  BY <1>2 DEF Init, QueueType, Filled
<1>4. RobType
  <2>1. rob \in Seq(Inst({})) /\ Len(rob) = 0 /\ rg_erob_head = 0
    BY DEF Init
  <2> QED BY <2>1, SizeAssumption DEF RobType, Tag
<1>5. FifoType
  BY DEF Init, FifoType
<1>6. Queues
  BY <1>3, EmptyQueues DEF Init, Queues
<1>7. Reqs = <<>>
  BY DEF Init, Reqs
<1>8. Answers
  BY <1>7, NothingPending DEF Init, Answers
<1> QED BY <1>3, <1>4, <1>5, <1>6, <1>8 DEF LSInv

LEMMA ClearStep ==
  ASSUME LSInv, Clear, AbandonLoads
  PROVE  LSInv'
<1>1. store_q \in [MemQ -> StoreEntry] /\ load_q \in [MemQ -> LoadEntry]
  BY DEF LSInv, QueueType
<1>2. store_q' \in [MemQ -> StoreEntry] /\ \A i \in MemQ : ~store_q'[i].filled
  <2> DEFINE e(i) == [store_q[i] EXCEPT !.filled = FALSE]
  <2>1. \A i \in MemQ : e(i) \in StoreEntry /\ e(i).filled = FALSE
    BY <1>1 DEF StoreEntry
  <2>2. store_q' = [i \in MemQ |-> e(i)]
    BY DEF Clear
  <2> HIDE DEF e
  <2> QED BY <2>1, <2>2
<1>3. load_q' \in [MemQ -> LoadEntry] /\ \A i \in MemQ : ~load_q'[i].filled
  <2> DEFINE e(i) == [load_q[i] EXCEPT !.filled = FALSE]
  <2>1. ASSUME NEW i \in MemQ PROVE e(i) \in LoadEntry /\ e(i).filled = FALSE
    <3>1. load_q[i] \in LoadEntry
      BY <1>1
    <3> QED BY <3>1 DEF LoadEntry
  <2>2. load_q' = [i \in MemQ |-> e(i)]
    BY DEF Clear
  <2> HIDE DEF e
  <2> QED BY <2>1, <2>2
<1>4. QueueType' /\ Filled(store_q') = {} /\ Filled(load_q') = {}
  BY <1>2, <1>3 DEF QueueType, Filled
<1>5. RobType'
  <2>1. rob' \in Seq(Inst({})) /\ Len(rob') = 0 /\ rg_erob_head' = 0
    BY DEF Clear
  <2> QED BY <2>1, SizeAssumption DEF RobType, Tag
<1>6. FifoType'
  BY DEF Clear, AbandonLoads, FifoType
<1>7. Queues'
  <2>1. /\ QueueOK(<<>>, "STR", Filled(store_q'), 0, 0)
        /\ QueueOK(<<>>, "LD", Filled(load_q'), 0, 0)
    BY <1>4, EmptyQueues
  <2> QED BY <2>1 DEF Queues, Clear
<1>8. Reqs' = <<>>
  BY DEF AbandonLoads, Reqs
<1>9. Answers'
  BY <1>8, NothingPending DEF Clear, Answers
<1> QED BY <1>4, <1>5, <1>6, <1>7, <1>9 DEF LSInv
-----------------------------------------------------------------------------
(* The theorems.                                                           *)

LEMMA LSInductive ==
  ASSUME LSInv, [Next]_vars
  PROVE  LSInv'
<1>1. ASSUME NEW p \in Packets, Allot(p) PROVE LSInv'
  BY <1>1, AllotStep
<1>2. ASSUME NEW k \in DOMAIN rob, NEW l \in Loc, IssueLoad(k, l) PROVE LSInv'
  BY <1>2, IssueLoadStep
<1>3. ASSUME NEW k \in DOMAIN rob, NEW l \in Loc, NEW v \in Val, IssueStore(k, l, v) PROVE LSInv'
  BY <1>3, IssueStoreStep
<1>4. CASE Forward
  BY <1>4, ForwardStep
<1>5. CASE AccessMemory
  BY <1>5, AccessStep
<1>6. CASE DcacheAccept
  BY <1>6, AcceptStep
<1>7. CASE DcacheWrite
  BY <1>7, WriteStep
<1>8. CASE GetLoadResult
  BY <1>8, ResultStep
<1>9. CASE LoadBroadcast
  BY <1>9, LoadBroadcastStep
<1>10. CASE StoreBroadcast
  BY <1>10, StoreBroadcastStep
<1>11. CASE CommitStore
  BY <1>11, CommitStoreStep
<1>12. CASE CommitLoad
  BY <1>12, CommitLoadStep
<1>13. CASE ReplayLoad \/ Flush
  BY <1>13, ClearStep DEF ReplayLoad, Flush
<1>14. CASE UNCHANGED vars
  BY <1>14 DEF vars, ls_queues, LSInv, RobType, QueueType, FifoType, Queues, Answers, Reqs
<1> QED BY <1>1, <1>2, <1>3, <1>4, <1>5, <1>6, <1>7, <1>8, <1>9, <1>10, <1>11, <1>12, <1>13,
           <1>14 DEF Next

LEMMA LSInvariant == Spec => []LSInv
<1>1. Init => LSInv
  BY InitLS
<1>2. LSInv /\ [Next]_vars => LSInv'
  BY LSInductive
<1> QED BY <1>1, <1>2, PTL DEF Spec

(* A queue as the ROB sees it has no gap, whichever way round it lies.     *)
LEMMA QueueMatches ==
  ASSUME NEW type, NEW q, NEW head, NEW tail, QueueOK(rob, type, Filled(q), head, tail)
  PROVE  QueueMatchesRob(type, q, head)
<1>1. Own(rob, type) = InFlight(type)
  BY DEF Own, InFlight
<1>2. {i \in MemQ : q[i].filled} = {rob[k].index : k \in InFlight(type)}
  BY <1>1 DEF QueueOK, Filled
<1>3. \A j, k \in InFlight(type) :
        j < k => Distance(head, rob[j].index) < Distance(head, rob[k].index)
  BY <1>1 DEF QueueOK
<1>4. ASSUME NEW i \in MemQ, NEW j \in MemQ, q[i].filled, Distance(head, j) < Distance(head, i)
      PROVE  q[j].filled
  <2>1. i \in Filled(q) /\ head \in MemQ /\ tail \in MemQ
    BY <1>4 DEF Filled, QueueOK
  <2>2. CASE Filled(q) = {m \in MemQ : Distance(head, m) < Distance(head, tail)}
    <3>1. Distance(head, i) < Distance(head, tail)
      BY <2>1, <2>2
    <3>2. Distance(head, i) \in Int /\ Distance(head, j) \in Int /\ Distance(head, tail) \in Int
      BY <2>1, DistanceType
    <3>3. Distance(head, j) < Distance(head, tail)
      BY <1>4, <3>1, <3>2
    <3>4. j \in Filled(q)
      BY <2>2, <3>3
    <3> QED BY <3>4 DEF Filled
  <2>3. CASE Filled(q) = MemQ
    BY <2>3 DEF Filled
  <2> QED BY <2>2, <2>3 DEF QueueOK
<1> QED BY <1>2, <1>3, <1>4 DEF QueueMatchesRob

(* The store queue and the load queue hold the memory instructions of the  *)
(* ROB, in program order and without a gap from their heads, whatever is   *)
(* dispatched, issued, committed or flushed (rl_allot_mem_q,               *)
(* rl_commit_store, rl_commit_load and rl_clear_mem_queues of LS_unit.bsv),*)
(* for every size of the queues and of the ROB: the entry that commit      *)
(* takes from the head of a queue is that of the instruction that commits. *)
THEOREM QueuesMatchRobHolds == Spec => []QueuesMatchRob
<1>1. LSInv => QueuesMatchRob
  BY QueueMatches DEF LSInv, Queues, QueuesMatchRob
<1> QED BY <1>1, LSInvariant, PTL

(* A result that rl_get_load_result or a forwarding leaves for broadcast   *)
(* has the tag of an issued load of that address in the ROB, however many  *)
(* requests are on their way and whatever was flushed while they were.     *)
THEOREM AnswersAwaitedHolds == Spec => []AnswersAwaited
<1>1. LSInv => AnswersAwaited
  BY DEF LSInv, Answers, Awaiting, Awaited, AnswersAwaited, TagAt, At
<1> QED BY <1>1, LSInvariant, PTL
-----------------------------------------------------------------------------
(* Memory after the requests on their way.                                 *)

(* A set of positions that is not empty has a last one.                    *)
LEMMA LastOne ==
  ASSUME NEW n \in Nat, NEW S, S \subseteq 0 .. n, S # {}
  PROVE  Max(S) \in S /\ \A y \in S : y <= Max(S)
<1> DEFINE T == {n - x : x \in S}
<1>1. T \subseteq Nat /\ T # {}
  <2>1. \A x \in S : n - x \in Nat
    OBVIOUS
  <2>2. T \subseteq Nat
    BY <2>1
  <2> QED BY <2>2
<1> HIDE DEF T
<1>2. PICK t \in T : \A u \in T : ~(<<u, t>> \in OpToRel(<, Nat))
  BY <1>1, WFMin, NatLessThanWellFounded
<1>3. PICK x \in S : t = n - x
  BY <1>2 DEF T
<1>4. \A y \in S : n - y \in T /\ n - y \in Nat
  BY DEF T
<1>5. \A y \in S : x >= y
  <2> SUFFICES ASSUME NEW y \in S PROVE x >= y
    OBVIOUS
  <2>1. ~(n - y < n - x)
    BY <1>2, <1>3, <1>4 DEF OpToRel
  <2> QED BY <2>1
<1>6. Max(S) \in S /\ \A y \in S : Max(S) >= y
  BY <1>5, Zenon DEF Max
<1> QED BY <1>6

(* The i-th request stores to this cell.                                   *)
Brings(R, i, c) == R[i].ld_st = "Store" /\ c \in Cells(R[i].loc)

(* What the last store of a cell brings, or what is there                  *)
LEMMA AfterCell ==
  ASSUME NEW n \in Nat, NEW R, DOMAIN R = 1 .. n, NEW m, NEW c \in Cell
  PROVE  /\ (\A i \in 1 .. n : ~Brings(R, i, c)) => After(m, R)[c] = m[c]
         /\ \A i \in 1 .. n :
              Brings(R, i, c) /\ (\A j \in 1 .. n : Brings(R, j, c) => j <= i)
                => After(m, R)[c] = R[i].data
<1> DEFINE S == StoresOf(R, c)
<1>1. S = {i \in 1 .. n : Brings(R, i, c)}
  BY DEF StoresOf, Brings
<1>2. After(m, R)[c] = IF S = {} THEN m[c] ELSE R[Max(S)].data
  BY DEF After
<1> HIDE DEF S
<1>3. ASSUME NEW i \in S, \A j \in S : j <= i PROVE Max(S) = i
  <2>1. Max(S) \in S /\ \A j \in S : j <= Max(S)
    BY <1>1, <1>3, LastOne
  <2> QED BY <1>1, <1>3, <2>1
<1> QED BY <1>1, <1>2, <1>3

(* Memories are the same when they agree on every cell.                    *)
LEMMA SameCells ==
  ASSUME NEW m, NEW R, NEW k, NEW S,
         \A c \in Cell : After(m, R)[c] = After(k, S)[c]
  PROVE  After(m, R) = After(k, S)
<1>1. /\ After(m, R) = [c \in Cell |-> After(m, R)[c]]
      /\ After(k, S) = [c \in Cell |-> After(k, S)[c]]
  BY DEF After
<1> QED BY <1>1

(* A store is written: it makes no difference whether it has arrived.      *)
LEMMA AfterServed ==
  ASSUME NEW n \in Nat, NEW R, DOMAIN R = 1 .. n + 1, NEW S, DOMAIN S = 1 .. n,
         \A i \in 1 .. n : S[i] = R[i + 1], NEW m
  PROVE  After(Write(m, R[1]), S) = After(m, R)
<1> DEFINE k == Write(m, R[1])
<1>1. ASSUME NEW c \in Cell PROVE After(k, S)[c] = After(m, R)[c]
  <2>1. k[c] = IF Brings(R, 1, c) THEN R[1].data ELSE m[c]
    BY DEF Write, Brings
  <2>2. \A i \in 1 .. n : i + 1 \in 1 .. n + 1 /\ (Brings(S, i, c) <=> Brings(R, i + 1, c))
    BY DEF Brings
  <2>3. \A i \in 1 .. n + 1 : i = 1 \/ (i - 1 \in 1 .. n /\ (i - 1) + 1 = i)
    OBVIOUS
  <2> HIDE DEF k
  <2>4. /\ (\A i \in 1 .. n : ~Brings(S, i, c)) => After(k, S)[c] = k[c]
        /\ \A i \in 1 .. n :
             Brings(S, i, c) /\ (\A j \in 1 .. n : Brings(S, j, c) => j <= i)
               => After(k, S)[c] = S[i].data
    BY AfterCell
  <2>5. /\ (\A i \in 1 .. n + 1 : ~Brings(R, i, c)) => After(m, R)[c] = m[c]
        /\ \A i \in 1 .. n + 1 :
             Brings(R, i, c) /\ (\A j \in 1 .. n + 1 : Brings(R, j, c) => j <= i)
               => After(m, R)[c] = R[i].data
    <3>1. n + 1 \in Nat
      OBVIOUS
    <3> QED BY <3>1, AfterCell
  <2>6. CASE \E i \in 1 .. n : Brings(S, i, c)
    <3> DEFINE T == {i \in 1 .. n : Brings(S, i, c)}
               i == Max(T)
    <3>1. i \in T /\ \A j \in T : j <= i
      <4>1. T \subseteq 0 .. n /\ T # {}
        BY <2>6
      <4> HIDE DEF T
      <4> QED BY <4>1, LastOne
    <3>2. i \in 1 .. n /\ Brings(S, i, c) /\ \A j \in 1 .. n : Brings(S, j, c) => j <= i
      BY <3>1
    <3> HIDE DEF i, T
    <3>3. \A j \in 1 .. n + 1 : Brings(R, j, c) => j <= i + 1
      <4> SUFFICES ASSUME NEW j \in 1 .. n + 1, Brings(R, j, c) PROVE j <= i + 1
        OBVIOUS
      <4>1. CASE j = 1
        BY <3>2, <4>1
      <4>2. CASE j - 1 \in 1 .. n /\ (j - 1) + 1 = j
        <5>1. j - 1 <= i
          BY <2>2, <3>2, <4>2
        <5> QED BY <3>2, <5>1
      <4> QED BY <2>3, <4>1, <4>2
    <3>4. After(m, R)[c] = R[i + 1].data
      BY <2>2, <2>5, <3>2, <3>3
    <3> QED BY <2>4, <3>2, <3>4
  <2>7. CASE \A i \in 1 .. n : ~Brings(S, i, c)
    <3>1. \A j \in 1 .. n + 1 : Brings(R, j, c) => j = 1
      <4> SUFFICES ASSUME NEW j \in 1 .. n + 1, Brings(R, j, c), j # 1 PROVE FALSE
        OBVIOUS
      <4>1. j - 1 \in 1 .. n /\ (j - 1) + 1 = j
        BY <2>3
      <4> QED BY <2>2, <2>7, <4>1
    <3>2. Brings(R, 1, c) => After(m, R)[c] = R[1].data
      BY <2>5, <3>1
    <3>3. ~Brings(R, 1, c) => After(m, R)[c] = m[c]
      BY <2>5, <3>1
    <3> QED BY <2>1, <2>4, <2>7, <3>2, <3>3
  <2> QED BY <2>6, <2>7
<1> HIDE DEF k
<1>2. After(k, S) = After(m, R)
  BY <1>1, SameCells
<1> QED BY <1>2 DEF k

(* A request comes behind the others.                                      *)
LEMMA AfterAppended ==
  ASSUME NEW n \in Nat, NEW R, DOMAIN R = 1 .. n, NEW S, DOMAIN S = 1 .. n + 1,
         \A i \in 1 .. n : S[i] = R[i], NEW m
  PROVE  After(m, S) = Write(After(m, R), S[n + 1])
<1> DEFINE k == Write(After(m, R), S[n + 1])
<1>1. ASSUME NEW c \in Cell
      PROVE  After(m, S)[c] = IF Brings(S, n + 1, c) THEN S[n + 1].data ELSE After(m, R)[c]
  <2>1. /\ (\A i \in 1 .. n : ~Brings(R, i, c)) => After(m, R)[c] = m[c]
        /\ \A i \in 1 .. n :
             Brings(R, i, c) /\ (\A j \in 1 .. n : Brings(R, j, c) => j <= i)
               => After(m, R)[c] = R[i].data
    BY AfterCell
  <2>2. /\ (\A i \in 1 .. n + 1 : ~Brings(S, i, c)) => After(m, S)[c] = m[c]
        /\ \A i \in 1 .. n + 1 :
             Brings(S, i, c) /\ (\A j \in 1 .. n + 1 : Brings(S, j, c) => j <= i)
               => After(m, S)[c] = S[i].data
    <3>1. n + 1 \in Nat
      OBVIOUS
    <3> QED BY <3>1, AfterCell
  <2>3. /\ \A i \in 1 .. n : i \in 1 .. n + 1 /\ (Brings(S, i, c) <=> Brings(R, i, c))
        /\ \A i \in 1 .. n + 1 : i <= n + 1 /\ (i = n + 1 \/ i \in 1 .. n)
        /\ n + 1 \in 1 .. n + 1
    BY DEF Brings
  <2>4. CASE Brings(S, n + 1, c)
    BY <2>2, <2>3, <2>4
  <2>5. CASE ~Brings(S, n + 1, c) /\ \E i \in 1 .. n : Brings(R, i, c)
    <3> DEFINE T == {i \in 1 .. n : Brings(R, i, c)}
               i == Max(T)
    <3>1. i \in T /\ \A j \in T : j <= i
      <4>1. T \subseteq 0 .. n /\ T # {}
        BY <2>5
      <4> HIDE DEF T
      <4> QED BY <4>1, LastOne
    <3>2. i \in 1 .. n /\ Brings(R, i, c) /\ \A j \in 1 .. n : Brings(R, j, c) => j <= i
      BY <3>1
    <3> HIDE DEF i, T
    <3>3. \A j \in 1 .. n + 1 : Brings(S, j, c) => j <= i
      BY <2>3, <2>5, <3>2
    <3>4. After(m, S)[c] = S[i].data /\ After(m, R)[c] = R[i].data /\ S[i] = R[i]
      BY <2>1, <2>2, <2>3, <3>2, <3>3
    <3> QED BY <2>5, <3>4
  <2>6. CASE ~Brings(S, n + 1, c) /\ \A i \in 1 .. n : ~Brings(R, i, c)
    BY <2>1, <2>2, <2>3, <2>6
  <2> QED BY <2>4, <2>5, <2>6
<1>2. After(m, S) = [c \in Cell |-> After(m, S)[c]] /\ After(m, R) = [c \in Cell |-> After(m, R)[c]]
  BY DEF After
<1>3. CASE S[n + 1].ld_st = "Store"
  <2>1. k = [c \in Cell |-> IF c \in Cells(S[n + 1].loc) THEN S[n + 1].data ELSE After(m, R)[c]]
    BY <1>3 DEF Write
  <2>2. \A c \in Cell : After(m, S)[c] = IF c \in Cells(S[n + 1].loc) THEN S[n + 1].data
                                         ELSE After(m, R)[c]
    BY <1>1, <1>3 DEF Brings
  <2> HIDE DEF k
  <2>3. After(m, S) = k
    BY <1>2, <2>1, <2>2, Zenon
  <2> QED BY <2>3 DEF k
<1>4. CASE S[n + 1].ld_st # "Store"
  <2>1. k = After(m, R)
    BY <1>4 DEF Write
  <2>2. \A c \in Cell : After(m, S)[c] = After(m, R)[c]
    BY <1>1, <1>4 DEF Brings
  <2> QED BY <2>1, <2>2, SameCells
<1> QED BY <1>3, <1>4

(* Nothing is on its way.                                                  *)
LEMMA AfterNone ==
  ASSUME NEW m, m = [c \in Cell |-> m[c]]
  PROVE  After(m, <<>>) = m
<1>1. \A c : StoresOf(<<>>, c) = {}
  BY DEF StoresOf
<1>2. After(m, <<>>) = [c \in Cell |-> m[c]]
  BY <1>1 DEF After
<1> QED BY <1>2

-----------------------------------------------------------------------------
(* The store queue has the addresses and the data of the ROB's stores.     *)

StoreTrue(r, sq) ==
    \A k \in Own(r, "STR") :
      LET e == sq[r[k].index]
      IN  /\ r[k].stage # "map" => e.valid /\ e.loc = r[k].loc /\ r[k].data = Fill(e.loc, e.data)
          /\ r[k].stage = "map" => ~e.valid

SameStore(e, f) == f.valid = e.valid /\ f.loc = e.loc /\ f.data = e.data

(* One instruction of the ROB and its entry                                *)
StoreOK(x, e) ==
    /\ x.stage # "map" => e.valid /\ e.loc = x.loc /\ x.data = Fill(e.loc, e.data)
    /\ x.stage = "map" => ~e.valid

LEMMA StoreTrueOK ==
  ASSUME NEW r, NEW sq
  PROVE  StoreTrue(r, sq) <=> \A k \in Own(r, "STR") : StoreOK(r[k], sq[r[k].index])
  BY DEF StoreTrue, StoreOK

LEMMA StoreOKSame ==
  ASSUME NEW x, NEW e, NEW f, SameStore(e, f), StoreOK(x, e)
  PROVE  StoreOK(x, f)
  BY DEF StoreOK, SameStore

LEMMA RobPlaces ==
  ASSUME NEW r, \E D : r \in Seq(Inst(D))
  PROVE  /\ Len(r) \in Nat /\ DOMAIN r = 1 .. Len(r)
         /\ \A k \in DOMAIN r : /\ r[k].index \in MemQ /\ r[k].loc \in Loc
                                /\ r[k].mem_type \in {"LD", "STR"} /\ r[k].stage \in Stage
<1>1. PICK D : r \in Seq(Inst(D))
  OBVIOUS
<1>2. Len(r) \in Nat /\ DOMAIN r = 1 .. Len(r) /\ \A k \in 1 .. Len(r) : r[k] \in Inst(D)
  BY <1>1
<1>3. \A k \in 1 .. Len(r) : /\ r[k].index \in MemQ /\ r[k].loc \in Loc
                             /\ r[k].mem_type \in {"LD", "STR"} /\ r[k].stage \in Stage
  BY <1>2 DEF Inst
<1> QED BY <1>2, <1>3

(* Instructions of one type have places of their own in its queue.         *)
LEMMA PlacesApart ==
  ASSUME NEW n \in Nat, NEW r, DOMAIN r = 1 .. n, NEW type, NEW F, NEW head, NEW tail,
         QueueOK(r, type, F, head, tail),
         NEW j \in Own(r, type), NEW k \in Own(r, type), r[j].index = r[k].index
  PROVE  j = k
<1>1. head \in MemQ /\ r[j].index \in MemQ /\ j \in Nat /\ k \in Nat
  <2>1. F \subseteq MemQ /\ r[j].index \in F
    BY DEF QueueOK
  <2> QED BY <2>1 DEF Own, QueueOK
<1>2. Distance(head, r[j].index) \in Int
  BY <1>1, DistanceType
<1>3. ~(j < k) /\ ~(k < j)
  BY <1>2 DEF QueueOK
<1> QED BY <1>1, <1>3

(* What a packet leaves as it is, and what it brings.                      *)
LEMMA AllotParts ==
  ASSUME LSInv, NEW p \in Packets, Allot(p)
  PROVE  /\ DOMAIN rob = 1 .. Len(rob) /\ Len(rob) \in Nat
         /\ DOMAIN rob' = 1 .. Len(rob') /\ Len(rob') \in Nat /\ Len(rob) <= Len(rob')
         /\ \A k \in DOMAIN rob : k \in DOMAIN rob' /\ rob'[k] = rob[k]
         /\ \A k \in DOMAIN rob' : k \notin DOMAIN rob =>
              \E i \in 1 .. 2 : p.req[i] \in {"LD", "STR"} /\ rob'[k] = NewInst(p.req, i)
         /\ \A i \in 1 .. 2 : p.req[i] # "NOP" =>
              \E k \in DOMAIN rob' : k \notin DOMAIN rob /\ rob'[k] = NewInst(p.req, i)
<1> DEFINE s == rob'  x1 == NewInst(p.req, 1)  x2 == NewInst(p.req, 2)
<1>1. p.req[1] \in Mem_type /\ p.req[2] \in Mem_type
  BY PacketsAssumption
<1>2. PICK C, r1 :
        /\ rob \in Seq(Inst(C)) /\ r1 \in Seq(Inst(C)) /\ s \in Seq(Inst(C))
        /\ p.req[1] = "NOP" => r1 = rob /\ Len(r1) = Len(rob)
        /\ p.req[1] # "NOP" => Grown(rob, Len(rob), r1, x1) /\ Len(r1) = Len(rob) + 1
        /\ p.req[2] = "NOP" => s = r1 /\ Len(s) = Len(r1)
        /\ p.req[2] # "NOP" => Grown(r1, Len(r1), s, x2) /\ Len(s) = Len(r1) + 1
  BY AllotRob, Zenon
<1>3. /\ DOMAIN rob = 1 .. Len(rob) /\ Len(rob) \in Nat
      /\ DOMAIN r1 = 1 .. Len(r1) /\ Len(r1) \in Nat
      /\ DOMAIN s = 1 .. Len(s) /\ Len(s) \in Nat
  BY <1>2, LenProperties
<1> DEFINE n == Len(rob)  m == Len(r1)  o == Len(s)
<1> HIDE DEF s, x1, x2, n, m, o
<1>4. n \in Nat /\ m \in Nat /\ o \in Nat /\ DOMAIN rob = 1 .. n /\ DOMAIN s = 1 .. o
  BY <1>3, Zenon DEF n, m, o
<1>5. /\ p.req[1] = "NOP" => r1 = rob /\ m = n
      /\ p.req[1] # "NOP" => Grown(rob, n, r1, x1) /\ m = n + 1
      /\ p.req[2] = "NOP" => s = r1 /\ o = m
      /\ p.req[2] # "NOP" => Grown(r1, m, s, x2) /\ o = m + 1
  BY <1>2, Zenon DEF n, m, o
<1>6. /\ n <= m /\ \A k \in 1 .. n : r1[k] = rob[k]
      /\ \A k \in 1 .. m : k \notin 1 .. n => p.req[1] # "NOP" /\ r1[k] = x1
  <2>1. CASE p.req[1] = "NOP"
    BY <1>4, <1>5, <2>1
  <2>2. CASE p.req[1] # "NOP"
    <3>1. Grown(rob, n, r1, x1) /\ m = n + 1
      BY <1>5, <2>2
    <3> QED BY <1>4, <2>2, <3>1 DEF Grown
  <2> QED BY <2>1, <2>2
<1>7. /\ m <= o /\ \A k \in 1 .. m : s[k] = r1[k]
      /\ \A k \in 1 .. o : k \notin 1 .. m => p.req[2] # "NOP" /\ s[k] = x2
  <2>1. CASE p.req[2] = "NOP"
    BY <1>4, <1>5, <2>1
  <2>2. CASE p.req[2] # "NOP"
    <3>1. Grown(r1, m, s, x2) /\ o = m + 1
      BY <1>5, <2>2
    <3> QED BY <1>4, <2>2, <3>1 DEF Grown
  <2> QED BY <2>1, <2>2
<1>8. \A k \in 1 .. n : k \in 1 .. o /\ s[k] = rob[k]
  BY <1>6, <1>7, <1>4
<1>9. ASSUME NEW k \in 1 .. o, k \notin 1 .. n
      PROVE  \E i \in 1 .. 2 : p.req[i] \in {"LD", "STR"} /\ s[k] = NewInst(p.req, i)
  <2>1. CASE k \in 1 .. m
    <3>1. p.req[1] \in {"LD", "STR"} /\ s[k] = x1 /\ 1 \in 1 .. 2
      BY <1>1, <1>6, <1>7, <1>9, <2>1 DEF Mem_type
    <3> QED BY <3>1 DEF x1
  <2>2. CASE k \notin 1 .. m
    <3>1. p.req[2] \in {"LD", "STR"} /\ s[k] = x2 /\ 2 \in 1 .. 2
      BY <1>1, <1>7, <1>9, <2>2 DEF Mem_type
    <3> QED BY <3>1 DEF x2
  <2> QED BY <2>1, <2>2
<1>10. n <= o
  BY <1>6, <1>7, <1>4
<1>11. ASSUME NEW i \in 1 .. 2, p.req[i] # "NOP"
       PROVE  \E k \in 1 .. o : k \notin 1 .. n /\ s[k] = NewInst(p.req, i)
  <2>1. CASE i = 1
    <3>1. m = n + 1 /\ r1[m] = x1 /\ m \in 1 .. o /\ m \notin 1 .. n /\ s[m] = r1[m]
      <4>1. m = n + 1 /\ Grown(rob, n, r1, x1)
        BY <1>11, <1>5, <2>1
      <4>2. m \in 1 .. m
        BY <1>4, <4>1
      <4> QED BY <1>7, <1>4, <4>1, <4>2 DEF Grown
    <3> QED BY <2>1, <3>1 DEF x1
  <2>2. CASE i = 2
    <3>1. o = m + 1 /\ s[o] = x2 /\ o \in 1 .. o /\ o \notin 1 .. n
      <4>1. o = m + 1 /\ Grown(r1, m, s, x2)
        BY <1>11, <1>5, <2>2
      <4> QED BY <1>6, <1>4, <4>1 DEF Grown
    <3> QED BY <2>2, <3>1 DEF x2
  <2> QED BY <2>1, <2>2
<1> QED BY <1>4, <1>8, <1>9, <1>10, <1>11 DEF s, n, o

(* A tag that someone waits for belongs to that instruction.               *)
LEMMA OwnerOf ==
  ASSUME LSInv, NEW k \in DOMAIN rob
  PROVE  /\ \A l : Awaited(rob, rg_erob_head, At(rg_erob_head, k), l) =>
              rob[k].mem_type = "LD" /\ rob[k].stage = "issued" /\ rob[k].loc = l
         /\ StoreAwaited(rob, rg_erob_head, At(rg_erob_head, k)) =>
              rob[k].mem_type = "STR" /\ rob[k].stage = "issued"
<1>1. /\ rg_erob_head \in Tag
      /\ \A j \in DOMAIN rob : j \in 1 .. ENTRY_ROB_SIZE
  BY RobDomain, SizeAssumption DEF LSInv, RobType
<1>2. \A j \in DOMAIN rob : At(rg_erob_head, j) = At(rg_erob_head, k) => j = k
  BY <1>1, AtInjective
<1> QED BY <1>2 DEF Awaited, StoreAwaited

LEMMA StoreKept ==
  ASSUME NEW r, NEW s, NEW sq, StoreTrue(r, sq), DOMAIN s = DOMAIN r,
         \A k \in DOMAIN r : s[k].mem_type = r[k].mem_type,
         \A k \in Own(r, "STR") :
           /\ s[k].index = r[k].index /\ s[k].loc = r[k].loc /\ s[k].data = r[k].data
           /\ (s[k].stage = "map") <=> (r[k].stage = "map")
  PROVE  StoreTrue(s, sq)
<1>1. Own(s, "STR") = Own(r, "STR")
  BY DEF Own
<1> QED BY <1>1 DEF StoreTrue

(* The oldest instruction leaves.                                          *)
LEMMA StoreShift ==
  ASSUME NEW n \in Nat, NEW r, DOMAIN r = 1 .. n + 1, NEW s, DOMAIN s = 1 .. n,
         \A k \in 1 .. n : s[k] = r[k + 1], \A k \in DOMAIN r : r[k].index \in MemQ,
         NEW sq, NEW tq, \A i \in MemQ : SameStore(sq[i], tq[i]), StoreTrue(r, sq)
  PROVE  StoreTrue(s, tq)
<1> SUFFICES ASSUME NEW k \in Own(s, "STR") PROVE StoreOK(s[k], tq[s[k].index])
  BY StoreTrueOK
<1>1. k \in 1 .. n /\ k + 1 \in 1 .. n + 1 /\ s[k] = r[k + 1]
  BY DEF Own
<1>2. k + 1 \in Own(r, "STR")
  BY <1>1 DEF Own
<1>3. StoreOK(s[k], sq[s[k].index]) /\ s[k].index \in MemQ
  BY <1>1, <1>2, StoreTrueOK
<1> QED BY <1>3, StoreOKSame

LEMMA StoreAllot ==
  ASSUME LSInv, LSInv', StoreTrue(rob, store_q), NEW p \in Packets, Allot(p)
  PROVE  StoreTrue(rob', store_q')
<1> DEFINE s == rob'  tq == store_q'  tail == rg_store_q_tail
           E(i) == EnteredAt(p.req, "STR", tail, i) = {}
           new == [EmptyStore EXCEPT !.filled = TRUE]
<1>1. tq = [i \in MemQ |-> IF E(i) THEN store_q[i] ELSE new]
  BY DEF Allot
<1>2. new.valid = FALSE
  BY DEF EmptyStore
<1>3. /\ DOMAIN rob = 1 .. Len(rob) /\ Len(rob) \in Nat
      /\ DOMAIN s = 1 .. Len(s) /\ Len(s) \in Nat
      /\ \A k \in DOMAIN rob : k \in DOMAIN s /\ s[k] = rob[k]
      /\ \A k \in DOMAIN s : k \notin DOMAIN rob =>
           \E i \in 1 .. 2 : p.req[i] \in {"LD", "STR"} /\ s[k] = NewInst(p.req, i)
      /\ \A i \in 1 .. 2 : p.req[i] # "NOP" =>
           \E k \in DOMAIN s : k \notin DOMAIN rob /\ s[k] = NewInst(p.req, i)
  BY AllotParts
<1>4. QueueOK(s, "STR", Filled(tq), rg_store_q_head', rg_store_q_tail')
  BY DEF LSInv, Queues
<1>5. \A k \in DOMAIN s : s[k].index \in MemQ
  <2>1. \E D : s \in Seq(Inst(D))
    BY DEF LSInv, RobType
  <2> HIDE DEF s
  <2> QED BY <2>1, RobPlaces
<1> HIDE DEF s, tq, E, new
<1>6. \A k \in Own(s, "STR") :
        k \notin DOMAIN rob => /\ s[k].stage = "map" /\ ~E(s[k].index)
  <2> SUFFICES ASSUME NEW k \in Own(s, "STR"), k \notin DOMAIN rob
               PROVE  s[k].stage = "map" /\ ~E(s[k].index)
    OBVIOUS
  <2>1. PICK i \in 1 .. 2 : s[k] = NewInst(p.req, i)
    BY <1>3 DEF Own
  <2>2. p.req[i] = "STR" /\ s[k].stage = "map" /\ s[k].index = QIndex(p.req, i, tail)
    BY <2>1 DEF NewInst, Own
  <2>3. i \in EnteredAt(p.req, "STR", tail, s[k].index)
    BY <2>2 DEF EnteredAt
  <2> QED BY <2>2, <2>3 DEF E
<1>7. \A k \in Own(s, "STR") : k \in DOMAIN rob => tq[s[k].index] = store_q[s[k].index]
  <2> SUFFICES ASSUME NEW k \in Own(s, "STR"), k \in DOMAIN rob, ~E(s[k].index)
               PROVE  FALSE
    BY <1>1, <1>5 DEF Own
  <2>1. k \in Own(rob, "STR") /\ s[k] = rob[k]
    BY <1>3 DEF Own
  <2>2. PICK i \in 1 .. 2 : p.req[i] = "STR" /\ s[k].index = QIndex(p.req, i, tail)
    BY DEF E, EnteredAt
  <2>3. \E j \in Own(s, "STR") : j \notin DOMAIN rob /\ s[j].index = s[k].index
    <3>1. PICK j \in DOMAIN s : j \notin DOMAIN rob /\ s[j] = NewInst(p.req, i)
      BY <1>3, <2>2
    <3>2. s[j].mem_type = "STR" /\ s[j].index = QIndex(p.req, i, tail)
      BY <2>2, <3>1 DEF NewInst
    <3> QED BY <2>2, <3>1, <3>2 DEF Own
  <2> QED BY <1>3, <1>4, <2>3, PlacesApart
<1>8. ASSUME NEW k \in Own(s, "STR") PROVE StoreOK(s[k], tq[s[k].index])
  <2>1. CASE k \in DOMAIN rob
    <3>1. k \in Own(rob, "STR") /\ s[k] = rob[k]
      BY <1>3, <2>1 DEF Own
    <3>2. StoreOK(rob[k], store_q[rob[k].index])
      BY <3>1, StoreTrueOK
    <3> QED BY <1>7, <2>1, <3>1, <3>2
  <2>2. CASE k \notin DOMAIN rob
    <3>1. s[k].stage = "map" /\ tq[s[k].index] = new
      BY <1>1, <1>5, <1>6, <2>2 DEF Own
    <3> QED BY <1>2, <3>1 DEF StoreOK
  <2> QED BY <2>1, <2>2
<1>9. StoreTrue(s, tq)
  BY <1>8, StoreTrueOK
<1> QED BY <1>9 DEF s, tq

LEMMA StoreIssue ==
  ASSUME LSInv, StoreTrue(rob, store_q),
         NEW k \in DOMAIN rob, NEW l \in Loc, NEW v \in Val, IssueStore(k, l, v)
  PROVE  StoreTrue(rob', store_q')
<1> DEFINE s == rob'  tq == store_q'
           e == [filled |-> TRUE, valid |-> TRUE, loc |-> l, data |-> v]
<1>1. /\ DOMAIN rob = 1 .. Len(rob) /\ Len(rob) \in Nat
      /\ \A j \in DOMAIN rob : rob[j].index \in MemQ
      /\ DOMAIN store_q = MemQ
      /\ QueueOK(rob, "STR", Filled(store_q), rg_store_q_head, rg_store_q_tail)
  BY RobPlaces DEF LSInv, RobType, QueueType, Queues
<1>2. /\ rob[k].mem_type = "STR" /\ tq = [store_q EXCEPT ![rob[k].index] = e]
      /\ s = [rob EXCEPT ![k].stage = "issued", ![k].loc = l, ![k].data = Fill(l, v)]
  BY DEF IssueStore
<1>3. PICK D : rob \in Seq(Inst(D))
  BY DEF LSInv, RobType
<1>4. /\ s[k].mem_type = "STR" /\ s[k].index = rob[k].index /\ s[k].stage = "issued"
      /\ s[k].loc = l /\ s[k].data = Fill(l, v)
      /\ DOMAIN s = DOMAIN rob /\ \A j \in DOMAIN rob : j # k => s[j] = rob[j]
  <2>1. rob[k] \in Inst(D)
    BY <1>3
  <2> DEFINE x == [rob[k] EXCEPT !.stage = "issued", !.loc = l, !.data = Fill(l, v)]
  <2>2. /\ x.mem_type = "STR" /\ x.index = rob[k].index /\ x.stage = "issued"
        /\ x.loc = l /\ x.data = Fill(l, v)
    BY <1>2, <2>1 DEF Inst
  <2>3. s = [rob EXCEPT ![k] = x]
    BY <1>2
  <2> HIDE DEF s, x
  <2> QED BY <2>2, <2>3
<1> HIDE DEF s, tq
<1>5. ASSUME NEW j \in Own(s, "STR") PROVE StoreOK(s[j], tq[s[j].index])
  <2>1. CASE j = k
    <3>1. tq[s[j].index] = e
      BY <1>1, <1>2, <1>4, <2>1
    <3>2. "issued" # "map" /\ e.valid = TRUE /\ e.loc = l /\ e.data = v
      OBVIOUS
    <3> HIDE DEF e
    <3> QED BY <1>4, <2>1, <3>1, <3>2 DEF StoreOK
  <2>2. CASE j # k
    <3>1. j \in Own(rob, "STR") /\ k \in Own(rob, "STR") /\ s[j] = rob[j]
      BY <1>2, <1>4, <2>2 DEF Own
    <3>2. rob[j].index # rob[k].index
      BY <1>1, <2>2, <3>1, PlacesApart
    <3>3. tq[rob[j].index] = store_q[rob[j].index]
      BY <1>1, <1>2, <3>2
    <3>4. StoreOK(rob[j], store_q[rob[j].index])
      BY <3>1, StoreTrueOK
    <3> QED BY <3>1, <3>3, <3>4
  <2> QED BY <2>1, <2>2
<1>6. StoreTrue(s, tq)
  BY <1>5, StoreTrueOK
<1> QED BY <1>6 DEF s, tq

(* Instruction k is the one with the tag of a broadcast.                   *)
LEMMA StoreBroadcasts ==
  ASSUME LSInv, StoreTrue(rob, store_q), LoadBroadcast \/ StoreBroadcast
  PROVE  StoreTrue(rob', store_q')
<1> DEFINE s == rob'  h == rg_erob_head
<1>1. PICK D : rob \in Seq(Inst(D))
  BY DEF LSInv, RobType
<1>2. \A k \in DOMAIN rob : rob[k] \in Inst(D)
  BY <1>1
<1>3. CASE LoadBroadcast
  <2> DEFINE x == Head(ff_load_result)
             new(k) == [rob[k] EXCEPT !.stage = "done", !.data = x.data]
  <2>1. s = [k \in DOMAIN rob |-> IF At(h, k) = x.tag THEN new(k) ELSE rob[k]]
    BY <1>3 DEF LoadBroadcast, TagAt, At
  <2>2. \E l : Awaited(rob, h, x.tag, l)
    <3>1. x = ff_load_result[1] /\ 1 \in DOMAIN ff_load_result
      <4>1. PICK t, d : ff_load_result = <<[tag |-> t, data |-> d]>>
        BY <1>3 DEF LSInv, FifoType, LoadBroadcast
      <4> QED BY <4>1
    <3> HIDE DEF x
    <3> QED BY <3>1 DEF LSInv, Answers, Awaiting
  <2>3. \A k \in DOMAIN rob : new(k).mem_type = rob[k].mem_type
    BY <1>2 DEF Inst
  <2> HIDE DEF x, new
  <2>4. \A k \in DOMAIN rob : At(h, k) = x.tag => rob[k].mem_type = "LD"
    BY <2>2, OwnerOf
  <2>5. /\ DOMAIN s = DOMAIN rob
        /\ \A k \in DOMAIN rob : s[k].mem_type = rob[k].mem_type
        /\ \A k \in DOMAIN rob : rob[k].mem_type # "LD" => s[k] = rob[k]
    BY <2>1, <2>3, <2>4
  <2> HIDE DEF s
  <2>6. \A k \in Own(rob, "STR") : s[k] = rob[k]
    BY <2>5 DEF Own
  <2>7. StoreTrue(s, store_q)
    BY <2>5, <2>6, StoreKept
  <2> QED BY <1>3, <2>7 DEF s, LoadBroadcast, ls_queues
<1>4. CASE StoreBroadcast
  <2> DEFINE t == Head(ff_store_broadcast)
             new(k) == [rob[k] EXCEPT !.stage = "done"]
  <2>1. s = [k \in DOMAIN rob |-> IF At(h, k) = t THEN new(k) ELSE rob[k]]
    BY <1>4 DEF StoreBroadcast, TagAt, At
  <2>2. StoreAwaited(rob, h, t)
    <3>1. t = ff_store_broadcast[1] /\ 1 \in DOMAIN ff_store_broadcast
      BY <1>4 DEF LSInv, FifoType, StoreBroadcast
    <3> HIDE DEF t
    <3> QED BY <3>1 DEF LSInv, Answers, Awaiting
  <2>3. \A k \in DOMAIN rob :
          /\ new(k).mem_type = rob[k].mem_type /\ new(k).index = rob[k].index
          /\ new(k).loc = rob[k].loc /\ new(k).data = rob[k].data /\ new(k).stage # "map"
    BY <1>2 DEF Inst
  <2> HIDE DEF t, new
  <2>4. \A k \in DOMAIN rob : At(h, k) = t => rob[k].stage = "issued"
    BY <2>2, OwnerOf
  <2>5. /\ DOMAIN s = DOMAIN rob
        /\ \A k \in DOMAIN rob : \/ s[k] = rob[k]
                                 \/ s[k] = new(k) /\ rob[k].stage # "map"
    BY <2>1, <2>4
  <2> HIDE DEF s
  <2>6. \A k \in DOMAIN rob :
          /\ s[k].mem_type = rob[k].mem_type /\ s[k].index = rob[k].index
          /\ s[k].loc = rob[k].loc /\ s[k].data = rob[k].data
          /\ (s[k].stage = "map") <=> (rob[k].stage = "map")
    BY <2>3, <2>5
  <2>7. StoreTrue(s, store_q)
    BY <2>5, <2>6, StoreKept DEF Own
  <2> QED BY <1>4, <2>7 DEF s, StoreBroadcast, ls_queues
<1> QED BY <1>3, <1>4

(* The store at the ROB head is the one at the head of the store queue.    *)
LEMMA HeadStore ==
  ASSUME LSInv, StoreTrue(rob, store_q), CommitStore
  PROVE  /\ rob[1].index = rg_store_q_head /\ rg_store_q_head \in MemQ
         /\ store_q[rg_store_q_head].valid
         /\ store_q[rg_store_q_head].loc = rob[1].loc
         /\ rob[1].loc \in Loc /\ store_q[rg_store_q_head].data \in Val
         /\ rob[1].data = Fill(rob[1].loc, store_q[rg_store_q_head].data)
<1> DEFINE n == Len(rob) - 1  s == rob'  head == rg_store_q_head
<1>1. /\ rob # <<>> /\ rob[1].mem_type = "STR" /\ rob[1].stage = "done"
      /\ rob' = Tail(rob) /\ rg_erob_head' = IncTag(rg_erob_head)
  BY DEF CommitStore, AtHead
<1>2. /\ n \in Nat /\ DOMAIN rob = 1 .. n + 1 /\ DOMAIN s = 1 .. n
      /\ \A k \in 1 .. n : s[k] = rob[k + 1]
  BY <1>1, LeaveRob
<1>3. /\ QueueOK(rob, "STR", Filled(store_q), head, rg_store_q_tail)
      /\ store_q \in [MemQ -> StoreEntry]
  BY DEF LSInv, Queues, QueueType
<1>4. rob[1].index = head /\ head \in MemQ
  <2> DEFINE r == rob
  <2>1. /\ n \in Nat /\ DOMAIN r = 1 .. n + 1
        /\ r[1].mem_type = "STR" /\ QueueOK(r, "STR", Filled(store_q), head, rg_store_q_tail)
    BY <1>1, <1>2, <1>3
  <2> HIDE DEF r, n, s, head
  <2>2. r[1].index = head /\ head \in MemQ
    BY <2>1, QueueHead
  <2> QED BY <2>2 DEF r
<1> HIDE DEF n, s, head
<1>5. 1 \in DOMAIN rob /\ 1 \in Own(rob, "STR")
  BY <1>1, <1>2 DEF Own
<1>6. StoreOK(rob[1], store_q[head])
  BY <1>4, <1>5, StoreTrueOK
<1>7. rob[1].loc \in Loc
  BY <1>5, RobPlaces DEF LSInv, RobType
<1>8. store_q[head].data \in Val
  BY <1>3, <1>4 DEF StoreEntry
<1> QED BY <1>1, <1>4, <1>6, <1>7, <1>8 DEF StoreOK, head

LEMMA StoreLeaves ==
  ASSUME LSInv, StoreTrue(rob, store_q), CommitStore \/ CommitLoad
  PROVE  StoreTrue(rob', store_q')
<1> DEFINE n == Len(rob) - 1  s == rob'  tq == store_q'
<1>1. /\ rob # <<>> /\ rob[1].stage = "done"
      /\ rob' = Tail(rob) /\ rg_erob_head' = IncTag(rg_erob_head)
  BY DEF CommitStore, CommitLoad, AtHead
<1>2. /\ n \in Nat /\ DOMAIN rob = 1 .. n + 1 /\ DOMAIN s = 1 .. n
      /\ \A k \in 1 .. n : s[k] = rob[k + 1]
  BY <1>1, LeaveRob
<1>3. \A k \in DOMAIN rob : rob[k].index \in MemQ
  BY RobPlaces DEF LSInv, RobType
<1>4. \A i \in MemQ : SameStore(store_q[i], tq[i])
  <2>1. CASE CommitLoad
    BY <2>1 DEF CommitLoad, SameStore
  <2>2. CASE CommitStore
    <3>1. store_q \in [MemQ -> StoreEntry] /\ rg_store_q_head \in MemQ
      BY DEF LSInv, QueueType, Queues, QueueOK
    <3> DEFINE f == [store_q[rg_store_q_head] EXCEPT !.filled = FALSE]
    <3>2. SameStore(store_q[rg_store_q_head], f)
      BY <3>1 DEF SameStore, StoreEntry
    <3>3. tq = [store_q EXCEPT ![rg_store_q_head] = f]
      BY <2>2 DEF CommitStore
    <3> HIDE DEF f, tq
    <3>4. \A i \in MemQ : tq[i] = store_q[i] \/ (i = rg_store_q_head /\ tq[i] = f)
      BY <3>1, <3>3
    <3> QED BY <3>2, <3>4 DEF SameStore
  <2> QED BY <2>1, <2>2
<1> HIDE DEF n, s, tq
<1>5. StoreTrue(s, tq)
  BY <1>2, <1>3, <1>4, StoreShift
<1> QED BY <1>5 DEF s, tq

-----------------------------------------------------------------------------
(* What the committed stores make of memory, step by step.                 *)

LEMMA CommittedIs == Committed = After(mem, Reqs)
  BY DEF Committed, Reqs

(* A request comes behind those on their way.                              *)
LEMMA CommittedEnq ==
  ASSUME LSInv, NEW x \in Request, EnqRequest(x), mem' = mem
  PROVE  Committed' = Write(Committed, x)
<1> DEFINE R == Reqs  S == Reqs'  n == Len(Reqs)  m == mem
<1>1. /\ n \in Nat /\ DOMAIN R = 1 .. n /\ DOMAIN S = 1 .. n + 1
      /\ \A i \in 1 .. n : S[i] = R[i]
      /\ S[n + 1] = x
  BY EnqFifo, FifoSeq DEF LSInv
<1>2. Committed = After(m, R) /\ Committed' = After(m, S)
  BY DEF Committed, Reqs
<1> HIDE DEF R, S, n, m
<1>3. After(m, S) = Write(After(m, R), S[n + 1])
  BY <1>1, AfterAppended
<1> QED BY <1>1, <1>2, <1>3

(* It makes no difference when a request is served.                        *)
LEMMA CommittedServe ==
  ASSUME LSInv, DcacheWrite \/ GetLoadResult
  PROVE  Committed' = Committed
<1> DEFINE R == Reqs  S == Reqs'  n == Len(Reqs) - 1  m == mem  w == mem'
<1>1. /\ dcache # <<>> /\ dcache' = Tail(dcache) /\ ff_request' = ff_request
      /\ mem' = Write(mem, Head(dcache))
  BY DEF DcacheWrite, GetLoadResult, Write
<1>2. /\ n \in Nat /\ DOMAIN R = 1 .. n + 1 /\ DOMAIN S = 1 .. n
      /\ \A i \in 1 .. n : S[i] = R[i + 1]
      /\ w = Write(m, R[1])
  BY <1>1, ServeFifo, FifoSeq DEF LSInv
<1>3. Committed = After(m, R) /\ Committed' = After(w, S)
  BY DEF Committed, Reqs
<1> HIDE DEF R, S, n, m, w
<1>4. After(Write(m, R[1]), S) = After(m, R)
  BY <1>2, AfterServed
<1> QED BY <1>2, <1>3, <1>4

LEMMA CommittedAccept ==
  ASSUME LSInv, DcacheAccept
  PROVE  Committed' = Committed /\ Reqs' = Reqs
<1>1. dcache' = Reqs /\ ff_request' = <<>> /\ mem' = mem
  BY DEF DcacheAccept, Reqs
<1>2. Reqs \in Seq(Request) /\ Reqs' = Reqs \o <<>>
  BY <1>1, FifoSeq DEF LSInv, Reqs
<1>3. Reqs' = Reqs
  BY <1>2, ConcatEmptySeq
<1> QED BY <1>1, <1>3 DEF Committed, Reqs

LEMMA CommittedFlush ==
  ASSUME AbandonLoads
  PROVE  Committed' = Committed
<1> DEFINE c == Committed
<1>1. c = [i \in Cell |-> c[i]]
  BY DEF Committed, After
<1>2. Committed' = After(c, <<>>)
  BY DEF AbandonLoads, Committed
<1> HIDE DEF c
<1>3. After(c, <<>>) = c
  BY <1>1, AfterNone
<1> QED BY <1>2, <1>3 DEF c

LEMMA CommittedLoad ==
  ASSUME LSInv, AccessMemory
  PROVE  Committed' = Committed
<1>1. PICK x \in LoadReq : ff_load = <<x>>
  BY DEF LSInv, FifoType, AccessMemory
<1> DEFINE q == [ld_st |-> "Load", loc |-> x.loc, data |-> 0, tag |-> x.tag]
<1>2. Head(ff_load) = x
  BY <1>1
<1>3. EnqRequest(q) /\ mem' = mem
  BY <1>2 DEF AccessMemory
<1>4. q \in Request /\ q.ld_st = "Load"
  BY LocAssumption DEF LoadReq, Request
<1> HIDE DEF q
<1>5. Committed' = Write(Committed, q)
  BY <1>3, <1>4, CommittedEnq
<1> QED BY <1>4, <1>5 DEF Write

(* The store that commits, as a request to memory.                         *)
LEMMA CommittedStore ==
  ASSUME LSInv, StoreTrue(rob, store_q), CommitStore
  PROVE  Committed' = Write(Committed,
           [ld_st |-> "Store", loc |-> rob[1].loc,
            data |-> rob[1].data[CHOOSE c \in Cells(rob[1].loc) : TRUE]])
<1> DEFINE e == store_q[rg_store_q_head]
           q == [ld_st |-> "Store", loc |-> e.loc, data |-> e.data, tag |-> 0]
           c == CHOOSE i \in Cells(rob[1].loc) : TRUE
           own == [ld_st |-> "Store", loc |-> rob[1].loc, data |-> rob[1].data[c]]
<1>1. /\ e.loc = rob[1].loc /\ rob[1].loc \in Loc /\ e.data \in Val
      /\ rob[1].data = Fill(rob[1].loc, e.data)
  BY HeadStore
<1>2. EnqRequest(q) /\ mem' = mem
  BY DEF CommitStore
<1>3. c \in Cells(rob[1].loc)
  BY <1>1, LocAssumption
<1>4. rob[1].data[c] = e.data
  BY <1>1, <1>3 DEF Fill
<1>5. q \in Request
  BY <1>1, SizeAssumption DEF Request, Tag
<1>6. Write(Committed, own) = Write(Committed, q)
  BY <1>1, <1>4 DEF Write
<1> HIDE DEF q, own
<1>7. Committed' = Write(Committed, q)
  BY <1>2, <1>5, CommittedEnq
<1> QED BY <1>6, <1>7 DEF own

StoreInv == LSInv /\ StoreTrue(rob, store_q)

LEMMA StoreInductive ==
  ASSUME StoreInv, [Next]_vars
  PROVE  StoreInv'
<1>1. LSInv /\ LSInv' /\ StoreTrue(rob, store_q)
  BY LSInductive DEF StoreInv
<1> SUFFICES StoreTrue(rob', store_q')
  BY <1>1 DEF StoreInv
<1>2. ASSUME NEW p \in Packets, Allot(p) PROVE StoreTrue(rob', store_q')
  BY <1>1, <1>2, StoreAllot
<1>3. ASSUME NEW k \in DOMAIN rob, NEW l \in Loc, NEW v \in Val, IssueStore(k, l, v)
      PROVE  StoreTrue(rob', store_q')
  BY <1>1, <1>3, StoreIssue
<1>4. ASSUME NEW k \in DOMAIN rob, NEW l \in Loc, IssueLoad(k, l) PROVE StoreTrue(rob', store_q')
  <2> DEFINE s == rob'
  <2>1. /\ rob[k].mem_type = "LD" /\ store_q' = store_q
        /\ s = [rob EXCEPT ![k].stage = "issued", ![k].loc = l]
    BY <1>4 DEF IssueLoad
  <2>2. PICK D : rob \in Seq(Inst(D))
    BY <1>1 DEF LSInv, RobType
  <2> DEFINE x == [rob[k] EXCEPT !.stage = "issued", !.loc = l]
  <2>3. x.mem_type = "LD" /\ s = [rob EXCEPT ![k] = x] /\ rob[k] \in Inst(D)
    <3>1. rob[k] \in Inst(D)
      BY <2>2
    <3> QED BY <2>1, <3>1 DEF Inst
  <2> HIDE DEF s, x
  <2>4. /\ DOMAIN s = DOMAIN rob
        /\ \A j \in DOMAIN rob : s[j].mem_type = rob[j].mem_type
        /\ \A j \in DOMAIN rob : j # k => s[j] = rob[j]
    BY <2>1, <2>3
  <2>5. \A j \in Own(rob, "STR") : s[j] = rob[j]
    BY <2>1, <2>4 DEF Own
  <2>6. StoreTrue(s, store_q)
    BY <1>1, <2>4, <2>5, StoreKept
  <2> QED BY <2>1, <2>6 DEF s
<1>5. CASE LoadBroadcast \/ StoreBroadcast
  BY <1>1, <1>5, StoreBroadcasts
<1>6. CASE CommitStore \/ CommitLoad
  BY <1>1, <1>6, StoreLeaves
<1>7. CASE ReplayLoad \/ Flush
  BY <1>7 DEF ReplayLoad, Flush, Clear, StoreTrue, Own
<1>8. CASE UNCHANGED <<rob, store_q>>
  BY <1>1, <1>8
<1>9. Forward \/ AccessMemory \/ DcacheAccept \/ DcacheWrite \/ GetLoadResult \/ UNCHANGED vars
        => UNCHANGED <<rob, store_q>>
  BY DEF Forward, AccessMemory, DcacheAccept, DcacheWrite, GetLoadResult, vars, ls_queues
<1> QED BY <1>1, <1>2, <1>3, <1>4, <1>5, <1>6, <1>7, <1>8, <1>9 DEF Next

LEMMA StoreInvariant == Spec => []StoreInv
<1>1. Init => StoreInv
  <2>1. Init => StoreTrue(rob, store_q)
    BY DEF Init, StoreTrue, Own
  <2> QED BY <2>1, InitLS DEF StoreInv
<1>2. StoreInv /\ [Next]_vars => StoreInv'
  BY StoreInductive
<1> QED BY <1>1, <1>2, PTL DEF Spec

(* What a step does to memory, the stores on their way included.           *)
LEMMA CommittedStep ==
  ASSUME StoreInv, [Next]_vars, ~CommitStore
  PROVE  Committed' = Committed
<1>1. CASE \/ \E p \in Packets : Allot(p)
           \/ \E k \in DOMAIN rob, l \in Loc : IssueLoad(k, l) \/ \E v \in Val : IssueStore(k, l, v)
           \/ Forward \/ LoadBroadcast \/ StoreBroadcast \/ CommitLoad \/ UNCHANGED vars
  <2>1. UNCHANGED <<dcache, ff_request, mem>>
    BY <1>1 DEF Allot, IssueLoad, IssueStore, Forward, LoadBroadcast, StoreBroadcast, CommitLoad,
                vars
  <2> QED BY <2>1 DEF Committed
<1>2. CASE AccessMemory
  BY <1>2, CommittedLoad DEF StoreInv
<1>3. CASE DcacheAccept
  BY <1>3, CommittedAccept DEF StoreInv
<1>4. CASE DcacheWrite \/ GetLoadResult
  BY <1>4, CommittedServe DEF StoreInv
<1>5. CASE ReplayLoad \/ Flush
  BY <1>5, CommittedFlush DEF ReplayLoad, Flush
<1> QED BY <1>1, <1>2, <1>3, <1>4, <1>5 DEF Next

(* A store that commits is written with the address and the data it has in *)
(* the ROB, and nothing else changes memory as the committed stores leave  *)
(* it: rl_commit_store of LS_unit.bsv sends the request of the entry at    *)
(* the head of the store queue, and neither rl_clear_mem_queues nor the    *)
(* D-cache's abandon_cycle loses one that is on its way, for every size of *)
(* the queues, the ROB and the D-cache.                                    *)
THEOREM StoreSurvivesHolds == Spec => StoreSurvives
<1>1. StoreInv /\ [Next]_vars =>
        [LET own == [ld_st |-> "Store", loc |-> rob[1].loc,
                     data |-> rob[1].data[CHOOSE c \in Cells(rob[1].loc) : TRUE]]
         IN  Committed' = IF CommitStore THEN Write(Committed, own) ELSE Committed]_vars
  <2> SUFFICES ASSUME StoreInv, [Next]_vars
               PROVE  LET own == [ld_st |-> "Store", loc |-> rob[1].loc,
                                  data |-> rob[1].data[CHOOSE c \in Cells(rob[1].loc) : TRUE]]
                      IN  Committed' = IF CommitStore THEN Write(Committed, own) ELSE Committed
    OBVIOUS
  <2>1. CASE CommitStore
    BY <2>1, CommittedStore DEF StoreInv
  <2>2. CASE ~CommitStore
    BY <2>2, CommittedStep
  <2> QED BY <2>1, <2>2
<1> QED BY <1>1, StoreInvariant, PTL DEF Spec, StoreSurvives

-----------------------------------------------------------------------------
(* What is known of a load at each moment.                                 *)

(* One load of the ROB and its entry                                       *)
LoadOK(x, q) == /\ x.stage # "map" => q.valid /\ q.loc = x.loc
                /\ x.stage = "map" => ~q.valid /\ ~q.forwarded
LoadTrue(r, lq) == \A k \in Own(r, "LD") : LoadOK(r[k], lq[r[k].index])

(* A load that is about to look up the store queue has not done so before, *)
(* and looks at the stores in its mask.                                    *)
LookTrue(r, h, lq, ffl) ==
    \A i \in DOMAIN ffl, k \in Own(r, "LD") :
      ffl[i].tag = At(h, k) =>
        /\ ffl[i].index = r[k].index /\ ~lq[r[k].index].forwarded
        /\ ffl[i].store_mask = lq[r[k].index].store_mask

(* No store that commits from now on leaves the load as it is.             *)
Sure(q) == q.forwarded => q.forward_ack

(* The value d is what the load k has to return: memory has it, or an      *)
(* older store of that very address brings it.                             *)
Sound(r, q, cm, k, d) ==
    \/ Sure(q) /\ d = Read(cm, r[k].loc)
    \/ \E j \in Own(r, "STR") : /\ j < k /\ r[j].stage # "map"
                                /\ r[j].loc = r[k].loc /\ r[j].data = d

(* The load has got the value d, or it is on its way back.                 *)
Got(r, h, res, k, d) ==
    \/ r[k].stage = "done" /\ r[k].data = d
    \/ \E i \in DOMAIN res : res[i].tag = At(h, k) /\ res[i].data = d

(* A load with this tag is on its way to memory; no store behind it        *)
(* changes what it finds there.                                            *)
Asked(reqs, tag) == \E i \in DOMAIN reqs : IsLoad(reqs[i]) /\ reqs[i].tag = tag
Undisturbed(reqs, tag, l) ==
    \A i, j \in DOMAIN reqs :
      IsLoad(reqs[i]) /\ reqs[i].tag = tag /\ j > i /\ ~IsLoad(reqs[j])
        => Cells(reqs[j].loc) \cap Cells(l) = {}

ValueOK(r, h, q, reqs, res, cm, k) ==
    /\ \A d : Got(r, h, res, k, d) => Sound(r, q, cm, k, d)
    /\ Asked(reqs, At(h, k)) => Sure(q)
    /\ Undisturbed(reqs, At(h, k), r[k].loc)
ValueTrue(r, h, lq, reqs, res, cm) ==
    \A k \in Own(r, "LD") :
      ~lq[r[k].index].aliased => ValueOK(r, h, lq[r[k].index], reqs, res, cm, k)

(* A step that gives the load no value: load k becomes load m.             *)
LEMMA ValueMoves ==
  ASSUME NEW r, NEW h, NEW q, NEW reqs, NEW res, NEW cm, NEW k,
         NEW s, NEW g, NEW p, NEW R2, NEW rs2, NEW cm2, NEW m,
         ValueOK(r, h, q, reqs, res, cm, k),
         s[m].loc = r[k].loc, Sure(q) => Sure(p),
         Read(cm2, r[k].loc) = Read(cm, r[k].loc),
         \A j \in Own(r, "STR") : j < k /\ r[j].stage # "map" /\ r[j].loc = r[k].loc =>
           \E i \in Own(s, "STR") : /\ i < m /\ s[i].stage # "map"
                                    /\ s[i].loc = r[j].loc /\ s[i].data = r[j].data,
         \A d : Got(s, g, rs2, m, d) => Got(r, h, res, k, d),
         Asked(R2, At(g, m)) => Asked(reqs, At(h, k)),
         Undisturbed(reqs, At(h, k), r[k].loc) => Undisturbed(R2, At(g, m), r[k].loc)
  PROVE  ValueOK(s, g, p, R2, rs2, cm2, m)
<1>1. ASSUME NEW d, Got(s, g, rs2, m, d) PROVE Sound(s, p, cm2, m, d)
  <2>1. Sound(r, q, cm, k, d)
    BY <1>1 DEF ValueOK
  <2>2. CASE Sure(q) /\ d = Read(cm, r[k].loc)
    BY <2>2 DEF Sound
  <2>3. CASE \E j \in Own(r, "STR") : /\ j < k /\ r[j].stage # "map"
                                      /\ r[j].loc = r[k].loc /\ r[j].data = d
    BY <2>3 DEF Sound
  <2> QED BY <2>1, <2>2, <2>3 DEF Sound
<1>2. Asked(R2, At(g, m)) => Sure(p)
  BY DEF ValueOK
<1>3. Undisturbed(R2, At(g, m), s[m].loc)
  BY DEF ValueOK
<1> QED BY <1>1, <1>2, <1>3 DEF ValueOK

(* Nothing is on its way to or from memory for this load.                  *)
LEMMA Unasked ==
  ASSUME NEW r, NEW h \in Tag, NEW n \in 0 .. ENTRY_ROB_SIZE, DOMAIN r = 1 .. n,
         NEW ffl, NEW reqs, NEW res, NEW sb, Awaiting(r, h, ffl, reqs, res, sb),
         NEW k \in DOMAIN r, r[k].stage # "issued"
  PROVE  /\ ~Asked(reqs, At(h, k))
         /\ \A i \in DOMAIN res : res[i].tag # At(h, k)
         /\ \A i \in DOMAIN ffl : ffl[i].tag # At(h, k)
<1>1. \A j \in DOMAIN r : j \in 1 .. ENTRY_ROB_SIZE
  BY SizeAssumption
<1>2. \A j \in DOMAIN r : At(h, j) = At(h, k) => j = k
  BY <1>1, AtInjective
<1>3. \A l : ~Awaited(r, h, At(h, k), l)
  BY <1>2 DEF Awaited
<1> QED BY <1>3 DEF Awaiting, Asked

LEMMA ValueNone ==
  ASSUME NEW r, NEW h, NEW q, NEW reqs, NEW res, NEW cm, NEW k, r[k].stage # "done",
         ~Asked(reqs, At(h, k)), \A i \in DOMAIN res : res[i].tag # At(h, k)
  PROVE  ValueOK(r, h, q, reqs, res, cm, k)
  BY DEF ValueOK, Got, Asked, Undisturbed

(* The requests on their way: one is served, a load or a store follows.    *)
LEMMA AskedServed ==
  ASSUME NEW n \in Nat, NEW R, DOMAIN R = 1 .. n + 1, NEW S, DOMAIN S = 1 .. n,
         \A i \in 1 .. n : S[i] = R[i + 1], NEW tag, NEW l
  PROVE  /\ Asked(S, tag) => Asked(R, tag)
         /\ Undisturbed(R, tag, l) => Undisturbed(S, tag, l)
<1>1. \A i \in 1 .. n : i \in Int /\ i + 1 \in 1 .. n + 1 /\ S[i] = R[i + 1]
  OBVIOUS
<1>2. \A i, j \in 1 .. n : j > i => j + 1 > i + 1
  OBVIOUS
<1> QED BY <1>1, <1>2 DEF Asked, Undisturbed

LEMMA AskedLoad ==
  ASSUME NEW n \in Nat, NEW R, DOMAIN R = 1 .. n, NEW S, DOMAIN S = 1 .. n + 1,
         \A i \in 1 .. n : S[i] = R[i], IsLoad(S[n + 1]), NEW tag, NEW l
  PROVE  /\ S[n + 1].tag # tag => (Asked(S, tag) => Asked(R, tag))
         /\ S[n + 1].tag # tag => (Undisturbed(R, tag, l) => Undisturbed(S, tag, l))
         /\ ~Asked(R, tag) => Undisturbed(S, tag, l)
<1>1. \A i \in 1 .. n + 1 : i \in Int /\ (i = n + 1 \/ (i \in 1 .. n /\ S[i] = R[i]))
  OBVIOUS
<1>2. \A j \in 1 .. n + 1 : ~(j > n + 1)
  OBVIOUS
<1> QED BY <1>1, <1>2 DEF Asked, Undisturbed

LEMMA AskedStore ==
  ASSUME NEW n \in Nat, NEW R, NEW S, NEW y, Grown(R, n, S, y), ~IsLoad(y), NEW tag, NEW l
  PROVE  /\ Asked(S, tag) => Asked(R, tag)
         /\ Cells(y.loc) \cap Cells(l) = {} =>
              (Undisturbed(R, tag, l) => Undisturbed(S, tag, l))
<1>1. /\ DOMAIN R = 1 .. n /\ DOMAIN S = 1 .. n + 1
      /\ \A i \in 1 .. n + 1 : (i = n + 1 /\ S[i] = y) \/ (i \in 1 .. n /\ S[i] = R[i])
  BY DEF Grown
<1> QED BY <1>1 DEF Asked, Undisturbed

LEMMA ValueRequests ==
  ASSUME NEW r, NEW h, NEW q, NEW reqs, NEW res, NEW cm, NEW k, NEW R2,
         ValueOK(r, h, q, reqs, res, cm, k),
         Asked(R2, At(h, k)) => Asked(reqs, At(h, k)),
         Undisturbed(reqs, At(h, k), r[k].loc) => Undisturbed(R2, At(h, k), r[k].loc)
  PROVE  ValueOK(r, h, q, R2, res, cm, k)
  BY DEF ValueOK

-----------------------------------------------------------------------------
(* The requests of loads and their answers.                                *)

LoadsOK == /\ LoadTrue(rob, load_q)
           /\ LookTrue(rob, rg_erob_head, load_q, ff_load)
           /\ ValueTrue(rob, rg_erob_head, load_q, Reqs, ff_load_result, Committed)
LoadInv == StoreInv /\ LoadsOK

LEMMA LoadShape ==
  ASSUME LSInv
  PROVE  /\ Len(rob) \in 0 .. ENTRY_ROB_SIZE /\ DOMAIN rob = 1 .. Len(rob)
         /\ rg_erob_head \in Tag
         /\ \A k \in DOMAIN rob : k \in 1 .. ENTRY_ROB_SIZE /\ rob[k].index \in MemQ
                                  /\ rob[k].loc \in Loc
         /\ \A i \in MemQ : load_q[i] \in LoadEntry
         /\ DOMAIN load_q = MemQ
         /\ \A j, k \in Own(rob, "LD") : rob[j].index = rob[k].index => j = k
         /\ \A j, k \in DOMAIN rob : At(rg_erob_head, j) = At(rg_erob_head, k) => j = k
         /\ Awaiting(rob, rg_erob_head, ff_load, Reqs, ff_load_result, ff_store_broadcast)
<1>1. Len(rob) \in 0 .. ENTRY_ROB_SIZE /\ DOMAIN rob = 1 .. Len(rob) /\ rg_erob_head \in Tag
      /\ \A k \in DOMAIN rob : k \in 1 .. ENTRY_ROB_SIZE /\ rob[k].index \in MemQ
                               /\ rob[k].loc \in Loc
  BY RobDomain, SizeAssumption DEF LSInv, RobType
<1>2. \A j, k \in DOMAIN rob : At(rg_erob_head, j) = At(rg_erob_head, k) => j = k
  BY <1>1, AtInjective
<1>3. \A j, k \in Own(rob, "LD") : rob[j].index = rob[k].index => j = k
  <2>1. Len(rob) \in Nat
    BY <1>1, SizeAssumption
  <2>2. QueueOK(rob, "LD", Filled(load_q), rg_load_q_head, rg_load_q_tail)
    BY DEF LSInv, Queues
  <2> QED BY <1>1, <2>1, <2>2, PlacesApart
<1> QED BY <1>1, <1>2, <1>3 DEF LSInv, QueueType, Answers

LEMMA LoadsStill ==
  ASSUME LoadsOK, UNCHANGED <<rob, rg_erob_head, load_q>>,
         ff_load' = ff_load \/ ff_load' = <<>>,
         \A k \in Own(rob, "LD") : ~load_q[rob[k].index].aliased =>
           ValueOK(rob, rg_erob_head, load_q[rob[k].index], Reqs', ff_load_result', Committed', k)
  PROVE  LoadsOK'
<1>1. LoadTrue(rob', load_q') /\ LookTrue(rob', rg_erob_head', load_q', ff_load')
  BY DEF LoadsOK, LookTrue
<1>2. ValueTrue(rob', rg_erob_head', load_q', Reqs', ff_load_result', Committed')
  BY DEF ValueTrue
<1> QED BY <1>1, <1>2 DEF LoadsOK

LEMMA LoadsAccept ==
  ASSUME LoadInv, DcacheAccept
  PROVE  LoadsOK'
<1>1. Committed' = Committed /\ Reqs' = Reqs
  BY CommittedAccept DEF LoadInv, StoreInv
<1>2. UNCHANGED <<rob, rg_erob_head, load_q, ff_load, ff_load_result>>
  BY DEF DcacheAccept, ls_queues
<1> QED BY <1>1, <1>2, LoadsStill DEF LoadInv, LoadsOK, ValueTrue

LEMMA LoadsWrite ==
  ASSUME LoadInv, DcacheWrite
  PROVE  LoadsOK'
<1> DEFINE R == Reqs  S == Reqs'  n == Len(Reqs) - 1  res == ff_load_result  cm == Committed
           h == rg_erob_head
<1>1. /\ dcache # <<>> /\ dcache' = Tail(dcache)
      /\ UNCHANGED <<rob, rg_erob_head, load_q, ff_load, ff_request, ff_load_result>>
  BY DEF DcacheWrite, ls_queues
<1>2. /\ n \in Nat /\ DOMAIN R = 1 .. n + 1 /\ DOMAIN S = 1 .. n
      /\ \A i \in 1 .. n : S[i] = R[i + 1]
  BY <1>1, ServeFifo, FifoSeq DEF LoadInv, StoreInv, LSInv
<1>3. Committed' = cm
  BY CommittedServe DEF LoadInv, StoreInv
<1> HIDE DEF R, S, n, res, cm, h
<1>4. ASSUME NEW k \in Own(rob, "LD"), ~load_q[rob[k].index].aliased
      PROVE  ValueOK(rob, h, load_q[rob[k].index], S, res, cm, k)
  <2>1. ValueOK(rob, h, load_q[rob[k].index], R, res, cm, k)
    BY <1>4 DEF LoadInv, LoadsOK, ValueTrue, h, R, res, cm
  <2>2. /\ Asked(S, At(h, k)) => Asked(R, At(h, k))
        /\ Undisturbed(R, At(h, k), rob[k].loc) => Undisturbed(S, At(h, k), rob[k].loc)
    BY <1>2, AskedServed
  <2> QED BY <2>1, <2>2, ValueRequests
<1> QED BY <1>1, <1>3, <1>4, LoadsStill DEF LoadInv, S, res, cm, h

(* An answer is what memory has once the older stores have arrived.        *)
LEMMA LoadsResult ==
  ASSUME LoadInv, GetLoadResult
  PROVE  LoadsOK'
<1> DEFINE R == Reqs  S == Reqs'  n == Len(Reqs) - 1  cm == Committed
           h == rg_erob_head  x == Head(dcache)  d == Read(mem, x.loc)
           rs2 == <<[tag |-> x.tag, data |-> d]>>
<1>1. /\ dcache # <<>> /\ dcache' = Tail(dcache) /\ IsLoad(x)
      /\ ff_load_result' = rs2
      /\ UNCHANGED <<rob, rg_erob_head, load_q, ff_load, ff_request>>
  BY DEF GetLoadResult, ls_queues, IsLoad
<1>2. /\ n \in Nat /\ DOMAIN R = 1 .. n + 1 /\ DOMAIN S = 1 .. n
      /\ \A i \in 1 .. n : S[i] = R[i + 1]
      /\ R[1] = x
  BY <1>1, ServeFifo, FifoSeq DEF LoadInv, StoreInv, LSInv
<1>3. Committed' = cm /\ cm = After(mem, R)
  BY CommittedServe, CommittedIs DEF LoadInv, StoreInv
<1>4. DOMAIN rs2 = {1} /\ rs2[1].tag = x.tag /\ rs2[1].data = d
  OBVIOUS
<1>5. LSInv /\ Awaiting(rob, h, ff_load, R, ff_load_result, ff_store_broadcast)
  BY LoadShape DEF LoadInv, StoreInv
<1>6. \A i \in 1 .. n + 1 : i \in Int /\ (i = 1 \/ i > 1)
  BY <1>2
<1> HIDE DEF R, S, n, cm, h, x, rs2
<1>7. 1 \in DOMAIN R
  BY <1>2
<1>8. Awaited(rob, h, x.tag, x.loc)
  BY <1>1, <1>2, <1>5, <1>7 DEF Awaiting
<1>9. ASSUME NEW k \in Own(rob, "LD"), ~load_q[rob[k].index].aliased
      PROVE  ValueOK(rob, h, load_q[rob[k].index], S, rs2, cm, k)
  <2> DEFINE q == load_q[rob[k].index]
  <2>1. ValueOK(rob, h, q, R, ff_load_result, cm, k)
    BY <1>9 DEF LoadInv, LoadsOK, ValueTrue, h, R, cm
  <2>2. /\ Asked(S, At(h, k)) => Asked(R, At(h, k))
        /\ Undisturbed(R, At(h, k), rob[k].loc) => Undisturbed(S, At(h, k), rob[k].loc)
    BY <1>2, AskedServed
  <2> HIDE DEF q
  <2>3. (Asked(S, At(h, k)) => Sure(q)) /\ Undisturbed(S, At(h, k), rob[k].loc)
    BY <2>1, <2>2 DEF ValueOK
  <2>4. CASE At(h, k) = x.tag
    <3>1. rob[k].loc = x.loc /\ rob[k].stage = "issued" /\ rob[k].loc \in Loc
      BY <1>5, <1>8, <2>4, OwnerOf, LoadShape DEF Own, h
    <3>2. Asked(R, At(h, k))
      BY <1>1, <1>2, <1>7, <2>4 DEF Asked
    <3>3. \A c \in Cells(x.loc) : cm[c] = mem[c]
      <4> SUFFICES ASSUME NEW c \in Cells(x.loc) PROVE cm[c] = mem[c]
        OBVIOUS
      <4>1. ASSUME NEW i \in 1 .. n + 1, Brings(R, i, c) PROVE FALSE
        <5>1. ~IsLoad(R[i]) /\ c \in Cells(R[i].loc)
          BY <4>1 DEF Brings, IsLoad
        <5>2. i > 1
          BY <1>1, <1>2, <1>6, <5>1
        <5>3. Cells(R[i].loc) \cap Cells(rob[k].loc) = {}
          BY <1>1, <1>2, <1>7, <2>1, <2>4, <5>1, <5>2 DEF ValueOK, Undisturbed
        <5> QED BY <3>1, <5>1, <5>3
      <4>2. c \in Cell /\ n + 1 \in Nat
        BY <1>2, <3>1, LocAssumption
      <4> QED BY <1>2, <1>3, <4>1, <4>2, AfterCell
    <3>4. Read(cm, rob[k].loc) = d
      BY <3>1, <3>3 DEF Read
    <3>5. \A e : Got(rob, h, rs2, k, e) => e = d
      BY <1>4, <3>1 DEF Got
    <3>6. Sure(q)
      BY <2>1, <3>2 DEF ValueOK
    <3> HIDE DEF d
    <3>7. Sound(rob, q, cm, k, d)
      BY <3>4, <3>6 DEF Sound
    <3> QED BY <2>3, <3>5, <3>7 DEF ValueOK, q
  <2>5. CASE At(h, k) # x.tag
    <3>1. ASSUME NEW e, Got(rob, h, rs2, k, e) PROVE Sound(rob, q, cm, k, e)
      <4>1. Got(rob, h, ff_load_result, k, e)
        BY <1>4, <2>5, <3>1 DEF Got
      <4> QED BY <2>1, <4>1 DEF ValueOK
    <3> QED BY <2>3, <3>1 DEF ValueOK, q
  <2> QED BY <2>4, <2>5 DEF q
<1> QED BY <1>1, <1>3, <1>9, LoadsStill DEF LoadInv, S, cm, h

LEMMA LoadsAccess ==
  ASSUME LoadInv, AccessMemory
  PROVE  LoadsOK'
<1>1. PICK x \in LoadReq : ff_load = <<x>>
  BY DEF LoadInv, StoreInv, LSInv, FifoType, AccessMemory
<1> DEFINE R == Reqs  S == Reqs'  n == Len(Reqs)  cm == Committed
           h == rg_erob_head  res == ff_load_result
           y == [ld_st |-> "Load", loc |-> x.loc, data |-> 0, tag |-> x.tag]
<1>2. Head(ff_load) = x /\ 1 \in DOMAIN ff_load /\ ff_load[1] = x
  BY <1>1
<1>3. /\ EnqRequest(y) /\ ff_load' = <<>>
      /\ UNCHANGED <<rob, rg_erob_head, load_q, ff_load_result>>
  BY <1>2 DEF AccessMemory, ls_queues
<1>4. y \in Request /\ IsLoad(y) /\ y.tag = x.tag
  BY LocAssumption DEF LoadReq, Request, IsLoad
<1> HIDE DEF y
<1>5. /\ n \in Nat /\ DOMAIN R = 1 .. n /\ DOMAIN S = 1 .. n + 1
      /\ \A i \in 1 .. n : S[i] = R[i]
      /\ S[n + 1] = y
  BY <1>3, <1>4, EnqFifo, FifoSeq DEF LoadInv, StoreInv, LSInv
<1>6. Committed' = cm
  BY CommittedLoad DEF LoadInv, StoreInv
<1>7. ~Asked(R, x.tag)
  BY <1>2 DEF LoadInv, StoreInv, LSInv, Answers, Apart, Asked
<1>8. \A k \in Own(rob, "LD") : x.tag = At(h, k) => ~load_q[rob[k].index].forwarded
  BY <1>2 DEF LoadInv, LoadsOK, LookTrue
<1> HIDE DEF R, S, n, cm, h, res
<1>9. ASSUME NEW k \in Own(rob, "LD"), ~load_q[rob[k].index].aliased
      PROVE  ValueOK(rob, h, load_q[rob[k].index], S, res, cm, k)
  <2> DEFINE q == load_q[rob[k].index]
  <2>1. ValueOK(rob, h, q, R, res, cm, k)
    BY <1>9 DEF LoadInv, LoadsOK, ValueTrue, h, R, cm, res
  <2>2. x.tag = At(h, k) => Sure(q)
    BY <1>8 DEF Sure
  <2>3. /\ x.tag # At(h, k) => (Asked(S, At(h, k)) => Asked(R, At(h, k)))
        /\ x.tag # At(h, k) =>
             (Undisturbed(R, At(h, k), rob[k].loc) => Undisturbed(S, At(h, k), rob[k].loc))
        /\ ~Asked(R, At(h, k)) => Undisturbed(S, At(h, k), rob[k].loc)
    BY <1>4, <1>5, AskedLoad
  <2> HIDE DEF q
  <2>4. ValueOK(rob, h, q, S, res, cm, k)
    BY <1>7, <2>1, <2>2, <2>3 DEF ValueOK
  <2> QED BY <2>4 DEF q
<1> QED BY <1>3, <1>6, <1>9, LoadsStill DEF LoadInv, S, cm, h, res

(* No slot in the mask of a load that is about to look up the store queue  *)
(* belongs to a store younger than the load.                               *)
MasksFresh ==
    \A i \in DOMAIN ff_load, j, k \in DOMAIN rob :
      ff_load[i].tag = TagAt(j) /\ j < k /\ rob[k].mem_type = "STR"
        => rob[k].index \notin ff_load[i].store_mask

(* The entry with the highest index is one of those that match.            *)
LEMMA LastMatch ==
  ASSUME NEW x \in LoadReq, Forwarding(x) # {}
  PROVE  Max(Forwarding(x)) \in Forwarding(x)
<1> DEFINE S == Forwarding(x)  n == MEMQ_SIZE - 1
<1>1. n \in Nat /\ S # {} /\ S \subseteq 0 .. n
  BY SizeAssumption DEF Forwarding, LoadReq, MemQ
<1> HIDE DEF S, n
<1>2. Max(S) \in S
  BY <1>1, LastOne
<1> QED BY <1>2 DEF S

LEMMA LoadsForward ==
  ASSUME LoadInv, MasksFresh, Forward
  PROVE  LoadsOK'
<1>1. PICK x \in LoadReq : ff_load = <<x>>
  BY DEF LoadInv, StoreInv, LSInv, FifoType, Forward
<1> DEFINE cm == Committed  h == rg_erob_head  m == Max(Forwarding(x))
           d == Fill(x.loc, store_q[m].data)  rs2 == <<[tag |-> x.tag, data |-> d]>>
<1>2. Head(ff_load) = x /\ 1 \in DOMAIN ff_load /\ ff_load[1] = x
  BY <1>1
<1>3. /\ Forwarding(x) # {} /\ ff_load_result = <<>> /\ ff_load' = <<>>
      /\ ff_load_result' = rs2
      /\ load_q' = [load_q EXCEPT ![x.index].forwarded = TRUE]
      /\ UNCHANGED <<rob, rg_erob_head, dcache, ff_request, mem>>
  BY <1>2 DEF Forward
<1>4. LSInv /\ StoreTrue(rob, store_q) /\ LoadsOK
  BY DEF LoadInv, StoreInv
<1>5. DOMAIN rs2 = {1} /\ rs2[1].tag = x.tag /\ rs2[1].data = d
  OBVIOUS
<1>6. Committed' = cm /\ Reqs' = Reqs
  BY <1>3 DEF Committed, Reqs
<1>7. PICK o \in DOMAIN rob : /\ At(h, o) = x.tag /\ rob[o].mem_type = "LD"
                              /\ rob[o].stage = "issued" /\ rob[o].loc = x.loc
  BY <1>2, <1>4 DEF LSInv, Answers, Awaiting, Awaited
<1>8. /\ x.index = rob[o].index /\ x.index \in MemQ /\ o \in Own(rob, "LD")
      /\ ~Asked(Reqs, x.tag)
  <2>1. o \in Own(rob, "LD")
    BY <1>7 DEF Own
  <2>2. x.index = rob[o].index
    BY <1>2, <1>4, <1>7, <2>1 DEF LoadsOK, LookTrue
  <2>3. ~Asked(Reqs, x.tag)
    BY <1>2, <1>4 DEF LSInv, Answers, Apart, Asked
  <2> QED BY <2>1, <2>2, <2>3 DEF LoadReq
<1>9. m \in x.store_mask /\ m \in MemQ /\ store_q[m].filled /\ store_q[m].valid
      /\ store_q[m].loc = x.loc
  <2>1. m \in Forwarding(x)
    BY <1>3, LastMatch
  <2> QED BY <2>1 DEF Forwarding, LoadReq
<1> HIDE DEF m, rs2, cm
<1>10. PICK j \in Own(rob, "STR") : rob[j].index = m
  <2>1. m \in Filled(store_q)
    BY <1>9 DEF Filled
  <2> QED BY <1>4, <2>1 DEF LSInv, Queues, QueueOK
<1>11. j < o
  <2>1. j \in DOMAIN rob /\ rob[j].mem_type = "STR" /\ j # o
    BY <1>7, <1>10 DEF Own
  <2>2. ~(o < j)
    BY <1>2, <1>7, <1>9, <1>10, <2>1 DEF MasksFresh, TagAt, At
  <2>3. j \in 1 .. ENTRY_ROB_SIZE /\ o \in 1 .. ENTRY_ROB_SIZE
    BY <1>4, <2>1, LoadShape
  <2> QED BY <2>1, <2>2, <2>3, SizeAssumption
<1>12. rob[j].stage # "map" /\ rob[j].loc = rob[o].loc /\ rob[j].data = d
  <2>1. StoreOK(rob[j], store_q[m])
    BY <1>4, <1>10, StoreTrueOK
  <2> QED BY <1>7, <1>9, <2>1 DEF StoreOK
<1> HIDE DEF d
<1> DEFINE e == [load_q[x.index] EXCEPT !.forwarded = TRUE]  lq == load_q'
<1>13. /\ e.valid = load_q[x.index].valid /\ e.loc = load_q[x.index].loc
       /\ lq = [load_q EXCEPT ![x.index] = e] /\ DOMAIN load_q = MemQ
  <2>1. load_q[x.index] \in LoadEntry /\ DOMAIN load_q = MemQ
    BY <1>4, <1>8, LoadShape
  <2> QED BY <1>3, <2>1 DEF LoadEntry
<1> HIDE DEF e, lq
<1>14. /\ lq[rob[o].index] = e
       /\ \A k \in Own(rob, "LD") : k # o => lq[rob[k].index] = load_q[rob[k].index]
  <2>1. \A k \in Own(rob, "LD") : rob[k].index \in MemQ /\ (rob[k].index = rob[o].index => k = o)
    BY <1>4, <1>8, LoadShape DEF Own
  <2> QED BY <1>8, <1>13, <2>1
<1>15. LoadTrue(rob, lq)
  <2> SUFFICES ASSUME NEW k \in Own(rob, "LD") PROVE LoadOK(rob[k], lq[rob[k].index])
    BY DEF LoadTrue
  <2>1. LoadOK(rob[k], load_q[rob[k].index])
    BY <1>4 DEF LoadsOK, LoadTrue
  <2>2. CASE k = o
    BY <1>7, <1>8, <1>13, <1>14, <2>1, <2>2 DEF LoadOK
  <2>3. CASE k # o
    BY <1>14, <2>1, <2>3
  <2> QED BY <2>2, <2>3
<1>16. ASSUME NEW k \in Own(rob, "LD"), ~lq[rob[k].index].aliased
       PROVE  ValueOK(rob, h, lq[rob[k].index], Reqs, rs2, cm, k)
  <2> DEFINE q == lq[rob[k].index]
  <2>1. CASE k = o
    <3>1. \A c : Got(rob, h, rs2, k, c) => c = d
      BY <1>5, <1>7, <2>1 DEF Got
    <3>2. Sound(rob, q, cm, k, d)
      BY <1>10, <1>11, <1>12, <2>1 DEF Sound
    <3>3. ~Asked(Reqs, At(h, k))
      BY <1>7, <1>8, <2>1
    <3>4. Undisturbed(Reqs, At(h, k), rob[k].loc)
      BY <3>3 DEF Asked, Undisturbed
    <3> QED BY <3>1, <3>2, <3>3, <3>4 DEF ValueOK
  <2>2. CASE k # o
    <3>1. q = load_q[rob[k].index]
      BY <1>14, <2>2
    <3> HIDE DEF q
    <3>2. ValueOK(rob, h, q, Reqs, ff_load_result, cm, k)
      BY <1>4, <1>16, <3>1 DEF LoadsOK, ValueTrue, cm, q
    <3>3. At(h, k) # x.tag
      BY <1>4, <1>7, <2>2, LoadShape DEF Own
    <3>4. ASSUME NEW c, Got(rob, h, rs2, k, c) PROVE Sound(rob, q, cm, k, c)
      <4>1. Got(rob, h, ff_load_result, k, c)
        BY <1>5, <3>3, <3>4 DEF Got
      <4> QED BY <3>2, <4>1 DEF ValueOK
    <3> QED BY <3>2, <3>4 DEF ValueOK, q
  <2> QED BY <2>1, <2>2
<1>17. ValueTrue(rob, h, lq, Reqs, rs2, cm) /\ LookTrue(rob, h, lq, <<>>)
  BY <1>16 DEF ValueTrue, LookTrue
<1> QED BY <1>3, <1>6, <1>15, <1>17 DEF LoadsOK, lq, h, cm

-----------------------------------------------------------------------------
(* Steps that change instructions of the ROB where they are.               *)

(* The issued stores of r are in s, where they were.                       *)
StoresStay(r, s) ==
    \A j \in Own(r, "STR") : r[j].stage # "map" =>
      /\ j \in Own(s, "STR") /\ s[j].stage # "map"
      /\ s[j].loc = r[j].loc /\ s[j].data = r[j].data

LEMMA ValueStays ==
  ASSUME NEW r, NEW h, NEW q, NEW reqs, NEW res, NEW cm, NEW k, NEW s, NEW rs2,
         ValueOK(r, h, q, reqs, res, cm, k),
         s[k].loc = r[k].loc, StoresStay(r, s),
         \A d : Got(s, h, rs2, k, d) => Got(r, h, res, k, d)
  PROVE  ValueOK(s, h, q, reqs, rs2, cm, k)
<1>1. ASSUME NEW d, Got(s, h, rs2, k, d) PROVE Sound(s, q, cm, k, d)
  <2>1. Sound(r, q, cm, k, d)
    BY <1>1 DEF ValueOK
  <2>2. CASE Sure(q) /\ d = Read(cm, r[k].loc)
    BY <2>2 DEF Sound
  <2>3. CASE \E j \in Own(r, "STR") : /\ j < k /\ r[j].stage # "map"
                                      /\ r[j].loc = r[k].loc /\ r[j].data = d
    BY <2>3 DEF Sound, StoresStay
  <2> QED BY <2>1, <2>2, <2>3 DEF Sound
<1>2. (Asked(reqs, At(h, k)) => Sure(q)) /\ Undisturbed(reqs, At(h, k), s[k].loc)
  BY DEF ValueOK
<1> QED BY <1>1, <1>2 DEF ValueOK

(* Only stores change.                                                     *)
LEMMA LoadsBeside ==
  ASSUME LoadsOK, NEW s, DOMAIN s = DOMAIN rob, Own(s, "LD") = Own(rob, "LD"),
         \A k \in Own(rob, "LD") : s[k] = rob[k], StoresStay(rob, s),
         rob' = s, UNCHANGED <<rg_erob_head, load_q, ff_load, ff_load_result>>,
         Committed' = Committed, Reqs' = Reqs
  PROVE  LoadsOK'
<1> DEFINE h == rg_erob_head  cm == Committed  res == ff_load_result
<1>1. LoadTrue(s, load_q) /\ LookTrue(s, h, load_q, ff_load)
  BY DEF LoadsOK, LoadTrue, LookTrue
<1>2. ASSUME NEW k \in Own(s, "LD"), ~load_q[s[k].index].aliased
      PROVE  ValueOK(s, h, load_q[s[k].index], Reqs, res, cm, k)
  <2>1. s[k] = rob[k] /\ k \in Own(rob, "LD")
    OBVIOUS
  <2>2. ValueOK(rob, h, load_q[s[k].index], Reqs, res, cm, k)
    BY <1>2, <2>1 DEF LoadsOK, ValueTrue
  <2>3. \A d : Got(s, h, res, k, d) => Got(rob, h, res, k, d)
    BY <2>1 DEF Got
  <2> HIDE DEF h, cm, res
  <2> QED BY <2>1, <2>2, <2>3, ValueStays
<1>3. ValueTrue(s, h, load_q, Reqs, res, cm)
  BY <1>2 DEF ValueTrue
<1> QED BY <1>1, <1>3 DEF LoadsOK

LEMMA LoadsIssueStore ==
  ASSUME LoadInv, NEW k \in DOMAIN rob, NEW l \in Loc, NEW v \in Val, IssueStore(k, l, v)
  PROVE  LoadsOK'
<1> DEFINE s == rob'  x == [rob[k] EXCEPT !.stage = "issued", !.loc = l, !.data = Fill(l, v)]
<1>1. /\ rob[k].mem_type = "STR" /\ rob[k].stage = "map" /\ s = [rob EXCEPT ![k] = x]
      /\ UNCHANGED <<rg_erob_head, load_q, ff_load, ff_load_result, dcache, ff_request, mem>>
  BY DEF IssueStore
<1>2. x.mem_type = "STR"
  <2>1. PICK D : rob \in Seq(Inst(D))
    BY DEF LoadInv, StoreInv, LSInv, RobType
  <2>2. rob[k] \in Inst(D)
    BY <2>1
  <2> QED BY <1>1, <2>2 DEF Inst
<1>3. Committed' = Committed /\ Reqs' = Reqs
  BY <1>1 DEF Committed, Reqs
<1>4. s = rob'
  OBVIOUS
<1> HIDE DEF s, x
<1>5. /\ DOMAIN s = DOMAIN rob /\ s[k].mem_type = "STR"
      /\ \A j \in DOMAIN rob : j # k => s[j] = rob[j]
  BY <1>1, <1>2
<1>6. Own(s, "LD") = Own(rob, "LD") /\ \A j \in Own(rob, "LD") : s[j] = rob[j]
  BY <1>1, <1>5 DEF Own
<1>7. StoresStay(rob, s)
  BY <1>1, <1>5 DEF StoresStay, Own
<1> QED BY <1>1, <1>3, <1>4, <1>5, <1>6, <1>7, LoadsBeside DEF LoadInv

LEMMA LoadsStoreBroadcast ==
  ASSUME LoadInv, StoreBroadcast
  PROVE  LoadsOK'
<1> DEFINE s == rob'  h == rg_erob_head  new(k) == [rob[k] EXCEPT !.stage = "done"]
<1>1. PICK t : ff_store_broadcast = <<t>>
  BY DEF LoadInv, StoreInv, LSInv, FifoType, StoreBroadcast
<1>2. Head(ff_store_broadcast) = t /\ 1 \in DOMAIN ff_store_broadcast /\ ff_store_broadcast[1] = t
  BY <1>1
<1>3. /\ s = [k \in DOMAIN rob |-> IF At(h, k) = t THEN new(k) ELSE rob[k]]
      /\ UNCHANGED <<rg_erob_head, load_q, ff_load, ff_load_result, dcache, ff_request, mem>>
  BY <1>2 DEF StoreBroadcast, TagAt, At, ls_queues
<1>4. LSInv /\ StoreAwaited(rob, h, t)
  BY <1>2 DEF LoadInv, StoreInv, LSInv, Answers, Awaiting
<1>5. \A k \in DOMAIN rob :
        /\ new(k).mem_type = rob[k].mem_type /\ new(k).loc = rob[k].loc
        /\ new(k).data = rob[k].data /\ new(k).stage # "map"
  <2>1. PICK D : rob \in Seq(Inst(D))
    BY <1>4 DEF LSInv, RobType
  <2>2. \A k \in DOMAIN rob : rob[k] \in Inst(D)
    BY <2>1
  <2> QED BY <2>2 DEF Inst
<1>6. Committed' = Committed /\ Reqs' = Reqs /\ s = rob'
  BY <1>3 DEF Committed, Reqs
<1> HIDE DEF s, new
<1>7. \A k \in DOMAIN rob : At(h, k) = t => rob[k].mem_type = "STR"
  BY <1>4, OwnerOf
<1> HIDE DEF h
<1>8. /\ DOMAIN s = DOMAIN rob
      /\ \A k \in DOMAIN rob : s[k] = rob[k] \/ (s[k] = new(k) /\ rob[k].mem_type = "STR")
  BY <1>3, <1>7
<1>9. Own(s, "LD") = Own(rob, "LD") /\ \A j \in Own(rob, "LD") : s[j] = rob[j]
  BY <1>5, <1>8 DEF Own
<1>10. StoresStay(rob, s)
  BY <1>5, <1>8 DEF StoresStay, Own
<1> QED BY <1>3, <1>6, <1>8, <1>9, <1>10, LoadsBeside DEF LoadInv

LEMMA LoadsBroadcast ==
  ASSUME LoadInv, LoadBroadcast
  PROVE  LoadsOK'
<1> DEFINE s == rob'  h == rg_erob_head  cm == Committed  res == ff_load_result
<1>1. PICK t, d : ff_load_result = <<[tag |-> t, data |-> d]>>
  BY DEF LoadInv, StoreInv, LSInv, FifoType, LoadBroadcast
<1> DEFINE new(k) == [rob[k] EXCEPT !.stage = "done", !.data = d]
<1>2. /\ Head(res).tag = t /\ Head(res).data = d /\ 1 \in DOMAIN res
      /\ res[1].tag = t /\ res[1].data = d
  <2> DEFINE x == [tag |-> t, data |-> d]
  <2>1. res = <<x>> /\ x.tag = t /\ x.data = d
    BY <1>1
  <2> HIDE DEF x
  <2>2. Head(res) = x /\ res[1] = x /\ 1 \in DOMAIN res
    BY <2>1, OneEntry
  <2> QED BY <2>1, <2>2
<1>3. /\ s = [k \in DOMAIN rob |-> IF At(h, k) = t THEN new(k) ELSE rob[k]]
      /\ ff_load_result' = <<>>
      /\ UNCHANGED <<rg_erob_head, load_q, ff_load, dcache, ff_request, mem>>
  BY <1>2 DEF LoadBroadcast, TagAt, At, ls_queues
<1>4. LSInv /\ LoadsOK /\ \E l : Awaited(rob, h, t, l)
  BY <1>2 DEF LoadInv, StoreInv, LSInv, Answers, Awaiting
<1>5. \A k \in DOMAIN rob :
        /\ new(k).mem_type = rob[k].mem_type /\ new(k).loc = rob[k].loc
        /\ new(k).index = rob[k].index /\ new(k).data = d /\ new(k).stage = "done"
  <2>1. PICK D : rob \in Seq(Inst(D))
    BY <1>4 DEF LSInv, RobType
  <2>2. \A k \in DOMAIN rob : rob[k] \in Inst(D)
    BY <2>1
  <2> QED BY <2>2 DEF Inst
<1>6. Committed' = Committed /\ Reqs' = Reqs
  BY <1>3 DEF Committed, Reqs
<1>7. \A k \in DOMAIN rob : At(h, k) = t => rob[k].mem_type = "LD" /\ rob[k].stage = "issued"
  BY <1>4, OwnerOf
<1> HIDE DEF s, new, h, cm, res
<1>8. /\ DOMAIN s = DOMAIN rob
      /\ \A k \in DOMAIN rob :
           \/ s[k] = rob[k]
           \/ s[k] = new(k) /\ rob[k].mem_type = "LD" /\ rob[k].stage = "issued" /\ At(h, k) = t
  BY <1>3, <1>7
<1>9. /\ \A type : Own(s, type) = Own(rob, type)
      /\ \A k \in DOMAIN rob : s[k].loc = rob[k].loc /\ s[k].index = rob[k].index
      /\ \A k \in DOMAIN rob : (s[k].stage = "map") <=> (rob[k].stage = "map")
  <2>1. \A k \in DOMAIN rob : /\ s[k].loc = rob[k].loc /\ s[k].index = rob[k].index
                              /\ s[k].mem_type = rob[k].mem_type
                              /\ (s[k].stage = "map") <=> (rob[k].stage = "map")
    BY <1>5, <1>8
  <2> QED BY <1>8, <2>1 DEF Own
<1>10. StoresStay(rob, s)
  <2>1. \A k \in Own(rob, "STR") : s[k] = rob[k]
    BY <1>8 DEF Own
  <2> QED BY <1>9, <2>1 DEF StoresStay
<1>11. LoadTrue(s, load_q) /\ LookTrue(s, h, load_q, ff_load)
  <2>1. LoadTrue(s, load_q)
    BY <1>4, <1>9 DEF LoadsOK, LoadTrue, LoadOK, Own
  <2>2. LookTrue(rob, h, load_q, ff_load)
    BY <1>4 DEF LoadsOK, h
  <2>3. Own(s, "LD") = Own(rob, "LD") /\ \A k \in Own(rob, "LD") : s[k].index = rob[k].index
    BY <1>9 DEF Own
  <2>4. LookTrue(s, h, load_q, ff_load)
    BY <2>2, <2>3 DEF LookTrue
  <2> QED BY <2>1, <2>4
<1>12. ASSUME NEW k \in Own(s, "LD"), ~load_q[s[k].index].aliased
       PROVE  ValueOK(s, h, load_q[s[k].index], Reqs, <<>>, cm, k)
  <2>1. k \in Own(rob, "LD") /\ k \in DOMAIN rob /\ s[k].index = rob[k].index
        /\ s[k].loc = rob[k].loc
    BY <1>9 DEF Own
  <2>2. ValueOK(rob, h, load_q[s[k].index], Reqs, res, cm, k)
    BY <1>4, <1>12, <2>1 DEF LoadsOK, ValueTrue, h, res, cm
  <2>3. ASSUME NEW e, Got(s, h, <<>>, k, e) PROVE Got(rob, h, res, k, e)
    <3>1. s[k].stage = "done" /\ s[k].data = e
      BY <2>3 DEF Got
    <3>2. CASE s[k] = rob[k]
      BY <3>1, <3>2 DEF Got
    <3>3. CASE s[k] = new(k) /\ At(h, k) = t
      <4>1. e = d
        BY <1>5, <2>1, <3>1, <3>3
      <4> QED BY <1>2, <3>3, <4>1 DEF Got
    <3> QED BY <1>8, <2>1, <3>2, <3>3
  <2> QED BY <1>10, <2>1, <2>2, <2>3, ValueStays
<1>13. ValueTrue(s, h, load_q, Reqs, <<>>, cm)
  BY <1>12 DEF ValueTrue
<1> QED BY <1>3, <1>6, <1>11, <1>13 DEF LoadsOK, s, h, cm

LEMMA LoadsIssueLoad ==
  ASSUME LoadInv, NEW o \in DOMAIN rob, NEW l \in Loc, IssueLoad(o, l)
  PROVE  LoadsOK'
<1> DEFINE s == rob'  h == rg_erob_head  cm == Committed  res == ff_load_result  lq == load_q'
           b == rob[o].index
           x == [rob[o] EXCEPT !.stage = "issued", !.loc = l]
           e == [load_q[b] EXCEPT !.valid = TRUE, !.loc = l]
           ld == [store_mask |-> load_q[b].store_mask, loc |-> l, index |-> b, tag |-> At(h, o)]
<1>1. /\ rob[o].mem_type = "LD" /\ rob[o].stage = "map"
      /\ s = [rob EXCEPT ![o] = x] /\ lq = [load_q EXCEPT ![b] = e]
      /\ ff_load' = <<ld>>
      /\ UNCHANGED <<rg_erob_head, ff_load_result, dcache, ff_request, mem>>
  BY DEF IssueLoad, TagAt, At
<1>2. LSInv /\ LoadsOK
  BY DEF LoadInv, StoreInv
<1>3. /\ o \in Own(rob, "LD") /\ b \in MemQ /\ load_q[b] \in LoadEntry /\ DOMAIN load_q = MemQ
      /\ Len(rob) \in 0 .. ENTRY_ROB_SIZE /\ DOMAIN rob = 1 .. Len(rob) /\ h \in Tag
      /\ Awaiting(rob, h, ff_load, Reqs, res, ff_store_broadcast)
  BY <1>1, <1>2, LoadShape DEF Own
<1>4. x.mem_type = "LD" /\ x.stage = "issued" /\ x.loc = l /\ x.index = b
  <2>1. PICK D : rob \in Seq(Inst(D))
    BY <1>2 DEF LSInv, RobType
  <2>2. rob[o] \in Inst(D)
    BY <2>1
  <2> QED BY <1>1, <2>2 DEF Inst
<1>5. /\ e.valid = TRUE /\ e.loc = l /\ e.forwarded = load_q[b].forwarded
      /\ e.store_mask = load_q[b].store_mask
  BY <1>3 DEF LoadEntry
<1>6. \A i \in DOMAIN ff_load' : /\ ff_load'[i].tag = At(h, o) /\ ff_load'[i].index = b
                                 /\ ff_load'[i].store_mask = load_q[b].store_mask
  BY <1>1
<1>7. Committed' = cm /\ Reqs' = Reqs
  BY <1>1 DEF Committed, Reqs
<1> HIDE DEF s, x, e, ld, b, lq, cm, h, res
<1>8. /\ DOMAIN s = DOMAIN rob /\ s[o] = x
      /\ \A j \in DOMAIN rob : j # o => s[j] = rob[j]
  BY <1>1
<1>9. Own(s, "LD") = Own(rob, "LD") /\ \A j \in Own(rob, "STR") : s[j] = rob[j] /\ j \in Own(s, "STR")
  BY <1>1, <1>4, <1>8 DEF Own
<1>10. /\ lq[s[o].index] = e /\ s[o].index = b
       /\ \A k \in Own(rob, "LD") : k # o => s[k] = rob[k] /\ lq[s[k].index] = load_q[rob[k].index]
  <2>1. \A k \in Own(rob, "LD") : rob[k].index \in MemQ /\ (rob[k].index = rob[o].index => k = o)
    BY <1>2, <1>3, LoadShape DEF Own
  <2>2. \A k \in Own(rob, "LD") : k # o => s[k] = rob[k]
    BY <1>8 DEF Own
  <2> QED BY <1>1, <1>3, <1>4, <1>8, <2>1, <2>2 DEF b
<1>11. ~load_q[b].forwarded
  BY <1>1, <1>2, <1>3 DEF LoadsOK, LoadTrue, LoadOK, b
<1>12. LoadTrue(s, lq)
  <2> SUFFICES ASSUME NEW k \in Own(s, "LD") PROVE LoadOK(s[k], lq[s[k].index])
    BY DEF LoadTrue
  <2>1. CASE k = o
    BY <1>4, <1>5, <1>8, <1>10, <2>1 DEF LoadOK
  <2>2. CASE k # o
    BY <1>2, <1>9, <1>10, <2>2 DEF LoadsOK, LoadTrue
  <2> QED BY <2>1, <2>2
<1>13. LookTrue(s, h, lq, ff_load')
  <2> SUFFICES ASSUME NEW i \in DOMAIN ff_load', NEW k \in Own(s, "LD"), ff_load'[i].tag = At(h, k)
               PROVE  /\ ff_load'[i].index = s[k].index /\ ~lq[s[k].index].forwarded
                      /\ ff_load'[i].store_mask = lq[s[k].index].store_mask
    BY DEF LookTrue
  <2>1. At(h, k) = At(h, o) /\ k \in DOMAIN rob
    BY <1>6, <1>9 DEF Own
  <2>2. k = o
    BY <1>2, <2>1, LoadShape DEF h
  <2> QED BY <1>5, <1>6, <1>10, <1>11, <2>2
<1>14. ASSUME NEW k \in Own(s, "LD"), ~lq[s[k].index].aliased
       PROVE  ValueOK(s, h, lq[s[k].index], Reqs, res, cm, k)
  <2>1. CASE k = o
    <3>1. rob[o].stage # "issued"
      BY <1>1
    <3>2. /\ ~Asked(Reqs, At(h, o))
          /\ \A i \in DOMAIN res : res[i].tag # At(h, o)
      BY <1>3, <3>1, Unasked
    <3>3. s[o].stage # "done"
      BY <1>4, <1>8
    <3> QED BY <2>1, <3>2, <3>3, ValueNone
  <2>2. CASE k # o
    <3> DEFINE q == load_q[rob[k].index]
    <3>1. s[k] = rob[k] /\ lq[s[k].index] = q /\ k \in Own(rob, "LD")
      BY <1>9, <1>10, <2>2
    <3>2. ValueOK(rob, h, q, Reqs, res, cm, k)
      BY <1>2, <1>14, <3>1 DEF LoadsOK, ValueTrue, h, res, cm
    <3>3. StoresStay(rob, s)
      BY <1>9 DEF StoresStay
    <3>4. \A d : Got(s, h, res, k, d) => Got(rob, h, res, k, d)
      BY <3>1 DEF Got
    <3> HIDE DEF q
    <3>5. ValueOK(s, h, q, Reqs, res, cm, k)
      BY <3>1, <3>2, <3>3, <3>4, ValueStays
    <3> QED BY <3>1, <3>5
  <2> QED BY <2>1, <2>2
<1>15. ValueTrue(s, h, lq, Reqs, res, cm)
  BY <1>14 DEF ValueTrue
<1> QED BY <1>1, <1>7, <1>12, <1>13, <1>15 DEF LoadsOK, s, lq, h, cm, res

-----------------------------------------------------------------------------
(* Entering and leaving.                                                   *)

(* The entries of the loads that were there are left alone.                *)
LEMMA AllotLoads ==
  ASSUME LSInv, LSInv', NEW p \in Packets, Allot(p)
  PROVE  \A k \in Own(rob', "LD") : k \in DOMAIN rob =>
           /\ k \in Own(rob, "LD") /\ rob'[k] = rob[k]
           /\ load_q'[rob'[k].index] = load_q[rob[k].index]
<1> DEFINE s == rob'  lq == load_q'  tail == rg_load_q_tail
           E(i) == EnteredAt(p.req, "LD", tail, i) = {}
           new(i) == [EmptyLoad EXCEPT !.filled = TRUE,
                        !.store_mask = StoreMask(p.req, CHOOSE k \in EnteredAt(p.req, "LD", tail, i) : TRUE)]
<1>1. lq = [i \in MemQ |-> IF E(i) THEN load_q[i] ELSE new(i)]
  BY DEF Allot
<1>2. /\ DOMAIN rob = 1 .. Len(rob) /\ Len(rob) \in Nat
      /\ DOMAIN s = 1 .. Len(s) /\ Len(s) \in Nat
      /\ \A k \in DOMAIN rob : k \in DOMAIN s /\ s[k] = rob[k]
      /\ \A i \in 1 .. 2 : p.req[i] # "NOP" =>
           \E k \in DOMAIN s : k \notin DOMAIN rob /\ s[k] = NewInst(p.req, i)
  BY AllotParts
<1>3. /\ QueueOK(s, "LD", Filled(lq), rg_load_q_head', rg_load_q_tail')
      /\ \E D : s \in Seq(Inst(D))
  BY DEF LSInv, Queues, RobType
<1> HIDE DEF s, E, new, lq
<1>4. \A k \in DOMAIN s : s[k].index \in MemQ
  BY <1>3, RobPlaces
<1>5. \A k \in Own(s, "LD") : k \in DOMAIN rob =>
         k \in Own(rob, "LD") /\ s[k] = rob[k] /\ lq[s[k].index] = load_q[rob[k].index]
  <2> SUFFICES ASSUME NEW k \in Own(s, "LD"), k \in DOMAIN rob, ~E(s[k].index)
               PROVE  FALSE
    BY <1>1, <1>2, <1>4 DEF Own
  <2>1. k \in Own(rob, "LD") /\ s[k] = rob[k]
    BY <1>2 DEF Own
  <2>2. PICK i \in 1 .. 2 : p.req[i] = "LD" /\ s[k].index = QIndex(p.req, i, tail)
    BY DEF E, EnteredAt
  <2>3. \E j \in Own(s, "LD") : j \notin DOMAIN rob /\ s[j].index = s[k].index
    <3>1. PICK j \in DOMAIN s : j \notin DOMAIN rob /\ s[j] = NewInst(p.req, i)
      BY <1>2, <2>2
    <3>2. s[j].mem_type = "LD" /\ s[j].index = QIndex(p.req, i, tail)
      BY <2>2, <3>1 DEF NewInst
    <3> QED BY <2>2, <3>1, <3>2 DEF Own
  <2> QED BY <1>2, <1>3, <2>3, PlacesApart
<1> QED BY <1>5 DEF s, lq

LEMMA LoadsAllot ==
  ASSUME LoadInv, StoreInv', NEW p \in Packets, Allot(p)
  PROVE  LoadsOK'
<1> DEFINE s == rob'  h == rg_erob_head  cm == Committed  res == ff_load_result  lq == load_q'
           tail == rg_load_q_tail
           E(i) == EnteredAt(p.req, "LD", tail, i) = {}
           new(i) == [EmptyLoad EXCEPT !.filled = TRUE,
                        !.store_mask = StoreMask(p.req, CHOOSE k \in EnteredAt(p.req, "LD", tail, i) : TRUE)]
<1>1. /\ lq = [i \in MemQ |-> IF E(i) THEN load_q[i] ELSE new(i)]
      /\ UNCHANGED <<rg_erob_head, ff_load, ff_load_result, ff_store_broadcast, dcache, ff_request, mem>>
  BY DEF Allot
<1>2. \A i : new(i).valid = FALSE /\ new(i).forwarded = FALSE
  BY DEF EmptyLoad
<1>3. LSInv /\ LoadsOK
  BY DEF LoadInv, StoreInv
<1>4. /\ DOMAIN rob = 1 .. Len(rob) /\ Len(rob) \in Nat
      /\ DOMAIN s = 1 .. Len(s) /\ Len(s) \in Nat
      /\ \A k \in DOMAIN rob : k \in DOMAIN s /\ s[k] = rob[k]
      /\ \A k \in DOMAIN s : k \notin DOMAIN rob =>
           \E i \in 1 .. 2 : p.req[i] \in {"LD", "STR"} /\ s[k] = NewInst(p.req, i)
      /\ \A i \in 1 .. 2 : p.req[i] # "NOP" =>
           \E k \in DOMAIN s : k \notin DOMAIN rob /\ s[k] = NewInst(p.req, i)
  BY <1>3, AllotParts
<1>5. Committed' = cm /\ Reqs' = Reqs
  BY <1>1 DEF Committed, Reqs
<1>6. /\ QueueOK(s, "LD", Filled(lq), rg_load_q_head', rg_load_q_tail')
      /\ \E D : s \in Seq(Inst(D))
      /\ Len(s) <= ENTRY_ROB_SIZE
      /\ Awaiting(s, h, ff_load, Reqs, res, ff_store_broadcast)
      /\ h \in Tag
  BY <1>1, <1>3, <1>5 DEF StoreInv, LSInv, Queues, RobType, Answers
<1> HIDE DEF s, E, new, lq, cm, h, res
<1>7. \A k \in DOMAIN s : s[k].index \in MemQ
  BY <1>6, RobPlaces
<1>8. Len(s) \in 0 .. ENTRY_ROB_SIZE
  BY <1>4, <1>6, SizeAssumption
<1>9. \A k \in Own(s, "LD") : k \notin DOMAIN rob => s[k].stage = "map" /\ ~E(s[k].index)
  <2> SUFFICES ASSUME NEW k \in Own(s, "LD"), k \notin DOMAIN rob
               PROVE  s[k].stage = "map" /\ ~E(s[k].index)
    OBVIOUS
  <2>1. PICK i \in 1 .. 2 : s[k] = NewInst(p.req, i)
    BY <1>4 DEF Own
  <2>2. p.req[i] = "LD" /\ s[k].stage = "map" /\ s[k].index = QIndex(p.req, i, tail)
    BY <2>1 DEF NewInst, Own
  <2>3. i \in EnteredAt(p.req, "LD", tail, s[k].index)
    BY <2>2 DEF EnteredAt
  <2> QED BY <2>2, <2>3 DEF E
<1>10. \A k \in Own(s, "LD") : k \in DOMAIN rob =>
         k \in Own(rob, "LD") /\ s[k] = rob[k] /\ lq[s[k].index] = load_q[rob[k].index]
  BY <1>3, AllotLoads DEF StoreInv, s, lq
<1>11. \A k \in Own(s, "LD") : k \notin DOMAIN rob =>
         /\ ~lq[s[k].index].valid /\ ~lq[s[k].index].forwarded
         /\ ~Asked(Reqs, At(h, k))
         /\ \A i \in DOMAIN res : res[i].tag # At(h, k)
         /\ \A i \in DOMAIN ff_load : ff_load[i].tag # At(h, k)
  <2> SUFFICES ASSUME NEW k \in Own(s, "LD"), k \notin DOMAIN rob
               PROVE  /\ ~lq[s[k].index].valid /\ ~lq[s[k].index].forwarded
                      /\ ~Asked(Reqs, At(h, k))
                      /\ \A i \in DOMAIN res : res[i].tag # At(h, k)
                      /\ \A i \in DOMAIN ff_load : ff_load[i].tag # At(h, k)
    OBVIOUS
  <2>1. k \in DOMAIN s /\ s[k].stage # "issued"
    BY <1>9 DEF Own
  <2>2. lq[s[k].index] = new(s[k].index)
    BY <1>1, <1>7, <1>9, <2>1
  <2>3. /\ ~Asked(Reqs, At(h, k))
        /\ \A i \in DOMAIN res : res[i].tag # At(h, k)
        /\ \A i \in DOMAIN ff_load : ff_load[i].tag # At(h, k)
    BY <1>4, <1>6, <1>8, <2>1, Unasked
  <2> QED BY <1>2, <2>2, <2>3
<1>12. LoadTrue(s, lq)
  <2> SUFFICES ASSUME NEW k \in Own(s, "LD") PROVE LoadOK(s[k], lq[s[k].index])
    BY DEF LoadTrue
  <2>1. CASE k \in DOMAIN rob
    BY <1>3, <1>10, <2>1 DEF LoadsOK, LoadTrue
  <2>2. CASE k \notin DOMAIN rob
    BY <1>9, <1>11, <2>2 DEF LoadOK
  <2> QED BY <2>1, <2>2
<1>13. LookTrue(s, h, lq, ff_load)
  <2> SUFFICES ASSUME NEW i \in DOMAIN ff_load, NEW k \in Own(s, "LD"), ff_load[i].tag = At(h, k)
               PROVE  /\ ff_load[i].index = s[k].index /\ ~lq[s[k].index].forwarded
                      /\ ff_load[i].store_mask = lq[s[k].index].store_mask
    BY DEF LookTrue
  <2>1. k \in DOMAIN rob
    BY <1>11
  <2> QED BY <1>3, <1>10, <2>1 DEF LoadsOK, LookTrue, h
<1>14. ASSUME NEW k \in Own(s, "LD"), ~lq[s[k].index].aliased
       PROVE  ValueOK(s, h, lq[s[k].index], Reqs, res, cm, k)
  <2>1. CASE k \notin DOMAIN rob
    <3>1. s[k].stage # "done"
      BY <1>9, <2>1
    <3> QED BY <1>11, <2>1, <3>1, ValueNone
  <2>2. CASE k \in DOMAIN rob
    <3> DEFINE q == load_q[rob[k].index]
    <3>1. s[k] = rob[k] /\ lq[s[k].index] = q /\ k \in Own(rob, "LD")
      BY <1>10, <2>2
    <3>2. ValueOK(rob, h, q, Reqs, res, cm, k)
      BY <1>3, <1>14, <3>1 DEF LoadsOK, ValueTrue, h, res, cm
    <3>3. StoresStay(rob, s)
      BY <1>4 DEF StoresStay, Own
    <3>4. \A d : Got(s, h, res, k, d) => Got(rob, h, res, k, d)
      BY <3>1 DEF Got
    <3> HIDE DEF q
    <3>5. ValueOK(s, h, q, Reqs, res, cm, k)
      BY <3>1, <3>2, <3>3, <3>4, ValueStays
    <3> QED BY <3>1, <3>5
  <2> QED BY <2>1, <2>2
<1>15. ValueTrue(s, h, lq, Reqs, res, cm)
  BY <1>14 DEF ValueTrue
<1> QED BY <1>1, <1>5, <1>12, <1>13, <1>15 DEF LoadsOK, s, lq, h, cm, res

(* What a store that commits does to an entry of the load queue.           *)
LEMMA AliasFacts ==
  ASSUME NEW ld \in LoadEntry, NEW e
  PROVE  LET p == Alias(ld, e)
         IN  /\ p.valid = ld.valid /\ p.loc = ld.loc /\ p.forwarded = ld.forwarded
             /\ p.store_mask = ld.store_mask
             /\ ~p.aliased => ~ld.aliased
             /\ ~(ld.filled /\ ld.valid /\ Dword(ld.loc) = Dword(e.loc)) => p = ld
             /\ ld.filled /\ ld.valid /\ Dword(ld.loc) = Dword(e.loc) /\ ~p.aliased
                  => ~Sure(ld) /\ Sure(p)
<1> DEFINE a == [ld EXCEPT !.forward_ack = TRUE]  b == [ld EXCEPT !.aliased = TRUE]
<1>1. /\ a.valid = ld.valid /\ a.loc = ld.loc /\ a.forwarded = ld.forwarded
      /\ a.aliased = ld.aliased /\ a.forward_ack = TRUE /\ a.store_mask = ld.store_mask
      /\ b.valid = ld.valid /\ b.loc = ld.loc /\ b.forwarded = ld.forwarded
      /\ b.aliased = TRUE /\ b.store_mask = ld.store_mask
  BY DEF LoadEntry
<1>2. Alias(ld, e) = IF ~(ld.filled /\ ld.valid /\ Dword(ld.loc) = Dword(e.loc)) THEN ld
                     ELSE IF ld.forwarded /\ ~ld.forward_ack THEN a ELSE b
  BY DEF Alias
<1> HIDE DEF a, b
<1>3. CASE ~(ld.filled /\ ld.valid /\ Dword(ld.loc) = Dword(e.loc))
  BY <1>2, <1>3
<1>4. CASE /\ ld.filled /\ ld.valid /\ Dword(ld.loc) = Dword(e.loc)
           /\ ld.forwarded /\ ~ld.forward_ack
  <2>1. Alias(ld, e) = a
    BY <1>2, <1>4
  <2> QED BY <1>1, <1>4, <2>1 DEF Sure
<1>5. CASE /\ ld.filled /\ ld.valid /\ Dword(ld.loc) = Dword(e.loc)
           /\ ~(ld.forwarded /\ ~ld.forward_ack)
  <2>1. Alias(ld, e) = b
    BY <1>2, <1>5
  <2> QED BY <1>1, <1>5, <2>1
<1> QED BY <1>3, <1>4, <1>5

(* The oldest instruction leaves: what the other loads know moves with     *)
(* them.                                                                   *)
LEMMA LoadsShift ==
  ASSUME NEW n \in Nat, NEW r, DOMAIN r = 1 .. n + 1, NEW s, DOMAIN s = 1 .. n,
         \A k \in 1 .. n : s[k] = r[k + 1], \A k \in DOMAIN r : r[k].index \in MemQ,
         NEW h, NEW g, \A k \in 1 .. n : At(g, k) = At(h, k + 1),
         NEW lq, NEW mq, NEW ffl,
         \A i \in MemQ : /\ mq[i].valid = lq[i].valid /\ mq[i].loc = lq[i].loc
                         /\ mq[i].forwarded = lq[i].forwarded
                         /\ mq[i].store_mask = lq[i].store_mask,
         LoadTrue(r, lq), LookTrue(r, h, lq, ffl)
  PROVE  LoadTrue(s, mq) /\ LookTrue(s, g, mq, ffl)
<1>1. \A k \in Own(s, "LD") : /\ k \in 1 .. n /\ k + 1 \in Own(r, "LD") /\ s[k] = r[k + 1]
                              /\ At(g, k) = At(h, k + 1) /\ s[k].index \in MemQ
  <2> SUFFICES ASSUME NEW k \in Own(s, "LD")
               PROVE  /\ k \in 1 .. n /\ k + 1 \in Own(r, "LD") /\ s[k] = r[k + 1]
                      /\ At(g, k) = At(h, k + 1) /\ s[k].index \in MemQ
    OBVIOUS
  <2>1. k \in 1 .. n /\ k + 1 \in 1 .. n + 1 /\ s[k] = r[k + 1]
    BY DEF Own
  <2> QED BY <2>1 DEF Own
<1>2. LoadTrue(s, mq)
  <2> SUFFICES ASSUME NEW k \in Own(s, "LD") PROVE LoadOK(s[k], mq[s[k].index])
    BY DEF LoadTrue
  <2>1. LoadOK(s[k], lq[s[k].index])
    BY <1>1 DEF LoadTrue
  <2> QED BY <1>1, <2>1 DEF LoadOK
<1>3. LookTrue(s, g, mq, ffl)
  BY <1>1 DEF LookTrue
<1> QED BY <1>2, <1>3

LEMMA LoadsLeave ==
  ASSUME LoadInv, CommitLoad
  PROVE  LoadsOK'
<1> DEFINE n == Len(rob) - 1  s == rob'  h == rg_erob_head  g == rg_erob_head'
           cm == Committed  res == ff_load_result  lq == load_q'  hd == rg_load_q_head
           e == [load_q[hd] EXCEPT !.filled = FALSE]
<1>1. /\ rob # <<>> /\ rob[1].mem_type = "LD" /\ rob[1].stage = "done"
      /\ rob' = Tail(rob) /\ g = IncTag(h) /\ lq = [load_q EXCEPT ![hd] = e]
      /\ UNCHANGED <<ff_load, ff_load_result, dcache, ff_request, mem>>
  BY DEF CommitLoad, AtHead
<1>2. LSInv /\ LoadsOK
  BY DEF LoadInv, StoreInv
<1>3. /\ n \in Nat /\ n <= ENTRY_ROB_SIZE - 1 /\ DOMAIN rob = 1 .. n + 1 /\ DOMAIN s = 1 .. n
      /\ \A k \in 1 .. n : s[k] = rob[k + 1]
  BY <1>1, <1>2, LeaveRob, SizeAssumption
<1>4. /\ h \in Tag /\ DOMAIN load_q = MemQ /\ hd \in MemQ /\ load_q[hd] \in LoadEntry
      /\ \A k \in DOMAIN rob : rob[k].index \in MemQ
  BY <1>2, LoadShape DEF LSInv, Queues, QueueOK
<1>5. /\ e.valid = load_q[hd].valid /\ e.loc = load_q[hd].loc
      /\ e.forwarded = load_q[hd].forwarded /\ e.forward_ack = load_q[hd].forward_ack
      /\ e.aliased = load_q[hd].aliased /\ e.store_mask = load_q[hd].store_mask
  BY <1>4 DEF LoadEntry
<1>6. Committed' = cm /\ Reqs' = Reqs
  BY <1>1 DEF Committed, Reqs
<1> HIDE DEF n, s, h, g, cm, res, lq, e
<1>7. \A i \in MemQ : /\ lq[i].valid = load_q[i].valid /\ lq[i].loc = load_q[i].loc
                      /\ lq[i].forwarded = load_q[i].forwarded
                      /\ lq[i].forward_ack = load_q[i].forward_ack
                      /\ lq[i].aliased = load_q[i].aliased
                      /\ lq[i].store_mask = load_q[i].store_mask
  BY <1>1, <1>4, <1>5
<1>8. \A k \in 1 .. n : At(g, k) = At(h, k + 1)
  <2>1. \A k \in 1 .. n : k \in 1 .. ENTRY_ROB_SIZE - 1
    BY <1>3, SizeAssumption
  <2> QED BY <1>1, <1>4, <2>1, AtAfter
<1>9. LoadTrue(s, lq) /\ LookTrue(s, g, lq, ff_load)
  <2>1. LoadTrue(rob, load_q) /\ LookTrue(rob, h, load_q, ff_load)
    BY <1>2 DEF LoadsOK, h
  <2> QED BY <1>3, <1>4, <1>7, <1>8, <2>1, LoadsShift
<1>10. ASSUME NEW m \in Own(s, "LD"), ~lq[s[m].index].aliased
       PROVE  ValueOK(s, g, lq[s[m].index], Reqs, res, cm, m)
  <2> DEFINE k == m + 1  q == load_q[rob[k].index]  p == lq[s[m].index]
  <2>1. m \in 1 .. n /\ k \in 1 .. n + 1 /\ s[m] = rob[k] /\ At(g, m) = At(h, k)
        /\ k \in Own(rob, "LD")
    <3>1. m \in 1 .. n
      BY <1>3 DEF Own
    <3>2. k \in 1 .. n + 1
      BY <3>1, <1>3
    <3> QED BY <1>3, <1>8, <3>1, <3>2 DEF Own
  <2>2. ~q.aliased /\ (Sure(q) => Sure(p))
    BY <1>3, <1>4, <1>7, <1>10, <2>1 DEF Sure
  <2>3. \A j \in Own(rob, "STR") : j < k => j - 1 \in Own(s, "STR") /\ j - 1 < m /\ s[j - 1] = rob[j]
    <3> SUFFICES ASSUME NEW j \in Own(rob, "STR"), j < k
                 PROVE  j - 1 \in Own(s, "STR") /\ j - 1 < m /\ s[j - 1] = rob[j]
      OBVIOUS
    <3>1. j \in 1 .. n + 1 /\ j # 1
      BY <1>1, <1>3 DEF Own
    <3>2. j - 1 \in 1 .. n /\ (j - 1) + 1 = j /\ j - 1 < m
      BY <1>3, <2>1, <3>1
    <3>3. s[j - 1] = rob[j]
      BY <1>3, <3>2
    <3> QED BY <1>3, <3>2, <3>3 DEF Own
  <2> HIDE DEF k, q, p
  <2>4. ValueOK(rob, h, q, Reqs, res, cm, k)
    BY <1>2, <2>1, <2>2 DEF LoadsOK, ValueTrue, q, h, res, cm
  <2>5. \A d : Got(s, g, res, m, d) => Got(rob, h, res, k, d)
    BY <2>1 DEF Got
  <2>6. \A j \in Own(rob, "STR") : j < k /\ rob[j].stage # "map" /\ rob[j].loc = rob[k].loc =>
          \E i \in Own(s, "STR") : /\ i < m /\ s[i].stage # "map"
                                   /\ s[i].loc = rob[j].loc /\ s[i].data = rob[j].data
    BY <2>3
  <2>7. ValueOK(s, g, p, Reqs, res, cm, m)
    BY <2>1, <2>2, <2>4, <2>5, <2>6, ValueMoves
  <2> QED BY <2>7 DEF p
<1>11. ValueTrue(s, g, lq, Reqs, res, cm)
  BY <1>10 DEF ValueTrue
<1> QED BY <1>1, <1>6, <1>9, <1>11 DEF LoadsOK, s, g, lq, cm, res

(* A store commits.  A load that has its value either took it from this    *)
(* store or from a younger one, or reads other cells, or is now suspect.   *)
LEMMA LoadsCommit ==
  ASSUME LoadInv, CommitStore
  PROVE  LoadsOK'
<1> DEFINE n == Len(rob) - 1  s == rob'  h == rg_erob_head  g == rg_erob_head'
           cm == Committed  c2 == Committed'  res == ff_load_result  lq == load_q'
           R == Reqs  S == Reqs'  N == Len(Reqs)
           e == store_q[rg_store_q_head]
           y == [ld_st |-> "Store", loc |-> e.loc, data |-> e.data, tag |-> 0]
<1>1. /\ rob # <<>> /\ rob[1].mem_type = "STR" /\ rob[1].stage = "done"
      /\ rob' = Tail(rob) /\ g = IncTag(h) /\ lq = [i \in MemQ |-> Alias(load_q[i], e)]
      /\ EnqRequest(y)
      /\ UNCHANGED <<ff_load, ff_load_result, mem>>
  BY DEF CommitStore, AtHead
<1>2. LSInv /\ LoadsOK /\ StoreTrue(rob, store_q)
  BY DEF LoadInv, StoreInv
<1>3. /\ n \in Nat /\ n <= ENTRY_ROB_SIZE - 1 /\ DOMAIN rob = 1 .. n + 1 /\ DOMAIN s = 1 .. n
      /\ \A k \in 1 .. n : s[k] = rob[k + 1]
  BY <1>1, <1>2, LeaveRob, SizeAssumption
<1>4. /\ Len(rob) \in 0 .. ENTRY_ROB_SIZE /\ DOMAIN rob = 1 .. Len(rob)
      /\ h \in Tag /\ DOMAIN load_q = MemQ
      /\ \A i \in MemQ : load_q[i] \in LoadEntry
      /\ \A k \in DOMAIN rob : rob[k].index \in MemQ /\ rob[k].loc \in Loc
      /\ Awaiting(rob, h, ff_load, R, res, ff_store_broadcast)
  BY <1>2, LoadShape
<1>5. /\ e.loc = rob[1].loc /\ e.loc \in Loc /\ e.data \in Val
      /\ rob[1].data = Fill(e.loc, e.data)
  BY <1>2, HeadStore
<1>6. /\ y \in Request /\ ~IsLoad(y) /\ y.loc = e.loc
      /\ y.ld_st = "Store" /\ y.data = e.data
  BY <1>5, SizeAssumption DEF Request, Tag, IsLoad
<1> HIDE DEF y
<1>7. /\ N \in Nat /\ DOMAIN R = 1 .. N /\ DOMAIN S = 1 .. N + 1
      /\ \A i \in 1 .. N : S[i] = R[i]
      /\ S[N + 1] = y
  BY <1>1, <1>2, <1>6, EnqFifo, FifoSeq DEF LSInv
<1>8. c2 = Write(cm, y)
  BY <1>1, <1>2, <1>6, CommittedEnq
<1>9. \A k \in Own(rob, "LD") : load_q[rob[k].index].filled
  <2>1. Filled(load_q) = {rob[k].index : k \in Own(rob, "LD")}
    BY <1>2 DEF LSInv, Queues, QueueOK
  <2> QED BY <2>1 DEF Filled
<1>10. \A l \in Loc : \A c \in Cells(l) :
         c2[c] = IF c \in Cells(e.loc) THEN e.data ELSE cm[c]
  <2>1. \A l \in Loc : \A c \in Cells(l) : c \in Cell
    BY LocAssumption
  <2> QED BY <1>6, <1>8, <2>1 DEF Write
<1> HIDE DEF n, s, h, g, cm, c2, res, lq, R, S, N, e
<1>11. \A k \in 1 .. n : At(g, k) = At(h, k + 1)
  <2>1. \A k \in 1 .. n : k \in 1 .. ENTRY_ROB_SIZE - 1
    BY <1>3, SizeAssumption
  <2> QED BY <1>1, <1>4, <2>1, AtAfter
<1>12. \A i \in MemQ : /\ lq[i] = Alias(load_q[i], e)
                       /\ lq[i].valid = load_q[i].valid /\ lq[i].loc = load_q[i].loc
                       /\ lq[i].forwarded = load_q[i].forwarded
                       /\ lq[i].store_mask = load_q[i].store_mask
  BY <1>1, <1>4, AliasFacts
<1>13. LoadTrue(s, lq) /\ LookTrue(s, g, lq, ff_load)
  <2>1. LoadTrue(rob, load_q) /\ LookTrue(rob, h, load_q, ff_load)
    BY <1>2 DEF LoadsOK, h
  <2> QED BY <1>3, <1>4, <1>11, <1>12, <2>1, LoadsShift
<1>14. ASSUME NEW m \in Own(s, "LD"), ~lq[s[m].index].aliased
       PROVE  ValueOK(s, g, lq[s[m].index], S, res, c2, m)
  <2> DEFINE k == m + 1  b == rob[k].index  q == load_q[b]  p == lq[s[m].index]  l == rob[k].loc
             tag == At(h, k)
  <2>1. m \in 1 .. n /\ k \in 1 .. n + 1 /\ s[m] = rob[k] /\ At(g, m) = tag
        /\ k \in Own(rob, "LD")
    <3>1. m \in 1 .. n
      BY <1>3 DEF Own
    <3>2. k \in 1 .. n + 1
      BY <3>1, <1>3
    <3> QED BY <1>3, <1>11, <3>1, <3>2 DEF Own
  <2>2. b \in MemQ /\ q \in LoadEntry /\ p = Alias(q, e) /\ q.filled /\ l \in Loc
    BY <1>3, <1>4, <1>9, <1>12, <2>1
  <2>3. /\ Asked(S, tag) => Asked(R, tag)
        /\ Cells(e.loc) \cap Cells(l) = {} =>
             (Undisturbed(R, tag, l) => Undisturbed(S, tag, l))
    <3>1. N \in Nat /\ ~IsLoad(y) /\ Grown(R, N, S, y)
      BY <1>6, <1>7 DEF Grown
    <3>2. /\ Asked(S, tag) => Asked(R, tag)
          /\ Cells(y.loc) \cap Cells(l) = {} =>
               (Undisturbed(R, tag, l) => Undisturbed(S, tag, l))
      BY <3>1, AskedStore
    <3> QED BY <1>6, <3>2
  <2>4. LoadOK(rob[k], q)
    BY <1>2, <2>1 DEF LoadsOK, LoadTrue
  <2>5. \A d : Got(s, g, res, m, d) => Got(rob, h, res, k, d)
    BY <2>1 DEF Got
  <2>6. \A j \in Own(rob, "STR") :
          j < k => \/ j = 1
                   \/ j - 1 \in Own(s, "STR") /\ j - 1 < m /\ s[j - 1] = rob[j]
    <3> SUFFICES ASSUME NEW j \in Own(rob, "STR"), j < k, j # 1
                 PROVE  j - 1 \in Own(s, "STR") /\ j - 1 < m /\ s[j - 1] = rob[j]
      OBVIOUS
    <3>1. j \in 1 .. n + 1
      BY <1>3 DEF Own
    <3>2. j - 1 \in 1 .. n /\ (j - 1) + 1 = j /\ j - 1 < m
      BY <1>3, <2>1, <3>1
    <3>3. s[j - 1] = rob[j]
      BY <1>3, <3>2
    <3> QED BY <1>3, <3>2, <3>3 DEF Own
  <2>7. ~p.aliased
    BY <1>14
  <2> HIDE DEF k, b, q, p, l, tag
  <2>8. ~q.aliased
    BY <2>2, <2>7, AliasFacts
  <2>9. ValueOK(rob, h, q, R, res, cm, k)
    BY <1>2, <2>1, <2>8 DEF LoadsOK, ValueTrue, q, b, h, res, cm, R
  <2>10. CASE rob[k].stage = "map"
    <3>1. k \in DOMAIN rob /\ rob[k].stage # "issued"
      BY <2>1, <2>10 DEF Own
    <3>2. ~Asked(R, At(h, k)) /\ \A i \in DOMAIN res : res[i].tag # At(h, k)
      BY <1>4, <3>1, Unasked
    <3>3. ~Asked(S, At(g, m)) /\ \A i \in DOMAIN res : res[i].tag # At(g, m)
      BY <2>1, <2>3, <3>2 DEF tag
    <3>4. s[m].stage # "done"
      BY <2>1, <2>10
    <3>5. ValueOK(s, g, p, S, res, c2, m)
      BY <3>3, <3>4, ValueNone
    <3> QED BY <3>5 DEF p
  <2>11. CASE rob[k].stage # "map" /\ Dword(l) # Dword(e.loc)
    <3>1. q.loc = l
      BY <2>4, <2>11 DEF LoadOK, l
    <3>2. p = q
      BY <2>2, <2>11, <3>1, AliasFacts
    <3>3. Cells(e.loc) \cap Cells(l) = {}
      BY <1>5, <2>2, <2>11, LocAssumption
    <3>4. Read(c2, l) = Read(cm, l)
      BY <1>10, <2>2, <3>3 DEF Read
    <3>5. \A j \in Own(rob, "STR") : j < k /\ rob[j].stage # "map" /\ rob[j].loc = rob[k].loc =>
            \E i \in Own(s, "STR") : /\ i < m /\ s[i].stage # "map"
                                     /\ s[i].loc = rob[j].loc /\ s[i].data = rob[j].data
      BY <1>5, <2>6, <2>11 DEF l
    <3>6. Undisturbed(R, At(h, k), rob[k].loc) => Undisturbed(S, At(g, m), rob[k].loc)
      BY <2>1, <2>3, <3>3 DEF l, tag
    <3>7. Asked(S, At(g, m)) => Asked(R, At(h, k))
      BY <2>1, <2>3 DEF tag
    <3>8. Read(c2, rob[k].loc) = Read(cm, rob[k].loc) /\ s[m].loc = rob[k].loc
      BY <2>1, <3>4 DEF l
    <3>9. Sure(q) => Sure(p)
      BY <3>2
    <3>10. ValueOK(s, g, p, S, res, c2, m)
      BY <2>5, <2>9, <3>5, <3>6, <3>7, <3>8, <3>9, ValueMoves
    <3> QED BY <3>10 DEF p
  <2>12. CASE rob[k].stage # "map" /\ Dword(l) = Dword(e.loc)
    <3>1. q.valid /\ q.loc = l
      BY <2>4, <2>12 DEF LoadOK, l
    <3>2. ~Sure(q) /\ Sure(p)
      BY <2>2, <2>7, <2>12, <3>1, AliasFacts
    <3>3. ~Asked(S, At(g, m))
      BY <2>1, <2>3, <2>9, <3>2 DEF ValueOK, tag
    <3>4. ASSUME NEW d, Got(s, g, res, m, d) PROVE Sound(s, p, c2, m, d)
      <4>1. Sound(rob, q, cm, k, d)
        BY <2>5, <2>9, <3>4 DEF ValueOK
      <4>2. PICK j \in Own(rob, "STR") : /\ j < k /\ rob[j].stage # "map"
                                         /\ rob[j].loc = rob[k].loc /\ rob[j].data = d
        BY <3>2, <4>1 DEF Sound
      <4>3. CASE j = 1
        <5>1. s[m].loc = e.loc /\ d = Fill(e.loc, e.data)
          BY <1>5, <2>1, <4>2, <4>3
        <5>2. \A c \in Cells(e.loc) : c2[c] = e.data
          BY <1>5, <1>10
        <5>3. Read(c2, e.loc) = Fill(e.loc, e.data)
          BY <5>2 DEF Read, Fill
        <5> QED BY <3>2, <5>1, <5>3 DEF Sound
      <4>4. CASE j - 1 \in Own(s, "STR") /\ j - 1 < m /\ s[j - 1] = rob[j]
        BY <2>1, <4>2, <4>4 DEF Sound
      <4> QED BY <2>6, <4>2, <4>3, <4>4
    <3>5. Undisturbed(S, At(g, m), s[m].loc)
      BY <3>3 DEF Asked, Undisturbed
    <3> QED BY <3>3, <3>4, <3>5 DEF ValueOK, p
  <2> QED BY <2>10, <2>11, <2>12
<1>15. ValueTrue(s, g, lq, S, res, c2)
  BY <1>14 DEF ValueTrue
<1> QED BY <1>1, <1>13, <1>15 DEF LoadsOK, s, g, lq, c2, res, S

-----------------------------------------------------------------------------
(* The theorem, as long as no mask is out of date.                         *)

LEMMA LoadsInductive ==
  ASSUME LoadInv, MasksFresh, [Next]_vars
  PROVE  LoadInv'
<1>1. StoreInv /\ StoreInv' /\ LoadsOK
  BY StoreInductive DEF LoadInv
<1> SUFFICES LoadsOK'
  BY <1>1 DEF LoadInv
<1>2. ASSUME NEW p \in Packets, Allot(p) PROVE LoadsOK'
  BY <1>1, <1>2, LoadsAllot
<1>3. ASSUME NEW k \in DOMAIN rob, NEW l \in Loc, IssueLoad(k, l) PROVE LoadsOK'
  BY <1>3, LoadsIssueLoad
<1>4. ASSUME NEW k \in DOMAIN rob, NEW l \in Loc, NEW v \in Val, IssueStore(k, l, v)
      PROVE  LoadsOK'
  BY <1>4, LoadsIssueStore
<1>5. CASE Forward
  BY <1>5, LoadsForward
<1>6. CASE AccessMemory
  BY <1>6, LoadsAccess
<1>7. CASE DcacheAccept
  BY <1>7, LoadsAccept
<1>8. CASE DcacheWrite
  BY <1>8, LoadsWrite
<1>9. CASE GetLoadResult
  BY <1>9, LoadsResult
<1>10. CASE LoadBroadcast
  BY <1>10, LoadsBroadcast
<1>11. CASE StoreBroadcast
  BY <1>11, LoadsStoreBroadcast
<1>12. CASE CommitStore
  BY <1>12, LoadsCommit
<1>13. CASE CommitLoad
  BY <1>13, LoadsLeave
<1>14. CASE ReplayLoad \/ Flush
  <2>1. rob' = <<>>
    BY <1>14 DEF ReplayLoad, Flush, Clear
  <2> QED BY <2>1 DEF LoadsOK, LoadTrue, LookTrue, ValueTrue, Own
<1>15. CASE UNCHANGED vars
  BY <1>1, <1>15 DEF vars, ls_queues, LoadsOK, Committed, Reqs
<1> QED BY <1>2, <1>3, <1>4, <1>5, <1>6, <1>7, <1>8, <1>9, <1>10, <1>11, <1>12, <1>13, <1>14,
           <1>15 DEF Next

LEMMA LoadsInit ==
  ASSUME Init
  PROVE  LoadInv
<1>1. StoreInv
  BY InitLS DEF Init, StoreInv, StoreTrue, Own
<1>2. rob = <<>>
  BY DEF Init
<1> QED BY <1>1, <1>2 DEF LoadInv, LoadsOK, LoadTrue, LookTrue, ValueTrue, Own

(* What the invariant says of the load at the head of the ROB.             *)
LEMMA LoadsCorrect ==
  ASSUME LoadInv
  PROVE  LoadCorrect
<1> SUFFICES ASSUME AtHead("LD"), ~load_q[rg_load_q_head].aliased
             PROVE  rob[1].data = Read(Committed, rob[1].loc)
  BY DEF LoadCorrect
<1> DEFINE r == rob  cm == Committed  h == rg_erob_head  d == rob[1].data  hd == rg_load_q_head
           q == load_q[r[1].index]
<1>1. LSInv /\ LoadsOK
  BY DEF LoadInv, StoreInv
<1>2. /\ r # <<>> /\ r[1].mem_type = "LD" /\ r[1].stage = "done" /\ d = r[1].data
      /\ ~load_q[hd].aliased /\ d = rob[1].data /\ rob[1].loc = r[1].loc
  BY DEF AtHead
<1>3. Len(r) \in Nat \ {0} /\ DOMAIN r = 1 .. Len(r)
  <2>1. PICK D : r \in Seq(Inst(D))
    BY <1>1 DEF LSInv, RobType
  <2> HIDE DEF r
  <2> QED BY <1>2, <2>1, EmptySeq, LenProperties
<1>4. QueueOK(r, "LD", Filled(load_q), hd, rg_load_q_tail)
  BY <1>1 DEF LSInv, Queues
<1> HIDE DEF r, d, hd, h, cm
<1>5. r[1].index = hd
  <2> DEFINE n == Len(r) - 1
  <2>1. n \in Nat /\ DOMAIN r = 1 .. n + 1
    BY <1>3
  <2> HIDE DEF n
  <2> QED BY <1>2, <1>4, <2>1, QueueHead
<1>6. 1 \in Own(r, "LD")
  BY <1>2, <1>3 DEF Own
<1> HIDE DEF q
<1>7. ValueOK(r, h, q, Reqs, ff_load_result, cm, 1)
  BY <1>1, <1>2, <1>5, <1>6 DEF LoadsOK, ValueTrue, q, r, h, cm
<1>8. Got(r, h, ff_load_result, 1, d)
  BY <1>2 DEF Got
<1>9. Sound(r, q, cm, 1, d)
  BY <1>7, <1>8 DEF ValueOK
<1>10. \A j \in Own(r, "STR") : ~(j < 1)
  BY <1>3 DEF Own
<1>11. d = Read(cm, r[1].loc)
  BY <1>9, <1>10 DEF Sound
<1> QED BY <1>2, <1>11 DEF cm, r

(* A load that commits without a replay returns what memory holds once the *)
(* stores before it have arrived, however early it ran: because it was     *)
(* forwarded the data of a store that was the last one to commit           *)
(* (rl_process_load and rl_commit_store of LS_unit.bsv), or because no     *)
(* store of its double word committed since it was read.  The masks of the *)
(* loads that look up the store queue have to be up to date: nothing in    *)
(* LS_unit.bsv takes a slot out of a mask when its store commits.          *)
THEOREM LoadsFaithful == Spec /\ []MasksFresh => []LoadCorrect
<1>1. Init => LoadInv
  BY LoadsInit
<1>2. LoadInv /\ MasksFresh /\ [Next]_vars => LoadInv'
  BY LoadsInductive
<1>3. LoadInv => LoadCorrect
  BY LoadsCorrect
<1> QED BY <1>1, <1>2, <1>3, PTL DEF Spec

-----------------------------------------------------------------------------
(* Masks stay up to date where the queues are large enough: the stores in  *)
(* a mask are less than a ROB behind the place at which the load was       *)
(* dispatched, the stores younger than the load less than a ROB past it.   *)

(* Store k is as far from the tail as there are instructions behind it; it *)
(* would take a whole queue of them to bring the tail back to it.          *)
StoreNear(r, n, tail, k) ==
    LET D == Distance(r[k].index, tail)
    IN  D <= n - k + 1 /\ (D = 0 => n - k + 1 >= MEMQ_SIZE)
StoresNear(r, n, tail) == \A k \in Own(r, "STR") : StoreNear(r, n, tail, k)

(* Load k was dispatched when the tail of the store queue was at s.        *)
Behind(mask, s) == \A i \in mask : i \in MemQ /\ Distance(i, s) \in 1 .. ENTRY_ROB_SIZE - 1
DispatchedAt(r, n, tail, k, s) ==
    /\ \A j \in Own(r, "STR") : j > k => Distance(s, r[j].index) < j - k
    /\ Distance(s, tail) <= n - k
MasksBehind(r, n, lq, tail) ==
    \A k \in Own(r, "LD") : \E s \in MemQ :
      Behind(lq[r[k].index].store_mask, s) /\ DispatchedAt(r, n, tail, k, s)

(* Nothing enters; the first d instructions leave.                         *)
Leaving(r, n, s, m, d) ==
    /\ n \in Nat /\ m \in Nat /\ d \in Nat /\ n = m + d
    /\ DOMAIN r = 1 .. n /\ DOMAIN s = 1 .. m
    /\ \A k \in 1 .. m : s[k].mem_type = r[k + d].mem_type /\ s[k].index = r[k + d].index
SameMasks(s, lq, mq) ==
    \A k \in Own(s, "LD") : mq[s[k].index].store_mask = lq[s[k].index].store_mask

LEMMA NearKept ==
  ASSUME NEW r, NEW n, NEW s, NEW m, NEW d, NEW tail,
         Leaving(r, n, s, m, d), StoresNear(r, n, tail)
  PROVE  StoresNear(s, m, tail)
<1> SUFFICES ASSUME NEW k \in Own(s, "STR") PROVE StoreNear(s, m, tail, k)
  BY DEF StoresNear
<1>1. k \in 1 .. m /\ k + d \in 1 .. n /\ n - (k + d) = m - k
  BY DEF Own, Leaving
<1>2. k + d \in Own(r, "STR") /\ s[k].index = r[k + d].index
  BY <1>1 DEF Own, Leaving
<1>3. StoreNear(r, n, tail, k + d)
  BY <1>2 DEF StoresNear
<1> QED BY <1>1, <1>2, <1>3 DEF StoreNear, Leaving

LEMMA BehindKept ==
  ASSUME NEW r, NEW n, NEW s, NEW m, NEW d, NEW tail, NEW lq, NEW mq,
         Leaving(r, n, s, m, d), SameMasks(s, lq, mq), MasksBehind(r, n, lq, tail)
  PROVE  MasksBehind(s, m, mq, tail)
<1> SUFFICES ASSUME NEW k \in Own(s, "LD")
             PROVE  \E t \in MemQ : /\ Behind(mq[s[k].index].store_mask, t)
                                    /\ DispatchedAt(s, m, tail, k, t)
  BY DEF MasksBehind
<1>1. k \in 1 .. m /\ k + d \in 1 .. n /\ n - (k + d) = m - k
  BY DEF Own, Leaving
<1>2. k + d \in Own(r, "LD") /\ s[k].index = r[k + d].index
  BY <1>1 DEF Own, Leaving
<1>3. PICK t \in MemQ : /\ Behind(lq[r[k + d].index].store_mask, t)
                        /\ DispatchedAt(r, n, tail, k + d, t)
  BY <1>2 DEF MasksBehind
<1>4. Behind(mq[s[k].index].store_mask, t)
  BY <1>2, <1>3 DEF SameMasks
<1>5. ASSUME NEW j \in Own(s, "STR"), j > k PROVE Distance(t, s[j].index) < j - k
  <2>1. j \in 1 .. m /\ j + d \in 1 .. n /\ j + d > k + d /\ (j + d) - (k + d) = j - k
    BY <1>1, <1>5 DEF Own, Leaving
  <2>2. j + d \in Own(r, "STR") /\ s[j].index = r[j + d].index
    BY <2>1 DEF Own, Leaving
  <2>3. Distance(t, r[j + d].index) < (j + d) - (k + d)
    BY <1>3, <2>1, <2>2 DEF DispatchedAt
  <2> QED BY <2>1, <2>2, <2>3
<1>6. Distance(t, tail) <= m - k
  BY <1>1, <1>3 DEF DispatchedAt, Leaving
<1>7. DispatchedAt(s, m, tail, k, t)
  BY <1>5, <1>6 DEF DispatchedAt
<1> QED BY <1>4, <1>7

(* A load or a store enters: the store at the tail.                        *)
TailPast(x, tail) == IF x.mem_type = "STR" THEN Inc(tail) ELSE tail

LEMMA TailMoves ==
  ASSUME NEW tail \in MemQ, NEW x, NEW i \in MemQ
  PROVE  /\ TailPast(x, tail) \in MemQ
         /\ Distance(i, tail) \in Int /\ Distance(i, TailPast(x, tail)) \in Int
         /\ 0 <= Distance(i, tail)
         /\ \/ Distance(i, TailPast(x, tail)) = 0 /\ Distance(i, tail) = MEMQ_SIZE - 1
            \/ /\ Distance(i, TailPast(x, tail)) <= Distance(i, tail) + 1
               /\ Distance(i, TailPast(x, tail)) = 0 => Distance(i, tail) = 0
<1>1. TailPast(x, tail) = Inc(tail) \/ TailPast(x, tail) = tail
  BY DEF TailPast
<1>2. Inc(tail) \in MemQ
  BY IncValue
<1>3. /\ Distance(i, tail) \in Int /\ 0 <= Distance(i, tail)
      /\ Distance(i, Inc(tail)) \in Int
  BY <1>2, DistanceType
<1>4. \/ Distance(i, Inc(tail)) = 0 /\ Distance(i, tail) = MEMQ_SIZE - 1
      \/ Distance(i, Inc(tail)) = Distance(i, tail) + 1
  BY DistanceInc
<1>5. CASE TailPast(x, tail) = tail
  BY <1>3, <1>5
<1>6. CASE TailPast(x, tail) = Inc(tail)
  BY <1>2, <1>3, <1>4, <1>6
<1> QED BY <1>1, <1>5, <1>6

LEMMA NearEnters ==
  ASSUME NEW n \in Nat, NEW r, NEW s, NEW x, Grown(r, n, s, x), NEW tail \in MemQ,
         x.mem_type = "STR" => x.index = tail, \A k \in 1 .. n : r[k].index \in MemQ,
         StoresNear(r, n, tail)
  PROVE  StoresNear(s, n + 1, TailPast(x, tail))
<1> SUFFICES ASSUME NEW k \in Own(s, "STR") PROVE StoreNear(s, n + 1, TailPast(x, tail), k)
  BY DEF StoresNear
<1>1. /\ k \in 1 .. n + 1 /\ s[k].mem_type = "STR"
      /\ k \in 1 .. n => s[k] = r[k] /\ k \in Own(r, "STR")
      /\ k \notin 1 .. n => k = n + 1 /\ s[k] = x
  BY DEF Own, Grown
<1>2. CASE k \in 1 .. n
  <2> DEFINE i == r[k].index  t == TailPast(x, tail)  D == Distance(i, tail)  E == Distance(i, t)
  <2>1. i \in MemQ /\ s[k].index = i
    BY <1>1, <1>2
  <2>2. /\ D \in Int /\ E \in Int /\ 0 <= D
        /\ \/ E = 0 /\ D = MEMQ_SIZE - 1
           \/ E <= D + 1 /\ (E = 0 => D = 0)
    <3> HIDE DEF i
    <3> QED BY <2>1, TailMoves
  <2>3. D <= n - k + 1 /\ (D = 0 => n - k + 1 >= MEMQ_SIZE)
    BY <1>1, <1>2 DEF StoresNear, StoreNear
  <2> HIDE DEF D, E, i
  <2>4. E <= (n + 1) - k + 1 /\ (E = 0 => (n + 1) - k + 1 >= MEMQ_SIZE)
    BY <1>2, <2>2, <2>3, SizeAssumption
  <2> QED BY <2>1, <2>4 DEF StoreNear, E, t
<1>3. CASE k = n + 1
  <2>1. s[k] = x /\ x.mem_type = "STR" /\ x.index = tail /\ TailPast(x, tail) = Inc(tail)
    BY <1>1, <1>3 DEF TailPast
  <2>2. Inc(tail) # tail /\ Distance(tail, tail) = 0
    BY IncValue, DistanceHead, SizeAssumption DEF MemQ
  <2>3. Distance(tail, Inc(tail)) = 1
    BY <2>2, DistanceInc
  <2>4. (n + 1) - k + 1 = 1
    BY <1>3
  <2> QED BY <2>1, <2>3, <2>4 DEF StoreNear
<1> QED BY <1>1, <1>2, <1>3

LEMMA BehindEnters ==
  ASSUME NEW n \in Nat, NEW r, NEW s, NEW x, Grown(r, n, s, x), NEW tail \in MemQ,
         x.mem_type = "STR" => x.index = tail,
         NEW lq, x.mem_type = "LD" => Behind(lq[x.index].store_mask, tail),
         MasksBehind(r, n, lq, tail)
  PROVE  MasksBehind(s, n + 1, lq, TailPast(x, tail))
<1> DEFINE t == TailPast(x, tail)
<1> SUFFICES ASSUME NEW k \in Own(s, "LD")
             PROVE  \E i \in MemQ : /\ Behind(lq[s[k].index].store_mask, i)
                                    /\ DispatchedAt(s, n + 1, t, k, i)
  BY DEF MasksBehind
<1>1. /\ k \in 1 .. n + 1 /\ s[k].mem_type = "LD"
      /\ k \in 1 .. n => s[k] = r[k] /\ k \in Own(r, "LD")
      /\ k \notin 1 .. n => k = n + 1 /\ s[k] = x
  BY DEF Own, Grown
<1>2. \A j \in Own(s, "STR") : \/ j \in 1 .. n /\ j \in Own(r, "STR") /\ s[j] = r[j]
                               \/ j = n + 1 /\ s[j].index = tail
  BY DEF Own, Grown
<1>3. CASE k \in 1 .. n
  <2>1. PICK i \in MemQ : Behind(lq[r[k].index].store_mask, i) /\ DispatchedAt(r, n, tail, k, i)
    BY <1>1, <1>3 DEF MasksBehind
  <2>2. /\ Distance(i, tail) \in Int /\ Distance(i, t) \in Int
        /\ Distance(i, t) = 0 \/ Distance(i, t) <= Distance(i, tail) + 1
    BY TailMoves
  <2>3. /\ \A j \in Own(r, "STR") : j > k => Distance(i, r[j].index) < j - k
        /\ Distance(i, tail) <= n - k
    BY <2>1 DEF DispatchedAt
  <2> HIDE DEF t
  <2>4. Distance(i, t) <= (n + 1) - k
    BY <1>3, <2>2, <2>3
  <2>5. ASSUME NEW j \in Own(s, "STR"), j > k PROVE Distance(i, s[j].index) < j - k
    <3>1. CASE j \in 1 .. n /\ j \in Own(r, "STR") /\ s[j] = r[j]
      BY <2>3, <2>5, <3>1
    <3>2. CASE j = n + 1 /\ s[j].index = tail
      BY <1>3, <2>2, <2>3, <3>2
    <3> QED BY <1>2, <3>1, <3>2
  <2>6. DispatchedAt(s, n + 1, t, k, i)
    BY <2>4, <2>5 DEF DispatchedAt
  <2> QED BY <1>1, <1>3, <2>1, <2>6
<1>4. CASE k = n + 1
  <2>1. s[k] = x /\ t = tail /\ Behind(lq[s[k].index].store_mask, tail)
    BY <1>1, <1>4 DEF TailPast
  <2>2. Distance(tail, t) <= (n + 1) - k
    BY <1>4, <2>1, DistanceHead
  <2>3. \A j \in Own(s, "STR") : ~(j > k)
    BY <1>4 DEF Own, Grown
  <2> QED BY <2>1, <2>2, <2>3 DEF DispatchedAt
<1> QED BY <1>1, <1>3, <1>4

(* The sizes for which that is enough                                      *)
Roomy == MEMQ_SIZE >= 2 * (ENTRY_ROB_SIZE - 1)

Masks == /\ StoresNear(rob, Len(rob), rg_store_q_tail)
         /\ MasksBehind(rob, Len(rob), load_q, rg_store_q_tail)
MaskInv == LoadInv /\ Masks

(* The stores in the ROB are less than a ROB behind the tail.              *)
LEMMA NearBehind ==
  ASSUME Roomy, NEW n \in 0 .. ENTRY_ROB_SIZE - 1, NEW r, DOMAIN r = 1 .. n,
         NEW tail \in MemQ, StoresNear(r, n, tail), NEW mask,
         \A i \in mask : i \in MemQ /\ \E k \in Own(r, "STR") : r[k].index = i
  PROVE  Behind(mask, tail)
<1> SUFFICES ASSUME NEW i \in mask PROVE Distance(i, tail) \in 1 .. ENTRY_ROB_SIZE - 1
  BY DEF Behind
<1>1. PICK k \in Own(r, "STR") : r[k].index = i
  OBVIOUS
<1> DEFINE D == Distance(i, tail)
<1>2. D \in Int /\ 0 <= D
  BY DistanceType
<1>3. D <= n - k + 1 /\ (D = 0 => n - k + 1 >= MEMQ_SIZE) /\ k \in 1 .. n
  BY <1>1 DEF StoresNear, StoreNear, Own
<1> HIDE DEF D
<1>4. D \in 1 .. ENTRY_ROB_SIZE - 1
  BY <1>2, <1>3, SizeAssumption DEF Roomy
<1> QED BY <1>4 DEF D

(* The mask that the i-th request of a packet gets.                        *)
LEMMA MaskOf ==
  ASSUME NEW p \in Packets, Allot(p), NEW i \in 1 .. 2, p.req[i] = "LD",
         rg_load_q_tail \in MemQ
  PROVE  load_q'[NewInst(p.req, i).index].store_mask = StoreMask(p.req, i)
<1> DEFINE tail == rg_load_q_tail  q == QIndex(p.req, i, tail)
<1>1. Inc(tail) \in MemQ /\ Inc(tail) # tail
  BY IncValue, SizeAssumption DEF MemQ
<1>2. q \in MemQ /\ NewInst(p.req, i).index = q
  BY <1>1 DEF QIndex, NewInst
<1>3. EnteredAt(p.req, "LD", tail, q) = {i}
  BY <1>1 DEF EnteredAt, QIndex
<1> DEFINE new == [EmptyLoad EXCEPT !.filled = TRUE,
                     !.store_mask = StoreMask(p.req, CHOOSE k \in EnteredAt(p.req, "LD", tail, q) : TRUE)]
<1>4. load_q'[q] = new
  BY <1>2, <1>3 DEF Allot
<1>5. new.store_mask = StoreMask(p.req, CHOOSE k \in EnteredAt(p.req, "LD", tail, q) : TRUE)
  BY DEF EmptyLoad
<1>6. (CHOOSE k \in EnteredAt(p.req, "LD", tail, q) : TRUE) = i
  BY <1>3
<1> QED BY <1>2, <1>4, <1>5, <1>6

LEMMA MasksAllot ==
  ASSUME Roomy, MaskInv, LSInv', NEW p \in Packets, Allot(p)
  PROVE  Masks'
<1> DEFINE s == rob'  lq == load_q'  tail == rg_store_q_tail
           x1 == NewInst(p.req, 1)  x2 == NewInst(p.req, 2)  n == Len(rob)
           t1 == IF p.req[1] = "STR" THEN Inc(tail) ELSE tail
           t2 == IF p.req[2] = "STR" THEN Inc(t1) ELSE t1
<1>1. /\ LSInv /\ StoresNear(rob, n, tail) /\ MasksBehind(rob, n, load_q, tail)
  BY DEF MaskInv, LoadInv, StoreInv, Masks
<1>2. p.req[1] \in Mem_type /\ p.req[2] \in Mem_type
  BY PacketsAssumption
<1>3. PICK C, r1 :
        /\ rob \in Seq(Inst(C)) /\ r1 \in Seq(Inst(C)) /\ s \in Seq(Inst(C))
        /\ p.req[1] = "NOP" => r1 = rob /\ Len(r1) = Len(rob)
        /\ p.req[1] # "NOP" => Grown(rob, Len(rob), r1, x1) /\ Len(r1) = Len(rob) + 1
        /\ p.req[2] = "NOP" => s = r1 /\ Len(s) = Len(r1)
        /\ p.req[2] # "NOP" => Grown(r1, Len(r1), s, x2) /\ Len(s) = Len(r1) + 1
  BY <1>1, AllotRob, Zenon
<1> DEFINE m == Len(r1)
<1>4. /\ DOMAIN rob = 1 .. n /\ n \in Nat /\ DOMAIN r1 = 1 .. m /\ m \in Nat
      /\ \A k \in 1 .. n : rob[k].index \in MemQ
      /\ \A k \in 1 .. m : r1[k].index \in MemQ
  BY <1>3, RobPlaces
<1>5. n + 2 <= ENTRY_ROB_SIZE /\ rg_store_q_tail' = Moved(p.req, "STR", tail)
  BY DEF Allot
<1>6. tail \in MemQ /\ rg_load_q_tail \in MemQ
  BY <1>1 DEF LSInv, Queues, QueueOK
<1>7. t1 \in MemQ /\ rg_store_q_tail' = t2
  BY <1>2, <1>5, <1>6, IncValue DEF Moved, Mem_type
<1>8. /\ x1.mem_type = p.req[1] /\ x2.mem_type = p.req[2]
      /\ p.req[1] = "STR" => x1.index = tail
      /\ p.req[2] = "STR" => x2.index = t1
  BY <1>2 DEF NewInst, QIndex, Mem_type
<1>9. /\ p.req[1] = "LD" => lq[x1.index].store_mask = Filled(store_q)
      /\ p.req[2] = "LD" => lq[x2.index].store_mask =
                              Filled(store_q) \cup (IF p.req[1] = "STR" THEN {tail} ELSE {})
  BY <1>6, MaskOf DEF StoreMask, Filled
<1>10. Filled(store_q) \subseteq MemQ /\ Filled(store_q) = {rob[k].index : k \in Own(rob, "STR")}
  BY <1>1 DEF LSInv, Queues, QueueOK, Filled
<1>11. MasksBehind(rob, n, lq, tail)
  <2>1. \A k \in Own(rob, "LD") : lq[rob[k].index] = load_q[rob[k].index]
    <3> SUFFICES ASSUME NEW k \in Own(rob, "LD") PROVE lq[rob[k].index] = load_q[rob[k].index]
      OBVIOUS
    <3>1. k \in DOMAIN rob /\ k \in DOMAIN s /\ s[k] = rob[k]
      BY <1>1, AllotParts DEF Own
    <3>2. k \in Own(s, "LD")
      BY <3>1 DEF Own
    <3> QED BY <1>1, <3>1, <3>2, AllotLoads
  <2> HIDE DEF lq, n, tail
  <2>2. Leaving(rob, n, rob, n, 0)
    BY <1>1, <1>4 DEF Leaving
  <2>3. SameMasks(rob, load_q, lq)
    BY <2>1 DEF SameMasks
  <2> QED BY <1>1, <2>2, <2>3, BehindKept
<1> HIDE DEF s, lq, tail, x1, x2, n, m, t1, t2
<1>12. n \in 0 .. ENTRY_ROB_SIZE - 1 /\ m \in 0 .. ENTRY_ROB_SIZE - 1
  <2>1. m = n \/ m = n + 1
    BY <1>3 DEF n, m
  <2> QED BY <1>4, <1>5, <2>1, SizeAssumption
<1>13. Behind(Filled(store_q), tail)
  BY <1>1, <1>4, <1>6, <1>10, <1>12, NearBehind DEF tail
<1>14. StoresNear(r1, m, t1) /\ MasksBehind(r1, m, lq, t1)
  <2>1. CASE p.req[1] = "NOP"
    BY <1>1, <1>3, <1>11, <2>1 DEF t1, m, n
  <2>2. CASE p.req[1] # "NOP"
    <3>1. Grown(rob, n, r1, x1) /\ m = n + 1 /\ TailPast(x1, tail) = t1
      BY <1>3, <1>8, <2>2 DEF n, m, TailPast, t1
    <3>2. x1.mem_type = "LD" => Behind(lq[x1.index].store_mask, tail)
      BY <1>8, <1>9, <1>13
    <3>3. tail \in MemQ /\ (x1.mem_type = "STR" => x1.index = tail)
      BY <1>6, <1>8 DEF tail
    <3>4. StoresNear(r1, n + 1, t1)
      BY <1>1, <1>4, <3>1, <3>3, NearEnters
    <3>5. MasksBehind(r1, n + 1, lq, t1)
      BY <1>4, <1>11, <3>1, <3>2, <3>3, BehindEnters
    <3> QED BY <3>1, <3>4, <3>5
  <2> QED BY <2>1, <2>2
<1>15. p.req[2] = "LD" => Behind(lq[x2.index].store_mask, t1)
  <2> SUFFICES ASSUME p.req[2] = "LD" PROVE Behind(lq[x2.index].store_mask, t1)
    OBVIOUS
  <2> DEFINE mask == lq[x2.index].store_mask
  <2>1. ASSUME NEW i \in mask
        PROVE  i \in MemQ /\ \E k \in Own(r1, "STR") : r1[k].index = i
    <3>1. i \in Filled(store_q) \/ (p.req[1] = "STR" /\ i = tail)
      BY <1>9, <2>1
    <3>2. ASSUME i \in Filled(store_q) PROVE \E k \in Own(r1, "STR") : r1[k].index = i
      <4>1. PICK k \in Own(rob, "STR") : rob[k].index = i
        BY <1>10, <3>2
      <4>2. k \in DOMAIN r1 /\ r1[k] = rob[k]
        <5>1. CASE p.req[1] = "NOP"
          BY <1>3, <5>1 DEF Own
        <5>2. CASE p.req[1] # "NOP"
          <6>1. Grown(rob, n, r1, x1) /\ k \in DOMAIN rob
            BY <1>3, <5>2 DEF n, Own
          <6> QED BY <1>4, <6>1 DEF Grown
        <5> QED BY <5>1, <5>2
      <4> QED BY <4>1, <4>2 DEF Own
    <3>3. ASSUME p.req[1] = "STR", i = tail PROVE \E k \in Own(r1, "STR") : r1[k].index = i
      <4>1. Grown(rob, n, r1, x1) /\ n + 1 \in DOMAIN r1 /\ r1[n + 1] = x1
        BY <1>3, <1>4, <3>3 DEF n, Grown
      <4> QED BY <1>8, <3>3, <4>1 DEF Own
    <3> QED BY <1>6, <1>10, <3>1, <3>2, <3>3 DEF tail
  <2> HIDE DEF mask
  <2>2. Behind(mask, t1)
    BY <1>4, <1>7, <1>12, <1>14, <2>1, NearBehind
  <2> QED BY <2>2 DEF mask
<1>16. StoresNear(s, Len(s), t2) /\ MasksBehind(s, Len(s), lq, t2)
  <2>1. CASE p.req[2] = "NOP"
    BY <1>3, <1>14, <2>1, Zenon DEF t2, m
  <2>2. CASE p.req[2] # "NOP"
    <3>1. Grown(r1, m, s, x2) /\ Len(s) = m + 1 /\ TailPast(x2, t1) = t2
      BY <1>3, <1>8, <2>2 DEF m, TailPast, t2
    <3>2. x2.mem_type = "LD" => Behind(lq[x2.index].store_mask, t1)
      BY <1>8, <1>15
    <3>3. t1 \in MemQ /\ (x2.mem_type = "STR" => x2.index = t1)
      BY <1>7, <1>8
    <3>4. StoresNear(s, m + 1, t2)
      BY <1>4, <1>14, <3>1, <3>3, NearEnters
    <3>5. MasksBehind(s, m + 1, lq, t2)
      BY <1>4, <1>14, <3>1, <3>2, <3>3, BehindEnters
    <3> QED BY <3>1, <3>4, <3>5
  <2> QED BY <2>1, <2>2, Zenon
<1> QED BY <1>7, <1>16 DEF Masks, s, lq

(* Every other step leaves the instructions that stay as they were         *)
(* dispatched.                                                             *)
LEMMA MasksStay ==
  ASSUME MaskInv, RobType', DOMAIN rob' = DOMAIN rob,
         \A k \in DOMAIN rob : rob'[k].mem_type = rob[k].mem_type /\ rob'[k].index = rob[k].index,
         \A i \in MemQ : load_q'[i].store_mask = load_q[i].store_mask,
         UNCHANGED rg_store_q_tail
  PROVE  Masks'
<1> DEFINE r == rob  s == rob'  n == Len(rob)  lq == load_q  mq == load_q'  tail == rg_store_q_tail
<1>1. /\ DOMAIN r = 1 .. n /\ n \in Nat /\ DOMAIN s = 1 .. n
      /\ \A k \in 1 .. n : s[k].mem_type = r[k].mem_type /\ s[k].index = r[k].index
                           /\ r[k].index \in MemQ
      /\ StoresNear(r, n, tail) /\ MasksBehind(r, n, lq, tail)
  <2>1. DOMAIN rob = 1 .. Len(rob) /\ Len(rob) \in 0 .. ENTRY_ROB_SIZE
        /\ \A k \in DOMAIN rob : rob[k].index \in MemQ
    BY RobDomain DEF MaskInv, LoadInv, StoreInv, LSInv
  <2> QED BY <2>1, SizeAssumption DEF MaskInv, Masks
<1>2. \A i \in MemQ : mq[i].store_mask = lq[i].store_mask
  OBVIOUS
<1>3. Len(rob') = n /\ rg_store_q_tail' = tail
  <2>1. Len(s) \in Nat /\ DOMAIN s = 1 .. Len(s)
    BY RobPlaces DEF RobType
  <2> HIDE DEF s, n
  <2>2. Len(s) = n
    BY <1>1, <2>1
  <2> QED BY <2>2 DEF s
<1> HIDE DEF r, s, n, lq, mq, tail
<1>4. Leaving(r, n, s, n, 0)
  BY <1>1 DEF Leaving
<1>5. SameMasks(s, lq, mq)
  BY <1>1, <1>2 DEF Own, SameMasks
<1>6. StoresNear(s, n, tail)
  BY <1>1, <1>4, NearKept
<1>7. MasksBehind(s, n, mq, tail)
  BY <1>1, <1>4, <1>5, BehindKept
<1> QED BY <1>3, <1>6, <1>7 DEF Masks, s, mq

LEMMA MasksLeave ==
  ASSUME MaskInv, rob # <<>>, rob[1].stage = "done", rob' = Tail(rob),
         rg_erob_head' = IncTag(rg_erob_head),
         \A i \in MemQ : load_q'[i].store_mask = load_q[i].store_mask,
         UNCHANGED rg_store_q_tail
  PROVE  Masks'
<1> DEFINE r == rob  s == rob'  m == Len(rob) - 1  lq == load_q  mq == load_q'
           tail == rg_store_q_tail
<1>1. /\ m \in 0 .. ENTRY_ROB_SIZE - 1 /\ DOMAIN r = 1 .. m + 1 /\ DOMAIN s = 1 .. m
      /\ \A k \in 1 .. m : s[k] = r[k + 1]
      /\ RobType'
  BY LeaveRob DEF MaskInv, LoadInv, StoreInv
<1>2. /\ \A k \in DOMAIN r : r[k].index \in MemQ
      /\ Len(rob) = m + 1
      /\ StoresNear(r, Len(rob), tail) /\ MasksBehind(r, Len(rob), lq, tail)
  <2>1. DOMAIN rob = 1 .. Len(rob) /\ Len(rob) \in 0 .. ENTRY_ROB_SIZE
        /\ \A k \in DOMAIN rob : rob[k].index \in MemQ
    BY RobDomain DEF MaskInv, LoadInv, StoreInv, LSInv
  <2> QED BY <2>1, SizeAssumption DEF MaskInv, Masks
<1>3. Len(rob') = m
  <2>1. Len(s) \in Nat /\ DOMAIN s = 1 .. Len(s)
    BY <1>1, RobPlaces DEF RobType
  <2> HIDE DEF s, m
  <2>2. Len(s) = m
    BY <1>1, <2>1, SizeAssumption
  <2> QED BY <2>2 DEF s
<1>4. \A i \in MemQ : mq[i].store_mask = lq[i].store_mask
  OBVIOUS
<1>5. rg_store_q_tail' = tail /\ m \in Nat
  BY <1>1, SizeAssumption
<1> HIDE DEF r, s, m, lq, mq, tail
<1>6. Leaving(r, m + 1, s, m, 1)
  BY <1>1, <1>5 DEF Leaving
<1>7. SameMasks(s, lq, mq)
  <2> SUFFICES ASSUME NEW k \in Own(s, "LD")
               PROVE  mq[s[k].index].store_mask = lq[s[k].index].store_mask
    BY DEF SameMasks
  <2>1. k \in 1 .. m /\ k + 1 \in 1 .. m + 1
    BY <1>1, <1>5 DEF Own
  <2>2. s[k].index \in MemQ
    BY <1>1, <1>2, <2>1
  <2> QED BY <1>4, <2>2
<1>8. StoresNear(r, m + 1, tail) /\ MasksBehind(r, m + 1, lq, tail)
  BY <1>2
<1>9. StoresNear(s, m, tail)
  BY <1>6, <1>8, NearKept
<1>10. MasksBehind(s, m, mq, tail)
  BY <1>6, <1>7, <1>8, BehindKept
<1> QED BY <1>3, <1>5, <1>9, <1>10 DEF Masks, s, mq

(* A slot cannot be in the mask of a load and be that of a younger store:  *)
(* the two ways round the queue would be shorter than the queue.           *)
LEMMA DistanceRound ==
  ASSUME NEW i \in MemQ, NEW s \in MemQ, i # s
  PROVE  Distance(i, s) + Distance(s, i) = MEMQ_SIZE
<1>1. Distance(i, s) = IF s >= i THEN s - i ELSE s - i + MEMQ_SIZE
  BY DistanceValue
<1>2. Distance(s, i) = IF i >= s THEN i - s ELSE i - s + MEMQ_SIZE
  BY DistanceValue
<1> QED BY <1>1, <1>2, SizeAssumption DEF MemQ

LEMMA MasksAreFresh ==
  ASSUME Roomy, MaskInv
  PROVE  MasksFresh
<1> SUFFICES ASSUME NEW i \in DOMAIN ff_load, NEW j \in DOMAIN rob, NEW k \in DOMAIN rob,
                    ff_load[i].tag = TagAt(j), j < k, rob[k].mem_type = "STR",
                    rob[k].index \in ff_load[i].store_mask
             PROVE  FALSE
  BY DEF MasksFresh
<1> DEFINE h == rg_erob_head  n == Len(rob)  x == rob[k].index  tail == rg_store_q_tail
           mask == load_q[rob[j].index].store_mask
<1>1. /\ LSInv /\ LookTrue(rob, h, load_q, ff_load) /\ MasksBehind(rob, n, load_q, tail)
  BY DEF MaskInv, LoadInv, StoreInv, LoadsOK, Masks
<1>2. ff_load[i].tag = At(h, j)
  BY DEF TagAt, At
<1>3. rob[j].mem_type = "LD"
  <2>1. Awaited(rob, h, At(h, j), ff_load[i].loc)
    BY <1>1, <1>2 DEF LSInv, Answers, Awaiting
  <2> QED BY <1>1, <2>1, OwnerOf
<1>4. j \in Own(rob, "LD") /\ k \in Own(rob, "STR")
  BY <1>3 DEF Own
<1>5. ff_load[i].store_mask = mask
  BY <1>1, <1>2, <1>4 DEF LookTrue
<1>6. PICK s \in MemQ : Behind(mask, s) /\ DispatchedAt(rob, n, tail, j, s)
  BY <1>1, <1>4 DEF MasksBehind
<1>7. x \in MemQ /\ Distance(x, s) \in 1 .. ENTRY_ROB_SIZE - 1
  BY <1>5, <1>6 DEF Behind
<1>8. Distance(s, x) < k - j
  BY <1>4, <1>6 DEF DispatchedAt
<1>9. j \in 1 .. ENTRY_ROB_SIZE /\ k \in 1 .. ENTRY_ROB_SIZE
  BY <1>1, RobDomain, SizeAssumption DEF LSInv
<1> HIDE DEF x
<1>10. s # x
  BY <1>7, DistanceHead, SizeAssumption
<1>11. Distance(x, s) + Distance(s, x) = MEMQ_SIZE /\ Distance(s, x) \in Int
  BY <1>7, <1>10, DistanceRound, DistanceType
<1> QED BY <1>7, <1>8, <1>9, <1>11, SizeAssumption DEF Roomy

LEMMA MasksIssue ==
  ASSUME MaskInv, RobType', NEW o \in DOMAIN rob, NEW l \in Loc,
         IssueLoad(o, l) \/ \E v \in Val : IssueStore(o, l, v)
  PROVE  Masks'
<1> DEFINE x == [rob[o] EXCEPT !.stage = "issued", !.loc = l]
           y(v) == [rob[o] EXCEPT !.stage = "issued", !.loc = l, !.data = Fill(l, v)]
           b == rob[o].index
           e == [load_q[b] EXCEPT !.valid = TRUE, !.loc = l]
<1>1. /\ b \in MemQ /\ load_q \in [MemQ -> LoadEntry]
      /\ x.mem_type = rob[o].mem_type /\ x.index = b
      /\ \A v : y(v).mem_type = rob[o].mem_type /\ y(v).index = b
  <2>1. LSInv
    BY DEF MaskInv, LoadInv, StoreInv
  <2>2. PICK D : rob \in Seq(Inst(D))
    BY <2>1 DEF LSInv, RobType
  <2>3. rob[o] \in Inst(D)
    BY <2>2
  <2> QED BY <2>1, <2>3 DEF Inst, LSInv, QueueType
<1>2. e.store_mask = load_q[b].store_mask
  BY <1>1 DEF LoadEntry
<1>3. CASE IssueLoad(o, l)
  <2>1. /\ rob' = [rob EXCEPT ![o] = x] /\ load_q' = [load_q EXCEPT ![b] = e]
        /\ UNCHANGED rg_store_q_tail
    BY <1>3 DEF IssueLoad
  <2> HIDE DEF x, e, b
  <2>2. \A i \in MemQ : load_q'[i].store_mask = load_q[i].store_mask
    BY <1>1, <1>2, <2>1
  <2>3. DOMAIN rob' = DOMAIN rob /\ \A k \in DOMAIN rob :
          rob'[k].mem_type = rob[k].mem_type /\ rob'[k].index = rob[k].index
    BY <1>1, <2>1 DEF b
  <2> QED BY <2>1, <2>2, <2>3, MasksStay
<1>4. CASE \E v \in Val : IssueStore(o, l, v)
  <2>1. PICK v \in Val : IssueStore(o, l, v)
    BY <1>4
  <2>2. rob' = [rob EXCEPT ![o] = y(v)] /\ load_q' = load_q /\ UNCHANGED rg_store_q_tail
    BY <2>1 DEF IssueStore
  <2> HIDE DEF y
  <2>3. DOMAIN rob' = DOMAIN rob /\ \A k \in DOMAIN rob :
          rob'[k].mem_type = rob[k].mem_type /\ rob'[k].index = rob[k].index
    BY <1>1, <2>2
  <2> QED BY <2>2, <2>3, MasksStay
<1> QED BY <1>3, <1>4

LEMMA MasksBroadcast ==
  ASSUME MaskInv, RobType', LoadBroadcast \/ StoreBroadcast
  PROVE  Masks'
<1> DEFINE x(k) == [rob[k] EXCEPT !.stage = "done", !.data = Head(ff_load_result).data]
           y(k) == [rob[k] EXCEPT !.stage = "done"]
<1>1. \A k \in DOMAIN rob : /\ x(k).mem_type = rob[k].mem_type /\ x(k).index = rob[k].index
                            /\ y(k).mem_type = rob[k].mem_type /\ y(k).index = rob[k].index
  <2>1. PICK D : rob \in Seq(Inst(D))
    BY DEF MaskInv, LoadInv, StoreInv, LSInv, RobType
  <2>2. \A k \in DOMAIN rob : rob[k] \in Inst(D)
    BY <2>1
  <2> QED BY <2>2 DEF Inst
<1>2. /\ DOMAIN rob' = DOMAIN rob /\ load_q' = load_q /\ UNCHANGED rg_store_q_tail
      /\ \A k \in DOMAIN rob : rob'[k] = rob[k] \/ rob'[k] = x(k) \/ rob'[k] = y(k)
  BY DEF LoadBroadcast, StoreBroadcast, ls_queues
<1> HIDE DEF x, y
<1>3. \A k \in DOMAIN rob : rob'[k].mem_type = rob[k].mem_type /\ rob'[k].index = rob[k].index
  BY <1>1, <1>2
<1> QED BY <1>2, <1>3, MasksStay

LEMMA MasksForward ==
  ASSUME MaskInv, RobType', Forward
  PROVE  Masks'
<1>1. PICK x \in LoadReq : ff_load = <<x>>
  BY DEF MaskInv, LoadInv, StoreInv, LSInv, FifoType, Forward
<1> DEFINE i == x.index  e == [load_q[i] EXCEPT !.forwarded = TRUE]
<1>2. Head(ff_load) = x /\ i \in MemQ /\ load_q \in [MemQ -> LoadEntry]
  BY <1>1 DEF LoadReq, MaskInv, LoadInv, StoreInv, LSInv, QueueType
<1>3. load_q' = [load_q EXCEPT ![i] = e] /\ UNCHANGED <<rob, rg_store_q_tail>>
  BY <1>2 DEF Forward
<1>4. e.store_mask = load_q[i].store_mask
  BY <1>2 DEF LoadEntry
<1> HIDE DEF i, e
<1>5. \A j \in MemQ : load_q'[j].store_mask = load_q[j].store_mask
  BY <1>2, <1>3, <1>4
<1> QED BY <1>3, <1>5, MasksStay

LEMMA MasksCommit ==
  ASSUME MaskInv, CommitStore \/ CommitLoad
  PROVE  Masks'
<1>1. rob # <<>> /\ rob[1].stage = "done" /\ rob' = Tail(rob)
      /\ rg_erob_head' = IncTag(rg_erob_head) /\ UNCHANGED rg_store_q_tail
  BY DEF CommitStore, CommitLoad, AtHead
<1>2. load_q \in [MemQ -> LoadEntry] /\ rg_load_q_head \in MemQ
  BY DEF MaskInv, LoadInv, StoreInv, LSInv, QueueType, Queues, QueueOK
<1>3. \A i \in MemQ : load_q'[i].store_mask = load_q[i].store_mask
  <2>1. CASE CommitStore
    <3> DEFINE e == store_q[rg_store_q_head]
    <3>1. load_q' = [i \in MemQ |-> Alias(load_q[i], e)]
      BY <2>1 DEF CommitStore
    <3> HIDE DEF e
    <3>2. \A i \in MemQ : Alias(load_q[i], e).store_mask = load_q[i].store_mask
      BY <1>2, AliasFacts
    <3> QED BY <3>1, <3>2
  <2>2. CASE CommitLoad
    <3> DEFINE hd == rg_load_q_head  e == [load_q[hd] EXCEPT !.filled = FALSE]
    <3>1. load_q' = [load_q EXCEPT ![hd] = e]
      BY <2>2 DEF CommitLoad
    <3>2. e.store_mask = load_q[hd].store_mask
      BY <1>2 DEF LoadEntry
    <3> HIDE DEF hd, e
    <3> QED BY <1>2, <3>1, <3>2 DEF hd
  <2> QED BY <2>1, <2>2
<1> QED BY <1>1, <1>3, MasksLeave

LEMMA MasksInductive ==
  ASSUME Roomy, MaskInv, [Next]_vars
  PROVE  MaskInv'
<1>1. LoadInv'
  BY MasksAreFresh, LoadsInductive DEF MaskInv
<1>2. LSInv' /\ RobType'
  BY <1>1 DEF LoadInv, StoreInv, LSInv
<1> SUFFICES Masks'
  BY <1>1 DEF MaskInv
<1>3. ASSUME NEW p \in Packets, Allot(p) PROVE Masks'
  BY <1>2, <1>3, MasksAllot
<1>4. ASSUME NEW k \in DOMAIN rob, NEW l \in Loc, IssueLoad(k, l) \/ \E v \in Val : IssueStore(k, l, v)
      PROVE  Masks'
  BY <1>2, <1>4, MasksIssue
<1>5. CASE Forward
  BY <1>2, <1>5, MasksForward
<1>6. CASE LoadBroadcast \/ StoreBroadcast
  BY <1>2, <1>6, MasksBroadcast
<1>7. CASE CommitStore \/ CommitLoad
  BY <1>7, MasksCommit
<1>8. CASE ReplayLoad \/ Flush
  <2>1. rob' = <<>>
    BY <1>8 DEF ReplayLoad, Flush, Clear
  <2> QED BY <2>1 DEF Masks, StoresNear, MasksBehind, Own
<1>9. CASE AccessMemory \/ DcacheAccept \/ DcacheWrite \/ GetLoadResult \/ UNCHANGED vars
  <2>1. UNCHANGED <<rob, load_q, rg_store_q_tail>>
    BY <1>9 DEF AccessMemory, DcacheAccept, DcacheWrite, GetLoadResult, vars, ls_queues
  <2> QED BY <2>1 DEF MaskInv, Masks
<1> QED BY <1>3, <1>4, <1>5, <1>6, <1>7, <1>8, <1>9 DEF Next

LEMMA MasksInit ==
  ASSUME Init
  PROVE  MaskInv
<1>1. LoadInv
  BY LoadsInit
<1>2. rob = <<>>
  BY DEF Init
<1> QED BY <1>1, <1>2 DEF MaskInv, Masks, StoresNear, MasksBehind, Own

(* And so they all do where a queue is twice as long as the ROB, less two: *)
(* the slot of an older store is not given to a younger one as long as     *)
(* both can be in flight together with the load.                           *)
THEOREM LoadCorrectHolds == ASSUME Roomy PROVE Spec => []LoadCorrect
<1>1. Init => MaskInv
  BY MasksInit
<1>2. MaskInv /\ [Next]_vars => MaskInv'
  BY MasksInductive
<1>3. MaskInv => LoadCorrect
  BY LoadsCorrect DEF MaskInv
<1> QED BY <1>1, <1>2, <1>3, PTL DEF Spec
=============================================================================
