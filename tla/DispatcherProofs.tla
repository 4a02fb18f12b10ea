-------------------------- MODULE DispatcherProofs --------------------------
(***************************************************************************)
(* Proofs about the sensor table on its own and about the dispatcher over  *)
(* the five backends, for every number of slots, ids, pins, timers,        *)
(* channels and peripherals and every set of requests.                     *)
(*                                                                         *)
(* First the table: unique ids (TableOK) and the round robin (GapInv).     *)
(* Then each part in turn, with what its calls may do to the others: I2C,  *)
(* SPI and DAC, the timer pool, digital outputs, PWM, the heap, the pins.  *)
(* DispInv puts them together; the theorems about commands follow from it. *)
(* FreeInv adds what holds when the host asks for pins no sensor uses.     *)
(***************************************************************************)
EXTENDS SensorTable, Dispatcher, SequenceTheorems, FiniteSetTheorems, TLAPS

\* The table is well typed and no two slots share a live id: a release clears
\* the right slot only while ids are unique.
TableOK ==
    /\ slots \in [SlotIndex -> Slot] /\ next_id_hint \in SensorId
    /\ UniqueIds

\* Stepping the round-robin hint stays inside the id range, whatever the
\* number of steps (the wrap 0xFF -> 0x01 in allocate_id).
LEMMA IdAfterInRange ==
    ASSUME NEW h \in SensorId, NEW k \in Nat
    PROVE  IdAfter(h, k) \in SensorId
<1> DEFINE m == h - 1 + k
<1>1. m \in Nat
  BY DEF SensorId, PROTO_SENSOR_ID_MIN
<1>2. PROTO_SENSOR_ID_MAX \in Nat /\ PROTO_SENSOR_ID_MAX > 0
  BY SensorManagerAssumption
<1>3. m % PROTO_SENSOR_ID_MAX \in 0 .. (PROTO_SENSOR_ID_MAX - 1)
  <2> HIDE DEF m
  <2> QED BY <1>1, <1>2
<1> QED
  BY <1>3, <1>2 DEF IdAfter, SensorId, PROTO_SENSOR_ID_MIN

\* What an allocation returns: NONE, or an id no slot carries.
LEMMA AllocateFresh ==
    ASSUME TableOK, NEW id, allocate_id(id)
    PROVE  \/ id = PROTO_SENSOR_ID_NONE /\ next_id_hint' = next_id_hint
           \/ id \in SensorId /\ ~id_in_use(id) /\ next_id_hint' \in SensorId
<1>1. CASE \E k \in 0 .. (PROTO_SENSOR_ID_MAX - 1) :
             /\ ~id_in_use(IdAfter(next_id_hint, k))
             /\ id = IdAfter(next_id_hint, k)
             /\ next_id_hint' = IdAfter(next_id_hint, k + 1)
  <2>1. PICK k \in 0 .. (PROTO_SENSOR_ID_MAX - 1) :
             /\ ~id_in_use(IdAfter(next_id_hint, k))
             /\ id = IdAfter(next_id_hint, k)
             /\ next_id_hint' = IdAfter(next_id_hint, k + 1)
    BY <1>1
  <2>2. k \in Nat /\ k + 1 \in Nat /\ next_id_hint \in SensorId
    BY SensorManagerAssumption DEF TableOK
  <2>3. IdAfter(next_id_hint, k) \in SensorId /\ IdAfter(next_id_hint, k + 1) \in SensorId
    BY <2>2, IdAfterInRange
  <2> QED BY <2>1, <2>3
<1>2. CASE id = PROTO_SENSOR_ID_NONE /\ UNCHANGED next_id_hint
  BY <1>2
<1> QED BY <1>1, <1>2 DEF allocate_id

SlotFor(id, p, n) == [id |-> id, protocol_id |-> p, internal_id |-> n]

\* A registration leaves the table alone or fills one free slot with an id
\* that was nowhere in it.
LEMMA RegisterShape ==
    ASSUME TableOK, NEW p, NEW n, NEW id, sensor_manager_register(p, n, id)
    PROVE  \/ id = PROTO_SENSOR_ID_NONE /\ UNCHANGED managerVars
           \/ \E i \in SlotIndex :
                /\ SlotFree(i)
                /\ id \in SensorId /\ ~id_in_use(id) /\ next_id_hint' \in SensorId
                /\ slots' = [slots EXCEPT ![i] = SlotFor(id, p, n)]
<1>1. ASSUME NEW i \in SlotIndex, SlotFree(i), allocate_id(id),
             slots' = IF id = PROTO_SENSOR_ID_NONE THEN slots
                      ELSE [slots EXCEPT ![i] = SlotFor(id, p, n)]
      PROVE  \/ id = PROTO_SENSOR_ID_NONE /\ UNCHANGED managerVars
             \/ /\ id \in SensorId /\ ~id_in_use(id) /\ next_id_hint' \in SensorId
                /\ slots' = [slots EXCEPT ![i] = SlotFor(id, p, n)]
  <2>1. PROTO_SENSOR_ID_NONE \notin SensorId
    BY DEF PROTO_SENSOR_ID_NONE, SensorId, PROTO_SENSOR_ID_MIN
  <2> QED BY <1>1, <2>1, AllocateFresh DEF managerVars
<1> QED BY <1>1 DEF sensor_manager_register, SlotFor

\* A registration without an id changes nothing.
LEMMA RegisterFails ==
    ASSUME TableOK, NEW p, NEW n, sensor_manager_register(p, n, PROTO_SENSOR_ID_NONE)
    PROVE  UNCHANGED managerVars
<1>1. PROTO_SENSOR_ID_NONE \notin SensorId
  BY DEF PROTO_SENSOR_ID_NONE, SensorId, PROTO_SENSOR_ID_MIN
<1> QED BY <1>1, RegisterShape

\* A live slot, and the slot a lookup returns for its id.
LEMMA LookupFinds ==
    ASSUME TableOK, NEW id, sensor_manager_lookup(id) # -1
    PROVE  /\ sensor_manager_lookup(id) \in LiveSlots
           /\ slots[sensor_manager_lookup(id)].id = id
<1>1. id # PROTO_SENSOR_ID_NONE /\ id_in_use(id)
  BY DEF sensor_manager_lookup
<1> DEFINE P(i) == /\ slots[i].id = id
                   /\ \A j \in 0 .. (i - 1) : slots[j].id # id
<1>2. PICK i \in SlotIndex : slots[i].id = id
  BY <1>1 DEF id_in_use
<1>3. ASSUME NEW j \in 0 .. (i - 1) PROVE slots[j].id # id
  <2>1. j \in SlotIndex /\ j # i
    BY SensorManagerAssumption DEF SlotIndex
  <2> QED BY <2>1, <1>1, <1>2 DEF TableOK, UniqueIds
<1>4. \E x \in SlotIndex : P(x)
  BY <1>2, <1>3
<1>5. sensor_manager_lookup(id) = CHOOSE x \in SlotIndex : P(x)
  BY <1>1 DEF sensor_manager_lookup
<1>6. sensor_manager_lookup(id) \in SlotIndex /\ slots[sensor_manager_lookup(id)].id = id
  BY <1>4, <1>5
<1> QED BY <1>1, <1>6 DEF LiveSlots, SlotFree

\* A release leaves the table alone or clears the slot of the id.
LEMMA ReleaseShape ==
    ASSUME TableOK, NEW id, sensor_manager_release(id)
    PROVE  /\ next_id_hint' = next_id_hint
           /\ \/ slots' = slots
              \/ /\ sensor_manager_lookup(id) \in SlotIndex
                 /\ slots' = [slots EXCEPT ![sensor_manager_lookup(id)] = FreeSlot]
<1>1. CASE sensor_manager_lookup(id) = -1
  BY <1>1 DEF sensor_manager_release
<1>2. CASE sensor_manager_lookup(id) # -1
  BY <1>2, LookupFinds DEF sensor_manager_release, LiveSlots
<1> QED BY <1>1, <1>2

\* sensor_manager_register keeps ids unique: the one it issues is new.
LEMMA RegisterKeepsTable ==
    ASSUME TableOK, NEW p \in ProtocolIds, NEW n \in InternalIds, NEW id, sensor_manager_register(p, n, id)
    PROVE  TableOK'
<1>1. CASE UNCHANGED managerVars
  BY <1>1 DEF managerVars, TableOK, UniqueIds
<1>2. ASSUME NEW i \in SlotIndex, id \in SensorId, ~id_in_use(id), next_id_hint' \in SensorId,
             slots' = [slots EXCEPT ![i] = SlotFor(id, p, n)]
      PROVE  TableOK'
  <2>1. SlotFor(id, p, n) \in Slot /\ SlotFor(id, p, n).id = id
    BY <1>2 DEF Slot, SlotFor
  <2> QED BY <1>2, <2>1 DEF TableOK, UniqueIds, id_in_use
<1> QED BY <1>1, <1>2, RegisterShape

\* sensor_manager_release keeps ids unique: it clears at most one slot.
LEMMA ReleaseKeepsTable ==
    ASSUME TableOK, NEW id, sensor_manager_release(id)
    PROVE  TableOK'
<1>1. FreeSlot \in Slot /\ FreeSlot.id = PROTO_SENSOR_ID_NONE
  BY DEF FreeSlot, Slot
<1>2. ASSUME NEW i \in SlotIndex, slots' = [slots EXCEPT ![i] = FreeSlot], next_id_hint' = next_id_hint
      PROVE  TableOK'
  <2> QED BY <1>1, <1>2 DEF TableOK, UniqueIds
<1>3. CASE slots' = slots /\ next_id_hint' = next_id_hint
  BY <1>3 DEF TableOK, UniqueIds
<1> QED BY <1>2, <1>3, ReleaseShape

\* sensor_manager_init clears the table.
LEMMA InitTable == sensor_manager_init => TableOK
<1> SUFFICES ASSUME sensor_manager_init PROVE TableOK
  OBVIOUS
<1>1. PROTO_SENSOR_ID_MIN \in SensorId /\ FreeSlot \in Slot
  BY SensorManagerAssumption DEF SensorId, PROTO_SENSOR_ID_MIN, FreeSlot, Slot
<1> QED BY <1>1 DEF sensor_manager_init, TableOK, UniqueIds, FreeSlot

-----------------------------------------------------------------------------
(* The sensor table on its own                                              *)

TableInv == TableOK /\ age \in [SensorId -> 0 .. AgeBound]

LEMMA SpecTableInv == TableSpec => []TableInv
<1>1. TableInit => TableInv
  <2> SUFFICES ASSUME TableInit PROVE TableInv
    OBVIOUS
  <2>1. AgeBound \in 0 .. AgeBound
    BY SensorManagerAssumption DEF AgeBound
  <2> QED BY <2>1, InitTable DEF TableInit, TableInv
<1>2. TableInv /\ [TableNext]_tableVars => TableInv'
  <2> SUFFICES ASSUME TableInv, [TableNext]_tableVars PROVE TableInv'
    OBVIOUS
  <2>1. ASSUME NEW p \in ProtocolIds, NEW n \in InternalIds, Register(p, n) PROVE TableInv'
    <3>1. PICK id \in SensorId \cup {PROTO_SENSOR_ID_NONE} :
            /\ sensor_manager_register(p, n, id)
            /\ IF id = PROTO_SENSOR_ID_NONE
               THEN UNCHANGED age
               ELSE age' = [i \in SensorId |-> IF i = id THEN 0 ELSE Older(age[i])]
      BY <2>1 DEF Register
    <3>2. age' \in [SensorId -> 0 .. AgeBound]
      BY <3>1, SensorManagerAssumption DEF TableInv, Older, AgeBound
    <3> QED BY <3>1, <3>2, RegisterKeepsTable DEF TableInv
  <2>2. ASSUME NEW id, Release(id) PROVE TableInv'
    BY <2>2, ReleaseKeepsTable DEF Release, TableInv
  <2>3. CASE UNCHANGED tableVars
    BY <2>3 DEF tableVars, TableInv, TableOK, UniqueIds
  <2> QED BY <2>1, <2>2, <2>3 DEF TableNext
<1> QED BY <1>1, <1>2, PTL DEF TableSpec

\* The table is well typed for every number of slots and ids.
THEOREM TableTypeCorrect == TableSpec => []TableTypeOK
<1>1. TableInv => TableTypeOK
  BY DEF TableInv, TableOK, TableTypeOK
<1> QED BY SpecTableInv, <1>1, PTL

\* No two sensors ever share a live id, for every number of slots and ids:
\* the id a host holds names one sensor (sensor_manager_register/_release).
THEOREM TableUniqueIds == TableSpec => []UniqueIds
<1>1. TableInv => UniqueIds
  BY DEF TableInv, TableOK
<1> QED BY SpecTableInv, <1>1, PTL

-----------------------------------------------------------------------------
(* The round robin of allocate_id                                           *)

\* How many tries after the hint h the turn of id x comes.
Turn(h, x) == IF x >= h THEN x - h ELSE x - h + PROTO_SENSOR_ID_MAX

\* The ids of L whose turn comes before that of x.
Before(h, x, L) == {y \in L : Turn(h, y) < Turn(h, x)}

\* The ids whose turn is one of a, ..., b - 1.
Turns(h, a, b) == {x \in SensorId : a <= Turn(h, x) /\ Turn(h, x) < b}

\* Stepping k times from h, with the wrap written out.
LEMMA IdAfterWraps ==
    ASSUME NEW h \in SensorId, NEW k \in 0 .. PROTO_SENSOR_ID_MAX
    PROVE  IdAfter(h, k) = IF h + k <= PROTO_SENSOR_ID_MAX THEN h + k ELSE h + k - PROTO_SENSOR_ID_MAX
<1>1. PICK M \in Nat : M = PROTO_SENSOR_ID_MAX /\ M > 0
  BY SensorManagerAssumption
<1>2. h \in 1 .. M /\ k \in 0 .. M
  BY <1>1 DEF SensorId, PROTO_SENSOR_ID_MIN
<1>3. IdAfter(h, k) = ((h - 1 + k) % M) + 1
  BY <1>1 DEF IdAfter, PROTO_SENSOR_ID_MIN
<1>4. CASE h + k <= M
  <2>1. h - 1 + k \in 0 .. (M - 1)
    BY <1>1, <1>2, <1>4
  <2>2. (h - 1 + k) % M = h - 1 + k
    BY <1>1, <2>1
  <2> QED BY <1>1, <1>2, <1>3, <1>4, <2>2
<1>5. CASE ~(h + k <= M)
  <2>1. PICK m \in 0 .. (M - 1) : m = h - 1 + k - M
    BY <1>1, <1>2, <1>5
  <2>2. (m + M) % M = m
    BY <1>1, <2>1
  <2>3. h - 1 + k = m + M
    BY <1>1, <1>2, <2>1
  <2> QED BY <1>1, <1>2, <1>3, <1>5, <2>1, <2>2, <2>3
<1> QED BY <1>1, <1>4, <1>5

\* The k-th try has turn k, and every id has its turn.
LEMMA TurnOfTry ==
    ASSUME NEW h \in SensorId
    PROVE  /\ \A k \in 0 .. (PROTO_SENSOR_ID_MAX - 1) :
                 IdAfter(h, k) \in SensorId /\ Turn(h, IdAfter(h, k)) = k
           /\ \A x \in SensorId :
                 Turn(h, x) \in 0 .. (PROTO_SENSOR_ID_MAX - 1) /\ x = IdAfter(h, Turn(h, x))
<1>1. PROTO_SENSOR_ID_MAX \in Nat /\ PROTO_SENSOR_ID_MAX > 0
  BY SensorManagerAssumption
<1>2. ASSUME NEW k \in 0 .. (PROTO_SENSOR_ID_MAX - 1)
      PROVE  IdAfter(h, k) \in SensorId /\ Turn(h, IdAfter(h, k)) = k
  <2>1. PICK x : x = IdAfter(h, k) /\ x = IF h + k <= PROTO_SENSOR_ID_MAX THEN h + k ELSE h + k - PROTO_SENSOR_ID_MAX
    BY <1>1, IdAfterWraps
  <2>2. x \in SensorId /\ Turn(h, x) = k
    BY <1>1, <2>1 DEF Turn, SensorId, PROTO_SENSOR_ID_MIN
  <2> QED BY <2>1, <2>2
<1>3. ASSUME NEW x \in SensorId
      PROVE  Turn(h, x) \in 0 .. (PROTO_SENSOR_ID_MAX - 1) /\ x = IdAfter(h, Turn(h, x))
  <2>1. PICK k \in 0 .. (PROTO_SENSOR_ID_MAX - 1) : k = Turn(h, x)
    <3>1. h \in Int /\ x \in Int /\ 1 <= h /\ h <= PROTO_SENSOR_ID_MAX /\ 1 <= x /\ x <= PROTO_SENSOR_ID_MAX
      BY <1>1 DEF SensorId, PROTO_SENSOR_ID_MIN
    <3>2. Turn(h, x) \in 0 .. (PROTO_SENSOR_ID_MAX - 1)
      BY <1>1, <3>1 DEF Turn
    <3> QED BY <3>2
  <2>2. x = IF h + k <= PROTO_SENSOR_ID_MAX THEN h + k ELSE h + k - PROTO_SENSOR_ID_MAX
    BY <1>1, <2>1 DEF Turn, SensorId, PROTO_SENSOR_ID_MIN
  <2> QED BY <1>1, <2>1, <2>2, IdAfterWraps
<1> QED BY <1>2, <1>3

\* A window of b - a turns holds b - a ids.
LEMMA TurnsCount ==
    ASSUME NEW h \in SensorId, NEW a \in Nat, NEW b \in Nat, a <= b, b <= PROTO_SENSOR_ID_MAX
    PROVE  IsFiniteSet(Turns(h, a, b)) /\ Cardinality(Turns(h, a, b)) = b - a
<1>1. PROTO_SENSOR_ID_MAX \in Nat /\ PROTO_SENSOR_ID_MAX > 0
  BY SensorManagerAssumption
<1> DEFINE D == a .. (b - 1)
           f == [k \in D |-> IdAfter(h, k)]
<1>2. D \subseteq 0 .. (PROTO_SENSOR_ID_MAX - 1)
  BY <1>1
<1>3. IsFiniteSet(D) /\ Cardinality(D) = b - a
  <2>1. a \in Int /\ b - 1 \in Int
    OBVIOUS
  <2>2. IsFiniteSet(D) /\ Cardinality(D) = IF a > b - 1 THEN 0 ELSE b - 1 - a + 1
    BY <2>1, FS_Interval
  <2> QED BY <2>2
<1>4. ASSUME NEW k \in D PROVE f[k] \in Turns(h, a, b) /\ Turn(h, f[k]) = k
  <2>1. IdAfter(h, k) \in SensorId /\ Turn(h, IdAfter(h, k)) = k
    BY <1>2, <1>4, TurnOfTry
  <2> QED BY <2>1 DEF Turns
<1>5. ASSUME NEW x \in Turns(h, a, b) PROVE \E k \in D : f[k] = x
  <2>1. x \in SensorId /\ Turn(h, x) \in 0 .. (PROTO_SENSOR_ID_MAX - 1) /\ x = IdAfter(h, Turn(h, x))
    BY <1>5, TurnOfTry DEF Turns
  <2>2. Turn(h, x) \in D
    BY <1>5, <2>1 DEF Turns
  <2> QED BY <2>1, <2>2
<1>6. f \in Bijection(D, Turns(h, a, b))
  <2>1. f \in [D -> Turns(h, a, b)]
    BY <1>4
  <2>2. \A k, l \in D : f[k] = f[l] => k = l
    BY <1>4
  <2> HIDE DEF f, D
  <2> QED BY <1>5, <2>1, <2>2 DEF Bijection, Injection, Surjection, IsInjective
<1>7. ExistsBijection(D, Turns(h, a, b))
  BY <1>6 DEF ExistsBijection
<1> QED BY <1>3, <1>7, FS_Bijection

LEMMA IdsFinite == IsFiniteSet(SensorId) /\ \A L \in SUBSET SensorId : IsFiniteSet(L) /\ Cardinality(L) \in Nat
<1>1. IsFiniteSet(SensorId)
  BY SensorManagerAssumption, FS_Interval DEF SensorId, PROTO_SENSOR_ID_MIN
<1> QED BY <1>1, FS_Subset, FS_CardinalityType

\* The ids a table f carries are no more than its slots.
IdsOf(f) == {x \in SensorId : \E i \in SlotIndex : f[i].id = x}

LEMMA IdsBounded ==
    ASSUME NEW f
    PROVE  IsFiniteSet(IdsOf(f)) /\ Cardinality(IdsOf(f)) \in Nat /\ Cardinality(IdsOf(f)) <= SENSOR_MAX_SLOTS
<1>1. IsFiniteSet(SlotIndex) /\ Cardinality(SlotIndex) = SENSOR_MAX_SLOTS
  <2>1. 0 \in Int /\ SENSOR_MAX_SLOTS - 1 \in Int /\ SENSOR_MAX_SLOTS > 0 /\ SENSOR_MAX_SLOTS \in Nat
    BY SensorManagerAssumption
  <2>2. IsFiniteSet(SlotIndex)
        /\ Cardinality(SlotIndex) = IF 0 > SENSOR_MAX_SLOTS - 1 THEN 0 ELSE SENSOR_MAX_SLOTS - 1 - 0 + 1
    BY <2>1, FS_Interval DEF SlotIndex
  <2> QED BY <2>1, <2>2
<1> DEFINE V == {f[i].id : i \in SlotIndex}
<1>2. IsFiniteSet(V) /\ Cardinality(V) <= Cardinality(SlotIndex)
  <2> DEFINE g == [i \in SlotIndex |-> f[i].id]
  <2>1. g \in Surjection(SlotIndex, V)
    BY DEF Surjection
  <2> QED BY <1>1, <2>1, FS_Surjection
<1>3. IdsOf(f) \in SUBSET V
  BY DEF IdsOf
<1> HIDE DEF V
<1>4. IsFiniteSet(IdsOf(f)) /\ Cardinality(IdsOf(f)) <= Cardinality(V)
  BY <1>2, <1>3, FS_Subset
<1>5. Cardinality(IdsOf(f)) \in Nat /\ Cardinality(V) \in Nat
  BY <1>2, <1>4, FS_CardinalityType
<1> QED BY <1>1, <1>2, <1>4, <1>5, SensorManagerAssumption

\* Two disjoint sets of ids inside a third.
LEMMA DisjointCount ==
    ASSUME NEW A, NEW B, NEW C, C \subseteq SensorId, A \subseteq C, B \subseteq C, A \cap B = {}
    PROVE  /\ Cardinality(A) \in Nat /\ Cardinality(B) \in Nat /\ Cardinality(C) \in Nat
           /\ Cardinality(A) + Cardinality(B) <= Cardinality(C)
           /\ C = A \cup B => Cardinality(C) = Cardinality(A) + Cardinality(B)
<1>1. IsFiniteSet(A) /\ IsFiniteSet(B) /\ IsFiniteSet(C)
  BY IdsFinite
<1>2. Cardinality(A) \in Nat /\ Cardinality(B) \in Nat /\ Cardinality(C) \in Nat
  BY <1>1, FS_CardinalityType
<1>3. Cardinality(A \cup B) = Cardinality(A) + Cardinality(B)
  <2>1. Cardinality(A \cup B) = Cardinality(A) + Cardinality(B) - Cardinality(A \cap B)
    BY <1>1, FS_Union
  <2>2. Cardinality(A \cap B) = 0
    BY FS_EmptySet
  <2> QED BY <1>2, <2>1, <2>2
<1>4. A \cup B \in SUBSET C
  OBVIOUS
<1>5. Cardinality(A \cup B) <= Cardinality(C)
  BY <1>1, <1>4, FS_Subset
<1> QED BY <1>2, <1>3, <1>5

\* The gap of an id: the ids handed out since, and those still to be handed out
\* before its turn comes round if no live one ahead of it goes away.
Gap(a, h, x, L) == a + Turn(h, x) - Cardinality(Before(h, x, L))
WideGap(a, h, x, L) == Gap(a, h, x, L) >= PROTO_SENSOR_ID_MAX - SENSOR_MAX_SLOTS

\* The turns after k tries from h.
LEMMA TurnAfter ==
    ASSUME NEW h \in SensorId, NEW k \in 0 .. (PROTO_SENSOR_ID_MAX - 1), NEW x \in SensorId
    PROVE  Turn(IdAfter(h, k + 1), x) =
             IF Turn(h, x) > k THEN Turn(h, x) - k - 1 ELSE Turn(h, x) - k - 1 + PROTO_SENSOR_ID_MAX
<1>1. PICK M \in Nat : M = PROTO_SENSOR_ID_MAX /\ M > 0
  BY SensorManagerAssumption
<1>2. h \in 1 .. M /\ x \in 1 .. M /\ k \in 0 .. (M - 1) /\ k + 1 \in 0 .. M
  BY <1>1 DEF SensorId, PROTO_SENSOR_ID_MIN
<1>3. PICK g : g = IdAfter(h, k + 1) /\ g = IF h + (k + 1) <= M THEN h + (k + 1) ELSE h + (k + 1) - M
  BY <1>1, <1>2, IdAfterWraps
<1>4. CASE h + (k + 1) <= M
  BY <1>1, <1>2, <1>3, <1>4 DEF Turn
<1>5. CASE ~(h + (k + 1) <= M)
  BY <1>1, <1>2, <1>3, <1>5 DEF Turn
<1> QED BY <1>4, <1>5

\* An allocation after k tries: j is handed out, the k ids before it were live.
Allocated(h, k, j, L) ==
    /\ j = IdAfter(h, k) /\ j \notin L
    /\ \A y \in SensorId : Turn(h, y) < k => y \in L
    /\ Cardinality(L \cup {j}) <= SENSOR_MAX_SLOTS

\* The id just handed out has its whole round ahead of it.
LEMMA GapOfNew ==
    ASSUME NEW h \in SensorId, NEW k \in 0 .. (PROTO_SENSOR_ID_MAX - 1), NEW L \in SUBSET SensorId, NEW j,
           Allocated(h, k, j, L)
    PROVE  WideGap(0, IdAfter(h, k + 1), j, L \cup {j})
<1>1. PICK M \in Nat, S \in Nat : M = PROTO_SENSOR_ID_MAX /\ S = SENSOR_MAX_SLOTS /\ M > S
  BY SensorManagerAssumption
<1>2. j \in SensorId /\ Turn(h, j) = k
  BY TurnOfTry DEF Allocated
<1>3. Turn(IdAfter(h, k + 1), j) = M - 1
  BY <1>1, <1>2, TurnAfter
<1> DEFINE B == Before(IdAfter(h, k + 1), j, L \cup {j})
<1>4. B \subseteq L \cup {j} /\ {j} \subseteq L \cup {j} /\ B \cap {j} = {} /\ L \cup {j} \subseteq SensorId
  <2>1. ~(Turn(IdAfter(h, k + 1), j) < Turn(IdAfter(h, k + 1), j))
    BY <1>1, <1>3
  <2> QED BY <1>2, <2>1 DEF Before
<1>5. Cardinality({j}) = 1
  BY FS_Singleton
<1> HIDE DEF B
<1>6. Cardinality(B) + 1 <= S /\ Cardinality(B) \in Nat
  <2>1. /\ Cardinality(B) \in Nat /\ Cardinality(L \cup {j}) \in Nat
        /\ Cardinality(B) + Cardinality({j}) <= Cardinality(L \cup {j})
    BY <1>4, DisjointCount
  <2> QED BY <1>1, <1>5, <2>1 DEF Allocated
<1>7. 0 + (M - 1) - Cardinality(B) >= M - S
  BY <1>1, <1>6
<1> QED BY <1>1, <1>3, <1>7 DEF WideGap, Gap, B

\* An id whose turn is still to come: the skipped ids leave, one was handed out.
LEMMA GapAhead ==
    ASSUME NEW h \in SensorId, NEW k \in 0 .. (PROTO_SENSOR_ID_MAX - 1), NEW L \in SUBSET SensorId, NEW j,
           Allocated(h, k, j, L), NEW x \in SensorId, Turn(h, x) > k,
           NEW a \in 0 .. AgeBound, WideGap(a, h, x, L)
    PROVE  WideGap(Older(a), IdAfter(h, k + 1), x, L \cup {j})
<1>1. PICK M \in Nat, S \in Nat : M = PROTO_SENSOR_ID_MAX /\ S = SENSOR_MAX_SLOTS /\ M > S
  BY SensorManagerAssumption
<1>2. j \in SensorId /\ Turn(h, j) = k
  BY TurnOfTry DEF Allocated
<1>3. \A y \in SensorId : Turn(h, y) \in 0 .. (M - 1)
  BY <1>1, TurnOfTry
<1>4. \A y \in SensorId :
         Turn(IdAfter(h, k + 1), y) = IF Turn(h, y) > k THEN Turn(h, y) - k - 1 ELSE Turn(h, y) - k - 1 + M
  BY <1>1, TurnAfter
<1> DEFINE B == Before(h, x, L)
           C == Before(IdAfter(h, k + 1), x, L \cup {j})
           W == Turns(h, 0, k)
<1>5. Cardinality(W) = k
  BY <1>1, TurnsCount
<1>6. C = {y \in L : Turn(h, y) > k /\ Turn(h, y) < Turn(h, x)}
  <2>1. ASSUME NEW y \in SensorId
        PROVE  Turn(IdAfter(h, k + 1), y) < Turn(IdAfter(h, k + 1), x) <=> Turn(h, y) > k /\ Turn(h, y) < Turn(h, x)
    <3>1. Turn(h, y) \in 0 .. (M - 1) /\ Turn(h, x) \in 0 .. (M - 1) /\ k \in 0 .. (M - 1)
      BY <1>1, <1>3
    <3> QED BY <1>4, <3>1
  <2>2. ~(Turn(h, j) > k)
    BY <1>2
  <2> QED BY <1>2, <2>1, <2>2 DEF Before
<1>7. W = {y \in L : Turn(h, y) < k}
  BY <1>3 DEF Turns, Allocated
<1>8. B = C \cup W /\ C \cap W = {} /\ B \subseteq SensorId
  <2>1. \A y \in L : Turn(h, y) \in Int /\ Turn(h, y) # k
    <3>1. \A y \in L : Turn(h, y) \in Int
      BY <1>3
    <3>2. \A y \in SensorId : Turn(h, y) = k => y = j
      BY <1>2, TurnOfTry DEF Allocated
    <3> QED BY <3>1, <3>2 DEF Allocated
  <2>2. Turn(h, x) \in Int /\ k \in Int
    BY <1>3
  <2>3. \A y \in L : Turn(h, y) < Turn(h, x) <=> \/ Turn(h, y) > k /\ Turn(h, y) < Turn(h, x)
                                                 \/ Turn(h, y) < k
    BY <2>1, <2>2
  <2>4. \A y \in L : ~(Turn(h, y) > k /\ Turn(h, y) < k)
    BY <2>1, <2>2
  <2> QED BY <1>6, <1>7, <2>3, <2>4 DEF Before
<1> HIDE DEF B, C, W
<1>9. Cardinality(B) = Cardinality(C) + k /\ Cardinality(B) \in Nat /\ Cardinality(C) \in Nat
  BY <1>5, <1>8, DisjointCount
<1>10. Cardinality(C) <= S
  <2>1. C \subseteq L \cup {j} /\ L \cup {j} \subseteq SensorId
    BY <1>2, <1>6
  <2>2. /\ Cardinality(C) \in Nat /\ Cardinality({}) \in Nat /\ Cardinality(L \cup {j}) \in Nat
        /\ Cardinality(C) + Cardinality({}) <= Cardinality(L \cup {j})
    BY <2>1, DisjointCount
  <2> QED BY <1>1, <2>2 DEF Allocated
<1>11. PICK u \in 0 .. (M - 1) : u = Turn(h, x) /\ u > k
  BY <1>3
<1>12. a + u - Cardinality(B) >= M - S
  BY <1>1, <1>11 DEF WideGap, Gap, B
<1>13. Older(a) + (u - k - 1) - Cardinality(C) >= M - S
  <2>1. CASE a < M
    BY <1>1, <1>9, <1>11, <1>12, <2>1 DEF Older, AgeBound
  <2>2. CASE ~(a < M)
    BY <1>1, <1>9, <1>10, <1>11, <2>2 DEF Older, AgeBound
  <2> QED BY <2>1, <2>2
<1>14. Turn(IdAfter(h, k + 1), x) = u - k - 1
  BY <1>4, <1>11
<1> QED BY <1>1, <1>13, <1>14 DEF WideGap, Gap, C

\* An id that was skipped: it is live, and so are those between it and j.
LEMMA GapSkipped ==
    ASSUME NEW h \in SensorId, NEW k \in 0 .. (PROTO_SENSOR_ID_MAX - 1), NEW L \in SUBSET SensorId, NEW j,
           Allocated(h, k, j, L), NEW x \in SensorId, Turn(h, x) < k, NEW a \in 0 .. AgeBound
    PROVE  WideGap(Older(a), IdAfter(h, k + 1), x, L \cup {j})
<1>1. PICK M \in Nat, S \in Nat : M = PROTO_SENSOR_ID_MAX /\ S = SENSOR_MAX_SLOTS /\ M > S
  BY SensorManagerAssumption
<1>2. j \in SensorId /\ Turn(h, j) = k
  BY TurnOfTry DEF Allocated
<1>3. \A y \in SensorId : Turn(h, y) \in 0 .. (M - 1)
  BY <1>1, TurnOfTry
<1>4. \A y \in SensorId :
         Turn(IdAfter(h, k + 1), y) = IF Turn(h, y) > k THEN Turn(h, y) - k - 1 ELSE Turn(h, y) - k - 1 + M
  BY <1>1, TurnAfter
<1>5. PICK u \in 0 .. (M - 1) : u = Turn(h, x) /\ u < k
  BY <1>3
<1> DEFINE C == Before(IdAfter(h, k + 1), x, L \cup {j})
           W == Turns(h, u, k + 1)
<1>6. Cardinality(W) = k + 1 - u
  BY <1>1, <1>5, TurnsCount
<1>7. W \subseteq L \cup {j}
  <2>1. ASSUME NEW y \in W PROVE y \in L \cup {j}
    <3>1. y \in SensorId /\ Turn(h, y) \in Int /\ Turn(h, y) < k + 1 /\ k \in Int
      BY <1>3, <2>1 DEF Turns
    <3>2. CASE Turn(h, y) < k
      BY <3>1, <3>2 DEF Allocated
    <3>3. CASE Turn(h, y) = k
      BY <3>1, <3>3, TurnOfTry DEF Allocated
    <3> QED BY <3>1, <3>2, <3>3
  <2> QED BY <2>1
<1>8. C \cap W = {}
  <2>1. ASSUME NEW y \in SensorId, u <= Turn(h, y), Turn(h, y) < k + 1
        PROVE  ~(Turn(IdAfter(h, k + 1), y) < Turn(IdAfter(h, k + 1), x))
    <3>1. Turn(h, y) \in 0 .. (M - 1) /\ k \in 0 .. (M - 1)
      BY <1>1, <1>3
    <3> QED BY <1>4, <1>5, <2>1, <3>1
  <2> QED BY <2>1 DEF Before, Turns
<1>9. C \subseteq L \cup {j} /\ L \cup {j} \subseteq SensorId
  BY <1>2 DEF Before
<1> HIDE DEF C, W
<1>10. Cardinality(C) + (k + 1 - u) <= S /\ Cardinality(C) \in Nat
  <2>1. /\ Cardinality(C) \in Nat /\ Cardinality(L \cup {j}) \in Nat
        /\ Cardinality(C) + Cardinality(W) <= Cardinality(L \cup {j})
    BY <1>7, <1>8, <1>9, DisjointCount
  <2> QED BY <1>1, <1>5, <1>6, <2>1 DEF Allocated
<1>11. Older(a) \in Nat
  BY <1>1 DEF Older, AgeBound
<1>12. Older(a) + (u - k - 1 + M) - Cardinality(C) >= M - S
  BY <1>1, <1>5, <1>10, <1>11
<1>13. Turn(IdAfter(h, k + 1), x) = u - k - 1 + M
  BY <1>4, <1>5
<1> QED BY <1>1, <1>12, <1>13 DEF WideGap, Gap, C

\* The next id to be handed out has been waiting for at least the gap.
LEMMA GapOfIssued ==
    ASSUME NEW h \in SensorId, NEW k \in 0 .. (PROTO_SENSOR_ID_MAX - 1), NEW L \in SUBSET SensorId, NEW j,
           Allocated(h, k, j, L), NEW a \in 0 .. AgeBound, WideGap(a, h, j, L)
    PROVE  a >= PROTO_SENSOR_ID_MAX - SENSOR_MAX_SLOTS
<1>1. j \in SensorId /\ Turn(h, j) = k
  BY TurnOfTry DEF Allocated
<1>2. Before(h, j, L) = Turns(h, 0, k)
  <2>1. \A y \in SensorId : Turn(h, y) \in 0 .. (PROTO_SENSOR_ID_MAX - 1)
    BY TurnOfTry
  <2> QED BY <1>1, <2>1 DEF Before, Turns, Allocated
<1>3. Cardinality(Turns(h, 0, k)) = k
  BY SensorManagerAssumption, TurnsCount
<1>4. a + k - k >= PROTO_SENSOR_ID_MAX - SENSOR_MAX_SLOTS
  BY <1>1, <1>2, <1>3 DEF WideGap, Gap
<1> QED BY <1>4, SensorManagerAssumption DEF AgeBound

\* Fewer live ids only widen the gap.
LEMMA GapShrinks ==
    ASSUME NEW h \in SensorId, NEW x \in SensorId, NEW L \in SUBSET SensorId, NEW K \in SUBSET L,
           NEW a \in 0 .. AgeBound, WideGap(a, h, x, L)
    PROVE  WideGap(a, h, x, K)
<1>1. Before(h, x, K) \subseteq Before(h, x, L) /\ Before(h, x, L) \subseteq SensorId
  BY DEF Before
<1>2. /\ Cardinality(Before(h, x, K)) \in Nat /\ Cardinality(Before(h, x, L)) \in Nat
      /\ Cardinality(Before(h, x, K)) <= Cardinality(Before(h, x, L))
  <2>1. IsFiniteSet(Before(h, x, L)) /\ Before(h, x, K) \in SUBSET Before(h, x, L)
    BY <1>1, IdsFinite
  <2>2. IsFiniteSet(Before(h, x, K)) /\ Cardinality(Before(h, x, K)) <= Cardinality(Before(h, x, L))
    BY <2>1, FS_Subset
  <2> QED BY <2>1, <2>2, FS_CardinalityType
<1>3. Turn(h, x) \in Int /\ a \in Int /\ PROTO_SENSOR_ID_MAX \in Int /\ SENSOR_MAX_SLOTS \in Int
  BY TurnOfTry, SensorManagerAssumption
<1> QED BY <1>2, <1>3 DEF WideGap, Gap

\* What a registration that issues an id does, try by try.
Issues(id) ==
    \E k \in 0 .. (PROTO_SENSOR_ID_MAX - 1) :
        /\ Allocated(next_id_hint, k, id, IdsOf(slots))
        /\ next_id_hint' = IdAfter(next_id_hint, k + 1)
        /\ IdsOf(slots') = IdsOf(slots) \cup {id}

LEMMA RegisterAllocates ==
    ASSUME TableOK, NEW p, NEW n, NEW id, sensor_manager_register(p, n, id), id # PROTO_SENSOR_ID_NONE
    PROVE  Issues(id)
<1>1. PICK i \in SlotIndex : SlotFree(i) /\ allocate_id(id) /\ slots' = [slots EXCEPT ![i] = SlotFor(id, p, n)]
  BY DEF sensor_manager_register, SlotFor
<1>2. PICK k \in 0 .. (PROTO_SENSOR_ID_MAX - 1) :
        /\ \A j \in 0 .. (k - 1) : id_in_use(IdAfter(next_id_hint, j))
        /\ ~id_in_use(IdAfter(next_id_hint, k))
        /\ id = IdAfter(next_id_hint, k)
        /\ next_id_hint' = IdAfter(next_id_hint, k + 1)
  BY <1>1 DEF allocate_id
<1>3. next_id_hint \in SensorId /\ id \in SensorId
  BY <1>2, TurnOfTry DEF TableOK
<1>4. id \notin IdsOf(slots)
  BY <1>2 DEF IdsOf, id_in_use
<1>5. ASSUME NEW y \in SensorId, Turn(next_id_hint, y) < k PROVE y \in IdsOf(slots)
  <2>1. Turn(next_id_hint, y) \in 0 .. (PROTO_SENSOR_ID_MAX - 1) /\ y = IdAfter(next_id_hint, Turn(next_id_hint, y))
    BY <1>3, TurnOfTry
  <2>2. Turn(next_id_hint, y) \in 0 .. (k - 1)
    BY <1>5, <2>1, SensorManagerAssumption
  <2> QED BY <1>2, <2>1, <2>2 DEF IdsOf, id_in_use
<1>6. IdsOf(slots') = IdsOf(slots) \cup {id}
  <2>1. slots[i].id \notin SensorId
    BY <1>1 DEF SlotFree, PROTO_SENSOR_ID_NONE, SensorId, PROTO_SENSOR_ID_MIN
  <2>2. slots'[i].id = id /\ \A j \in SlotIndex : j # i => slots'[j] = slots[j]
    BY <1>1 DEF TableOK, SlotFor
  <2> QED BY <1>3, <2>1, <2>2 DEF IdsOf
<1>7. Cardinality(IdsOf(slots) \cup {id}) <= SENSOR_MAX_SLOTS
  BY <1>6, IdsBounded
<1>8. Allocated(next_id_hint, k, id, IdsOf(slots))
  BY <1>2, <1>4, <1>5, <1>7 DEF Allocated
<1> QED BY <1>2, <1>6, <1>8 DEF Issues

\* A release issues nothing.
LEMMA ReleaseIdsOf ==
    ASSUME TableOK, NEW id, sensor_manager_release(id)
    PROVE  IdsOf(slots') \subseteq IdsOf(slots) /\ next_id_hint' = next_id_hint
<1>1. FreeSlot.id \notin SensorId
  BY DEF FreeSlot, PROTO_SENSOR_ID_NONE, SensorId, PROTO_SENSOR_ID_MIN
<1>2. CASE slots' = slots /\ next_id_hint' = next_id_hint
  BY <1>2
<1>3. ASSUME NEW i \in SlotIndex, slots' = [slots EXCEPT ![i] = FreeSlot], next_id_hint' = next_id_hint
      PROVE  IdsOf(slots') \subseteq IdsOf(slots) /\ next_id_hint' = next_id_hint
  BY <1>1, <1>3 DEF IdsOf, TableOK
<1> QED BY <1>2, <1>3, ReleaseShape

\* For every id: the ids handed out since it was, plus those that must be
\* handed out before its turn comes again, are enough.
GapInv == \A x \in SensorId : WideGap(age[x], next_id_hint, x, IdsOf(slots))

LEMMA GapInit == TableInit => GapInv
<1> SUFFICES ASSUME TableInit, NEW x \in SensorId PROVE WideGap(age[x], next_id_hint, x, IdsOf(slots))
  BY DEF GapInv
<1>1. IdsOf(slots) = {} /\ next_id_hint \in SensorId
  BY InitTable DEF TableInit, sensor_manager_init, IdsOf, FreeSlot, PROTO_SENSOR_ID_NONE, SensorId,
                   PROTO_SENSOR_ID_MIN, TableOK
<1>2. Cardinality(Before(next_id_hint, x, IdsOf(slots))) = 0
  BY <1>1, FS_EmptySet DEF Before
<1>3. age[x] = PROTO_SENSOR_ID_MAX
  BY DEF TableInit, AgeBound
<1>4. Turn(next_id_hint, x) \in Int /\ Turn(next_id_hint, x) >= 0
  BY <1>1, TurnOfTry
<1> QED BY <1>2, <1>3, <1>4, SensorManagerAssumption DEF WideGap, Gap

LEMMA GapIssued ==
    ASSUME TableInv, GapInv, NEW id \in SensorId, Issues(id),
           age' = [i \in SensorId |-> IF i = id THEN 0 ELSE Older(age[i])]
    PROVE  GapInv' /\ age[id] >= PROTO_SENSOR_ID_MAX - SENSOR_MAX_SLOTS
<1>1. PICK k \in 0 .. (PROTO_SENSOR_ID_MAX - 1) :
        /\ Allocated(next_id_hint, k, id, IdsOf(slots))
        /\ next_id_hint' = IdAfter(next_id_hint, k + 1)
        /\ IdsOf(slots') = IdsOf(slots) \cup {id}
  BY DEF Issues
<1>2. /\ next_id_hint \in SensorId /\ age \in [SensorId -> 0 .. AgeBound]
      /\ IdsOf(slots) \in SUBSET SensorId
  BY DEF TableInv, TableOK, IdsOf
<1>3. WideGap(0, IdAfter(next_id_hint, k + 1), id, IdsOf(slots) \cup {id})
  BY <1>1, <1>2, GapOfNew
<1>4. ASSUME NEW x \in SensorId, x # id
      PROVE  WideGap(Older(age[x]), IdAfter(next_id_hint, k + 1), x, IdsOf(slots) \cup {id})
  <2>1. Turn(next_id_hint, x) \in Int /\ Turn(next_id_hint, x) # k /\ k \in Int
    BY <1>1, <1>2, <1>4, TurnOfTry DEF Allocated
  <2>2. age[x] \in 0 .. AgeBound /\ WideGap(age[x], next_id_hint, x, IdsOf(slots))
    BY <1>2 DEF GapInv
  <2>3. CASE Turn(next_id_hint, x) > k
    BY <1>1, <1>2, <2>2, <2>3, GapAhead
  <2>4. CASE Turn(next_id_hint, x) < k
    BY <1>1, <1>2, <2>2, <2>4, GapSkipped
  <2> QED BY <2>1, <2>3, <2>4
<1>5. ASSUME NEW x \in SensorId PROVE WideGap(age'[x], next_id_hint', x, IdsOf(slots'))
  <2>1. CASE x = id
    BY <1>1, <1>3, <2>1
  <2>2. CASE x # id
    BY <1>1, <1>4, <2>2
  <2> QED BY <2>1, <2>2
<1>6. age[id] >= PROTO_SENSOR_ID_MAX - SENSOR_MAX_SLOTS
  <2>1. age[id] \in 0 .. AgeBound /\ WideGap(age[id], next_id_hint, id, IdsOf(slots))
    BY <1>2 DEF GapInv
  <2> QED BY <1>1, <1>2, <2>1, GapOfIssued
<1> QED BY <1>5, <1>6 DEF GapInv

\* A step of the table keeps the gaps, and what it issues has waited.
LEMMA GapStep ==
    ASSUME TableInv, GapInv, [TableNext]_tableVars
    PROVE  /\ GapInv'
           /\ \A x \in SensorId : Issued(x) => age[x] >= PROTO_SENSOR_ID_MAX - SENSOR_MAX_SLOTS
<1>1. CASE IdsOf(slots') \subseteq IdsOf(slots) /\ next_id_hint' = next_id_hint /\ age' = age
  <2>1. ASSUME NEW x \in SensorId PROVE WideGap(age'[x], next_id_hint', x, IdsOf(slots'))
    <3>1. /\ next_id_hint \in SensorId /\ age[x] \in 0 .. AgeBound /\ IdsOf(slots) \in SUBSET SensorId
          /\ WideGap(age[x], next_id_hint, x, IdsOf(slots))
      BY DEF TableInv, TableOK, IdsOf, GapInv
    <3>2. WideGap(age[x], next_id_hint, x, IdsOf(slots'))
      BY <1>1, <3>1, GapShrinks
    <3> QED BY <1>1, <3>2
  <2>2. ASSUME NEW x \in SensorId PROVE ~Issued(x)
    BY <1>1 DEF Issued, id_in_use, IdsOf
  <2> QED BY <2>1, <2>2 DEF GapInv
<1>2. ASSUME NEW p \in ProtocolIds, NEW n \in InternalIds, Register(p, n)
      PROVE  /\ GapInv'
             /\ \A x \in SensorId : Issued(x) => age[x] >= PROTO_SENSOR_ID_MAX - SENSOR_MAX_SLOTS
  <2>1. PICK id \in SensorId \cup {PROTO_SENSOR_ID_NONE} :
          /\ sensor_manager_register(p, n, id)
          /\ IF id = PROTO_SENSOR_ID_NONE
             THEN UNCHANGED age
             ELSE age' = [i \in SensorId |-> IF i = id THEN 0 ELSE Older(age[i])]
    BY <1>2 DEF Register
  <2>2. CASE id = PROTO_SENSOR_ID_NONE
    <3>1. UNCHANGED managerVars /\ age' = age
      BY <2>1, <2>2, RegisterFails DEF TableInv
    <3> QED BY <1>1, <3>1 DEF managerVars
  <2>3. CASE id # PROTO_SENSOR_ID_NONE
    <3>1. Issues(id) /\ id \in SensorId
      BY <2>1, <2>3, RegisterAllocates DEF TableInv
    <3>2. GapInv' /\ age[id] >= PROTO_SENSOR_ID_MAX - SENSOR_MAX_SLOTS
      BY <2>1, <2>3, <3>1, GapIssued
    <3>3. ASSUME NEW x \in SensorId, Issued(x) PROVE x = id
      <4>1. IdsOf(slots') = IdsOf(slots) \cup {id}
        BY <3>1 DEF Issues
      <4>2. x \in IdsOf(slots') /\ x \notin IdsOf(slots)
        BY <3>3 DEF Issued, id_in_use, IdsOf
      <4> QED BY <4>1, <4>2
    <3> QED BY <3>2, <3>3
  <2> QED BY <2>2, <2>3
<1>3. ASSUME NEW id, Release(id)
      PROVE  IdsOf(slots') \subseteq IdsOf(slots) /\ next_id_hint' = next_id_hint /\ age' = age
  BY <1>3, ReleaseIdsOf DEF Release, TableInv
<1>4. CASE UNCHANGED tableVars
  BY <1>1, <1>4 DEF tableVars
<1> QED BY <1>1, <1>2, <1>3, <1>4 DEF TableNext

\* An id comes back only after all but a table's worth of the others, for every
\* number of ids and slots: a host that still holds a stopped sensor's id cannot
\* soon address a stranger with it (allocate_id's round robin over the hint).
THEOREM TableRecycleGap == TableSpec => RecycleGap
<1>1. TableInit => GapInv
  BY GapInit
<1>2. TableInv /\ GapInv /\ [TableNext]_tableVars => GapInv'
  BY GapStep
<1>3. TableInv /\ GapInv /\ [TableNext]_tableVars =>
        [\A id \in SensorId :
            Issued(id) => age[id] >= PROTO_SENSOR_ID_MAX - SENSOR_MAX_SLOTS]_tableVars
  BY GapStep
<1> QED BY <1>1, <1>2, <1>3, SpecTableInv, PTL DEF TableSpec, RecycleGap

-----------------------------------------------------------------------------
(* The table and the backends' pools                                        *)

Sensor(i) == <<slots[i].protocol_id, slots[i].internal_id>>
LiveSensors == {Sensor(i) : i \in LiveSlots}
OneSlotEach == \A i, j \in LiveSlots : Sensor(i) = Sensor(j) => i = j

LiveI2c == {i \in I2cIndex : i2c[i].in_use}
LiveDout == {i \in DoutIndex : dout[i].in_use}
LivePwm == {i \in PwmIndex : pwm[i].in_use}
LiveDac == {i \in DacIndex : dac[i].in_use}
LiveSpi == {p \in SpiPeriphs : spi_slaves[p].in_use}

TableMatches == LiveSensors = BackendSensors /\ OneSlotEach

\* A registration with an id adds one sensor.
LEMMA RegisterAdds ==
    ASSUME TableOK, OneSlotEach, NEW p, NEW n, NEW id, sensor_manager_register(p, n, id),
           id # PROTO_SENSOR_ID_NONE, <<p, n>> \notin LiveSensors
    PROVE  /\ LiveSensors' = LiveSensors \cup {<<p, n>>} /\ OneSlotEach'
           /\ ~id_in_use(id) /\ id_in_use(id)'
<1>1. PICK i \in SlotIndex :
         /\ SlotFree(i) /\ id \in SensorId /\ ~id_in_use(id)
         /\ slots' = [slots EXCEPT ![i] = SlotFor(id, p, n)]
  BY RegisterShape
<1>2. /\ slots'[i].id = id /\ Sensor(i)' = <<p, n>>
      /\ \A j \in SlotIndex : j # i => slots'[j] = slots[j] /\ Sensor(j)' = Sensor(j)
  BY <1>1 DEF TableOK, SlotFor, Sensor
<1>3. LiveSlots' = LiveSlots \cup {i} /\ i \notin LiveSlots
  BY <1>1, <1>2 DEF LiveSlots, SlotFree
<1>4. LiveSlots \subseteq SlotIndex
  BY DEF LiveSlots
<1>5. LiveSensors' = LiveSensors \cup {<<p, n>>}
  BY <1>2, <1>3, <1>4 DEF LiveSensors
<1>6. OneSlotEach'
  BY <1>2, <1>3, <1>4 DEF LiveSensors, OneSlotEach
<1>7. id_in_use(id)'
  BY <1>2 DEF id_in_use
<1> QED BY <1>1, <1>5, <1>6, <1>7

\* The release of a live id removes its sensor.
LEMMA ReleaseRemoves ==
    ASSUME TableOK, OneSlotEach, NEW id, sensor_manager_lookup(id) # -1, sensor_manager_release(id)
    PROVE  LiveSensors' = LiveSensors \ {Sensor(sensor_manager_lookup(id))} /\ OneSlotEach'
<1>1. PICK i \in LiveSlots : i = sensor_manager_lookup(id)
  BY LookupFinds
<1>2. slots' = [slots EXCEPT ![i] = FreeSlot] /\ i \in SlotIndex
  BY <1>1 DEF sensor_manager_release, LiveSlots
<1>3. /\ slots'[i].id = PROTO_SENSOR_ID_NONE
      /\ \A j \in SlotIndex : j # i => slots'[j] = slots[j] /\ Sensor(j)' = Sensor(j)
  BY <1>2 DEF TableOK, FreeSlot, Sensor
<1>4. LiveSlots' = LiveSlots \ {i}
  BY <1>2, <1>3 DEF LiveSlots, SlotFree
<1>5. LiveSlots \subseteq SlotIndex
  BY DEF LiveSlots
<1>6. LiveSensors' = LiveSensors \ {Sensor(i)}
  BY <1>3, <1>4, <1>5 DEF LiveSensors, OneSlotEach
<1>7. OneSlotEach'
  BY <1>3, <1>4, <1>5 DEF OneSlotEach
<1> QED BY <1>1, <1>6, <1>7

\* What a live sensor is, by protocol.
LEMMA BackendHas ==
    ASSUME NEW p, NEW n
    PROVE  <<p, n>> \in BackendSensors <=>
             \/ p = "I2C" /\ n \in LiveI2c
             \/ p = "DIGITAL_OUT" /\ n \in LiveDout
             \/ p = "PWM" /\ n \in LivePwm
             \/ p = "DAC" /\ n \in LiveDac
             \/ p = "SPI" /\ n \in LiveSpi
BY DEF BackendSensors, LiveI2c, LiveDout, LivePwm, LiveDac, LiveSpi

\* The slot a command is routed to is a live sensor of that backend.
LEMMA RoutedIsLive ==
    ASSUME TableOK, TableMatches, NEW id, NEW p, Routed(id, p)
    PROVE  /\ <<p, SlotOf(id).internal_id>> \in BackendSensors
           /\ Sensor(sensor_manager_lookup(id)) = <<p, SlotOf(id).internal_id>>
BY LookupFinds DEF Routed, SlotOf, TableMatches, LiveSensors, Sensor

\* The table names the same sensors after a step that changes neither side.
LEMMA MatchesKept ==
    ASSUME TableOK, TableMatches, UNCHANGED managerVars, BackendSensors' = BackendSensors
    PROVE  TableOK' /\ TableMatches'
<1>1. slots' = slots /\ next_id_hint' = next_id_hint
  BY DEF managerVars
<1>2. TableOK'
  BY <1>1 DEF TableOK, UniqueIds
<1>3. LiveSensors' = LiveSensors /\ OneSlotEach' = OneSlotEach
  BY <1>1 DEF LiveSensors, OneSlotEach, LiveSlots, SlotFree, Sensor
<1> QED BY <1>2, <1>3 DEF TableMatches

\* A successful setup adds its sensor to both sides.
LEMMA MatchesGrow ==
    ASSUME TableOK, TableMatches, NEW p \in ProtocolIds, NEW n \in InternalIds, NEW id,
           sensor_manager_register(p, n, id), id # PROTO_SENSOR_ID_NONE,
           <<p, n>> \notin BackendSensors, BackendSensors' = BackendSensors \cup {<<p, n>>}
    PROVE  TableOK' /\ TableMatches' /\ ~id_in_use(id) /\ id_in_use(id)'
<1>1. TableOK'
  BY RegisterKeepsTable
<1>2. /\ LiveSensors' = LiveSensors \cup {<<p, n>>} /\ OneSlotEach'
      /\ ~id_in_use(id) /\ id_in_use(id)'
  BY RegisterAdds DEF TableMatches
<1> QED BY <1>1, <1>2 DEF TableMatches

\* A successful stop removes its sensor from both sides.
LEMMA MatchesShrink ==
    ASSUME TableOK, TableMatches, NEW id, NEW p, Routed(id, p), sensor_manager_release(id),
           BackendSensors' = BackendSensors \ {<<p, SlotOf(id).internal_id>>}
    PROVE  TableOK' /\ TableMatches'
<1>1. TableOK'
  BY ReleaseKeepsTable
<1>2. sensor_manager_lookup(id) # -1 /\ OneSlotEach
  BY DEF Routed, TableMatches
<1>3. LiveSensors' = LiveSensors \ {Sensor(sensor_manager_lookup(id))} /\ OneSlotEach'
  BY <1>2, ReleaseRemoves
<1>4. Sensor(sensor_manager_lookup(id)) = <<p, SlotOf(id).internal_id>>
  BY RoutedIsLive
<1> QED BY <1>1, <1>3, <1>4 DEF TableMatches

\* The sensors are given by the live indices of the five pools.
LEMMA SensorsOfLiveSets ==
    ASSUME LiveI2c' = LiveI2c, LiveDout' = LiveDout, LivePwm' = LivePwm, LiveDac' = LiveDac, LiveSpi' = LiveSpi
    PROVE  BackendSensors' = BackendSensors
BY DEF BackendSensors, LiveI2c, LiveDout, LivePwm, LiveDac, LiveSpi

-----------------------------------------------------------------------------
(* Cardinalities and slot numbers                                           *)

LEMMA CardUp ==
    ASSUME NEW S, IsFiniteSet(S), NEW x, x \notin S
    PROVE  Cardinality(S \cup {x}) = Cardinality(S) + 1 /\ Cardinality(S) \in Nat
BY FS_AddElement, FS_CardinalityType

LEMMA CardDown ==
    ASSUME NEW S, IsFiniteSet(S), NEW x, x \in S
    PROVE  Cardinality(S \ {x}) = Cardinality(S) - 1 /\ Cardinality(S) \in Nat
BY FS_RemoveElement, FS_CardinalityType

\* The slot numbers of (owner, lane) pairs: row a, column b of a table with n
\* rows and m columns.
Row(n) == 0 .. (n - 1)

LEMMA RowFinite ==
    ASSUME NEW n \in Nat
    PROVE  IsFiniteSet(Row(n)) /\ Cardinality(Row(n)) = n
BY FS_Interval DEF Row

LEMMA CellInTable ==
    ASSUME NEW n \in Nat, NEW m \in Nat, NEW a \in Row(n), NEW b \in Row(m)
    PROVE  a * m + b \in Row(n * m)
<1>1. a \in Nat /\ b \in Nat /\ a <= n - 1 /\ b <= m - 1
  BY DEF Row
<1>2. n * m = (n - 1 - a) * m + a * m + m /\ (n - 1 - a) * m \in Nat /\ a * m \in Nat
  <2>1. n - 1 - a \in Nat
    BY <1>1
  <2>2. (n - 1 - a) * m \in Nat /\ a * m \in Nat
    BY <2>1, <1>1
  <2>3. n * m = (n - 1 - a) * m + a * m + m
    BY <1>1
  <2> QED BY <2>2, <2>3
<1>3. a * m + b \in Nat /\ n * m \in Nat
  BY <1>1, <1>2
<1> QED BY <1>1, <1>2, <1>3 DEF Row

LEMMA CellsDiffer ==
    ASSUME NEW m \in Nat, NEW a \in Nat, NEW c \in Nat, NEW b \in Row(m), NEW d \in Row(m),
           a * m + b = c * m + d
    PROVE  a = c /\ b = d
<1>1. b \in Nat /\ d \in Nat /\ b < m /\ d < m
  BY DEF Row
<1>2. ASSUME NEW x \in Nat, NEW y \in Nat, x > y
      PROVE  x * m = y * m + m + (x - y - 1) * m /\ (x - y - 1) * m \in Nat /\ y * m \in Nat
  <2>1. x - y - 1 \in Nat
    BY <1>2
  <2>2. (x - y - 1) * m \in Nat /\ y * m \in Nat
    BY <2>1
  <2>3. x * m = y * m + m + (x - y - 1) * m
    OBVIOUS
  <2> QED BY <2>2, <2>3
<1>3. ~(a > c)
  BY <1>1, <1>2
<1>4. ~(c > a)
  BY <1>1, <1>2
<1>5. a = c
  BY <1>3, <1>4
<1>6. a * m \in Nat /\ b = d
  BY <1>1, <1>5
<1> QED BY <1>5, <1>6

-----------------------------------------------------------------------------
(* How a setup ends                                                         *)

\* Refused: an error is returned, the table and the heap are as before.
Refused ==
    /\ ret'.err # "ERR_SUCCESS" /\ ret'.id = PROTO_SENSOR_ID_NONE
    /\ UNCHANGED <<managerVars, heap>>

\* Accepted: the sensor n of protocol p was registered under the id returned.
Accepted(p, n) ==
    \E id \in MaybeId :
        /\ id # PROTO_SENSOR_ID_NONE
        /\ sensor_manager_register(p, n, id)
        /\ ret' = [err |-> "ERR_SUCCESS", id |-> id]

LEMMA ReturnFields ==
    ASSUME NEW err, NEW id, Return(err, id)
    PROVE  ret'.err = err /\ ret'.id = id
BY DEF Return

LEMMA RejectFields ==
    ASSUME NEW err, Reject(err)
    PROVE  ret'.err = err /\ ret'.id = PROTO_SENSOR_ID_NONE
BY DEF Return, Reject

-----------------------------------------------------------------------------
(* I2C sensors                                                              *)

\* The driver's view of a peripheral and its sensor agree, and a slot not in
\* use is as free_slot left it.
I2cOwned(i) ==
    /\ i2c_slave[i].initialized <=> i2c[i].in_use
    /\ i2c_slave[i].bound <=> i2c[i].regmap # <<>>
    /\ i2c[i].in_use <=> i2c[i].regmap # <<>>
    /\ ~i2c[i].in_use => i2c[i] = I2cFree

I2cInv == I2cTypeOK /\ \A i \in I2cIndex : I2cOwned(i)

\* memcpy into a register map keeps its length.
LEMMA PatchKeeps ==
    ASSUME NEW m \in Seq(Nat), NEW start \in Nat, NEW values \in Seq(Nat)
    PROVE  Patch(m, start, values) \in Seq(Nat) /\ Len(Patch(m, start, values)) = Len(m)
<1>1. ASSUME NEW r \in 1 .. Len(m), r \in (start + 1) .. (start + Len(values))
      PROVE  values[r - start] \in Nat
  <2>1. r - start \in 1 .. Len(values)
    BY <1>1
  <2> QED BY <2>1
<1>2. Patch(m, start, values) \in [1 .. Len(m) -> Nat]
  <2>1. DOMAIN m = 1 .. Len(m) /\ \A r \in 1 .. Len(m) : m[r] \in Nat
    OBVIOUS
  <2> QED BY <1>1, <2>1 DEF Patch
<1>3. ASSUME NEW k \in Nat, NEW f \in [1 .. k -> Nat] PROVE f \in Seq(Nat) /\ Len(f) = k
  OBVIOUS
<1> QED BY <1>2, <1>3, LenProperties

LEMMA NewMap ==
    ASSUME NEW n \in Nat \ {0}, NEW start \in Nat, NEW values \in Seq(Nat)
    PROVE  /\ Patch([r \in 1 .. n |-> 0], start, values) \in Seq(Nat)
           /\ Patch([r \in 1 .. n |-> 0], start, values) # <<>>
<1> DEFINE z == [r \in 1 .. n |-> 0]
<1>1. z \in Seq(Nat) /\ Len(z) = n
  OBVIOUS
<1> HIDE DEF z
<1>2. Patch(z, start, values) \in Seq(Nat) /\ Len(Patch(z, start, values)) = n
  BY <1>1, PatchKeeps
<1>3. Patch(z, start, values) # <<>>
  BY <1>2
<1> QED BY <1>2, <1>3 DEF z

LEMMA I2cFreeTyped ==
    /\ I2cFree \in [in_use : BOOLEAN, pins : SUBSET Pins, regmap : Seq(Nat)]
    /\ I2cOff \in [initialized : BOOLEAN, bound : BOOLEAN]
    /\ ~I2cFree.in_use /\ I2cFree.regmap = <<>> /\ ~I2cOff.initialized /\ ~I2cOff.bound
BY DEF I2cFree, I2cOff

\* A slot that takes a live sensor, or is cleared, keeps the invariant.
LEMMA I2cSlotWritten ==
    ASSUME I2cInv, NEW i \in I2cIndex,
           NEW s \in [in_use : BOOLEAN, pins : SUBSET Pins, regmap : Seq(Nat)],
           NEW d \in [initialized : BOOLEAN, bound : BOOLEAN],
           i2c' = [i2c EXCEPT ![i] = s], i2c_slave' = [i2c_slave EXCEPT ![i] = d],
           d.initialized <=> s.in_use, d.bound <=> s.in_use, s.in_use <=> s.regmap # <<>>,
           ~s.in_use => s = I2cFree
    PROVE  I2cInv' /\ LiveI2c' = IF s.in_use THEN LiveI2c \cup {i} ELSE LiveI2c \ {i}
<1>1. I2cTypeOK'
  BY DEF I2cInv, I2cTypeOK
<1>2. ASSUME NEW j \in I2cIndex
      PROVE  i2c'[j] = (IF j = i THEN s ELSE i2c[j]) /\ i2c_slave'[j] = (IF j = i THEN d ELSE i2c_slave[j])
  BY DEF I2cInv, I2cTypeOK
<1>3. ASSUME NEW j \in I2cIndex PROVE I2cOwned(j)'
  BY <1>2 DEF I2cInv, I2cOwned
<1>4. LiveI2c' = IF s.in_use THEN LiveI2c \cup {i} ELSE LiveI2c \ {i}
  BY <1>2 DEF LiveI2c
<1> QED BY <1>1, <1>3, <1>4 DEF I2cInv

\* i2c_sensor_setup: the sensor is there with its driver and register map, or
\* nothing has changed (i2c_slave_init is never refused).
LEMMA I2cSetup ==
    ASSUME I2cInv, TableOK, NEW cfg \in I2cCfgs, i2c_sensor_setup(cfg)
    PROVE  /\ I2cInv'
           /\ \/ Refused /\ UNCHANGED i2cVars
              \/ \E n \in I2cIndex \ LiveI2c :
                    Accepted("I2C", n) /\ LiveI2c' = LiveI2c \cup {n} /\ heap' = heap + 1
<1>1. CASE \E err : err # "ERR_SUCCESS" /\ I2cReject(err)
  <2>1. Refused /\ UNCHANGED i2cVars
    BY <1>1, RejectFields DEF I2cReject, Refused, backendVars
  <2>2. i2c' = i2c /\ i2c_slave' = i2c_slave
    BY <2>1 DEF i2cVars
  <2>3. I2cInv'
    BY <2>2 DEF I2cInv, I2cTypeOK, I2cOwned
  <2> QED BY <2>1, <2>3
<1>2. ASSUME NEW idx \in i2c_alloc_slot,
             IF i2c_slave[idx].initialized THEN I2cDriverBusy(cfg, idx) ELSE I2cInstall(cfg, idx)
      PROVE  /\ I2cInv'
             /\ \/ Refused /\ UNCHANGED i2cVars
                \/ \E n \in I2cIndex \ LiveI2c :
                      Accepted("I2C", n) /\ LiveI2c' = LiveI2c \cup {n} /\ heap' = heap + 1
  <2>1. idx \in I2cIndex /\ ~i2c[idx].in_use
    BY <1>2 DEF i2c_alloc_slot
  <2>2. i2c[idx] = I2cFree /\ ~i2c_slave[idx].initialized /\ ~i2c_slave[idx].bound
    BY <2>1, I2cFreeTyped DEF I2cInv, I2cOwned
  <2>3. PICK id \in MaybeId :
          /\ sensor_manager_register("I2C", idx, id)
          /\ IF id = PROTO_SENSOR_ID_NONE
             THEN /\ Reject("ERR_OUT_OF_RESOURCES")
                  /\ i2c' = [i2c EXCEPT ![idx] = I2cFree]
                  /\ i2c_slave' = [i2c_slave EXCEPT ![idx] = I2cOff]
                  /\ UNCHANGED heap
             ELSE /\ Return("ERR_SUCCESS", id)
                  /\ i2c' = [i2c EXCEPT ![idx] = [in_use |-> TRUE, pins |-> cfg.pins,
                        regmap |-> Patch([r \in 1 .. cfg.register_count |-> 0],
                                         cfg.preset_start, cfg.preset)]]
                  /\ i2c_slave' = [i2c_slave EXCEPT ![idx] = i2c_slave_init]
                  /\ heap' = heap + 1
    BY <1>2, <2>2 DEF I2cInstall
  <2>4. CASE id = PROTO_SENSOR_ID_NONE
    <3>1. I2cOff = i2c_slave[idx]
      BY <2>1, <2>2 DEF I2cInv, I2cTypeOK, I2cOff
    <3>2. i2c' = i2c /\ i2c_slave' = i2c_slave
      BY <2>1, <2>2, <2>3, <2>4, <3>1 DEF I2cInv, I2cTypeOK
    <3>3. UNCHANGED managerVars
      BY <2>3, <2>4, RegisterFails
    <3>4. Refused /\ UNCHANGED i2cVars
      BY <2>3, <2>4, <3>2, <3>3, RejectFields DEF Refused, i2cVars
    <3>5. I2cInv'
      BY <3>2 DEF I2cInv, I2cTypeOK, I2cOwned
    <3> QED BY <3>4, <3>5
  <2>5. CASE id # PROTO_SENSOR_ID_NONE
    <3>1. /\ cfg.register_count \in Nat \ {0} /\ cfg.preset_start \in Nat
          /\ cfg.preset \in Seq(Nat) /\ cfg.pins \in SUBSET Pins
      BY I2cAssumption
    <3>2. PICK m \in Seq(Nat) : m # <<>> /\ m = Patch([r \in 1 .. cfg.register_count |-> 0],
                                                      cfg.preset_start, cfg.preset)
      BY <3>1, NewMap
    <3>3. PICK s \in [in_use : BOOLEAN, pins : SUBSET Pins, regmap : Seq(Nat)] :
            s = [in_use |-> TRUE, pins |-> cfg.pins, regmap |-> m]
      BY <3>1
    <3>4. s.in_use /\ s.regmap # <<>> /\ i2c' = [i2c EXCEPT ![idx] = s]
      BY <2>3, <2>5, <3>2, <3>3
    <3>5. /\ i2c_slave_init \in [initialized : BOOLEAN, bound : BOOLEAN]
          /\ i2c_slave_init.initialized /\ i2c_slave_init.bound
      BY DEF i2c_slave_init
    <3>6. I2cInv' /\ LiveI2c' = LiveI2c \cup {idx}
      BY <2>1, <2>3, <2>5, <3>4, <3>5, I2cSlotWritten
    <3>7. Accepted("I2C", idx)
      BY <2>3, <2>5 DEF Accepted, Return
    <3>8. idx \in I2cIndex \ LiveI2c
      BY <2>1 DEF LiveI2c
    <3> QED BY <2>3, <2>5, <3>6, <3>7, <3>8
  <2> QED BY <2>4, <2>5
<1> QED BY <1>1, <1>2 DEF i2c_sensor_setup

\* i2c_sensor_set_output writes registers of a live map, or nothing.
LEMMA I2cSet ==
    ASSUME I2cInv, NEW idx \in I2cIndex, NEW v \in I2cValues, i2c_sensor_set_output(idx, v)
    PROVE  I2cInv' /\ LiveI2c' = LiveI2c /\ UNCHANGED backendVars
<1>1. CASE i2c' = i2c /\ i2c_slave' = i2c_slave /\ UNCHANGED backendVars
  BY <1>1 DEF I2cInv, I2cTypeOK, I2cOwned, LiveI2c
<1>2. CASE /\ i2c_values_err(idx, v) = "ERR_SUCCESS" /\ UNCHANGED <<backendVars, i2c_slave>>
           /\ i2c' = [i2c EXCEPT ![idx].regmap = Patch(@, v.reg_start, v.values)]
  <2>1. i2c[idx].in_use
    BY <1>2 DEF i2c_values_err
  <2>2. v.reg_start \in Nat /\ v.values \in Seq(Nat)
    BY I2cAssumption
  <2>3. PICK s0 \in [in_use : BOOLEAN, pins : SUBSET Pins, regmap : Seq(Nat)] : s0 = i2c[idx]
    BY DEF I2cInv, I2cTypeOK
  <2>4. PICK m \in Seq(Nat) : m = Patch(s0.regmap, v.reg_start, v.values) /\ Len(m) = Len(s0.regmap)
    BY <2>2, <2>3, PatchKeeps
  <2>5. s0.in_use /\ s0.regmap # <<>> /\ s0.regmap \in Seq(Nat)
    BY <2>1, <2>3 DEF I2cInv, I2cOwned
  <2>6. m # <<>>
    BY <2>4, <2>5
  <2>7. PICK s \in [in_use : BOOLEAN, pins : SUBSET Pins, regmap : Seq(Nat)] :
          s = [s0 EXCEPT !.regmap = m]
    BY <2>4
  <2>8. s.in_use /\ s.regmap # <<>>
    BY <2>5, <2>6, <2>7
  <2>9. i2c' = [i2c EXCEPT ![idx] = s]
    BY <1>2, <2>3, <2>4, <2>7
  <2>10. /\ i2c_slave' = [i2c_slave EXCEPT ![idx] = i2c_slave[idx]]
         /\ i2c_slave[idx] \in [initialized : BOOLEAN, bound : BOOLEAN]
         /\ i2c_slave[idx].initialized /\ i2c_slave[idx].bound
    BY <1>2, <2>1 DEF I2cInv, I2cTypeOK, I2cOwned
  <2>11. I2cInv' /\ LiveI2c' = LiveI2c \cup {idx}
    BY <2>8, <2>9, <2>10, I2cSlotWritten
  <2> QED BY <1>2, <2>1, <2>11 DEF LiveI2c
<1> QED BY <1>1, <1>2 DEF i2c_sensor_set_output, I2cReject, i2cVars

\* i2c_sensor_stop: driver off before the map is freed.
LEMMA I2cStop ==
    ASSUME I2cInv, NEW idx \in LiveI2c, i2c_sensor_stop(idx)
    PROVE  /\ I2cInv' /\ LiveI2c' = LiveI2c \ {idx} /\ heap' = heap - 1
           /\ ret'.err = "ERR_SUCCESS"
<1>1. idx \in I2cIndex /\ i2c[idx].in_use
  BY DEF LiveI2c
<1>2. /\ i2c' = [i2c EXCEPT ![idx] = I2cFree] /\ i2c_slave' = [i2c_slave EXCEPT ![idx] = I2cOff]
      /\ heap' = heap - 1 /\ ret'.err = "ERR_SUCCESS"
  BY <1>1, ReturnFields DEF i2c_sensor_stop
<1>3. I2cInv' /\ LiveI2c' = LiveI2c \ {idx}
  BY <1>1, <1>2, I2cFreeTyped, I2cSlotWritten
<1> QED BY <1>2, <1>3

-----------------------------------------------------------------------------
(* SPI ports: DAC chips and slave sensors                                   *)

SpiRec == [role : {"NONE", "MASTER", "SLAVE"}, master_init : BOOLEAN,
           busy : BOOLEAN, slave_init : BOOLEAN, tx : SpiTxBufs \cup {"empty"}]
ChipRec == [initialized : BOOLEAN, clock : Nat, mosi : Pins, sck : Pins,
            cs : Pins, ldac : Pins \cup {<<"NULL", 0>>},
            channels_active : SUBSET DacChannels, tx_done : BOOLEAN]
DacRec == [in_use : BOOLEAN, periph : SpiPeriphs, channel : DacChannels]
SlaveRec == [in_use : BOOLEAN, pins : SUBSET Pins]

SpiTyped ==
    /\ spi \in [SpiPeriphs -> SpiRec]
    /\ chips \in [SpiPeriphs -> ChipRec]
    /\ spi_slaves \in [SpiPeriphs -> SlaveRec]

\* A live DAC sensor sits in the slot of its peripheral and channel.
DacPlaced ==
    /\ dac \in [DacIndex -> DacRec]
    /\ \A i \in DacIndex : dac[i].in_use => i = dac_slot_for(dac[i].periph, dac[i].channel)

ActiveChannels(p) == {c \in DacChannels : dac[dac_slot_for(p, c)].in_use}

\* What one port's claim, driver records, chip and sensors say of each other.
PortOK(p) ==
    /\ (spi[p].role = "MASTER") <=> chips[p].initialized
    /\ chips[p].initialized <=> spi[p].master_init
    /\ chips[p].initialized <=> (chips[p].channels_active # {})
    /\ chips[p].channels_active = ActiveChannels(p)
    /\ (spi[p].role = "SLAVE") <=> spi_slaves[p].in_use
    /\ spi_slaves[p].in_use <=> spi[p].slave_init
    /\ spi[p].busy => spi[p].role = "MASTER"

SpiInv == SpiTyped /\ DacPlaced /\ \A p \in SpiPeriphs : PortOK(p)

Chips == {p \in SpiPeriphs : chips[p].initialized}

LEMMA DacSlotInTable ==
    ASSUME NEW p \in SpiPeriphs, NEW c \in DacChannels
    PROVE  dac_slot_for(p, c) \in DacIndex
<1>1. /\ SPI_PERIPH_COUNT \in Nat /\ DAC_CHANNELS_PER_CHIP \in Nat
      /\ p \in Row(SPI_PERIPH_COUNT) /\ c \in Row(DAC_CHANNELS_PER_CHIP)
  BY SpiAssumption, DacAssumption DEF SpiPeriphs, DacChannels, Row
<1> QED BY <1>1, CellInTable DEF dac_slot_for, DacIndex, Row

LEMMA DacSlotsDiffer ==
    ASSUME NEW p \in SpiPeriphs, NEW c \in DacChannels, NEW q \in SpiPeriphs, NEW d \in DacChannels,
           dac_slot_for(p, c) = dac_slot_for(q, d)
    PROVE  p = q /\ c = d
<1>1. /\ DAC_CHANNELS_PER_CHIP \in Nat /\ p \in Nat /\ q \in Nat
      /\ c \in Row(DAC_CHANNELS_PER_CHIP) /\ d \in Row(DAC_CHANNELS_PER_CHIP)
  BY SpiAssumption, DacAssumption DEF SpiPeriphs, DacChannels, Row
<1> QED BY <1>1, CellsDiffer DEF dac_slot_for

\* A DAC slot is filled or cleared.
LEMMA DacWritten ==
    ASSUME DacPlaced, NEW p \in SpiPeriphs, NEW c \in DacChannels, NEW r \in DacRec,
           r.in_use => r.periph = p /\ r.channel = c,
           dac' = [dac EXCEPT ![dac_slot_for(p, c)] = r]
    PROVE  /\ DacPlaced'
           /\ \A q \in SpiPeriphs : q # p => ActiveChannels(q)' = ActiveChannels(q)
           /\ ActiveChannels(p)' = IF r.in_use THEN ActiveChannels(p) \cup {c} ELSE ActiveChannels(p) \ {c}
           /\ LiveDac' = IF r.in_use THEN LiveDac \cup {dac_slot_for(p, c)}
                         ELSE LiveDac \ {dac_slot_for(p, c)}
<1>1. dac_slot_for(p, c) \in DacIndex
  BY DacSlotInTable
<1>2. ASSUME NEW i \in DacIndex
      PROVE  dac'[i] = IF i = dac_slot_for(p, c) THEN r ELSE dac[i]
  BY <1>1 DEF DacPlaced
<1>3. dac' \in [DacIndex -> DacRec]
  BY <1>1 DEF DacPlaced
<1>4. DacPlaced'
  BY <1>1, <1>2, <1>3 DEF DacPlaced
<1>5. ASSUME NEW q \in SpiPeriphs, NEW d \in DacChannels
      PROVE  dac'[dac_slot_for(q, d)] = IF q = p /\ d = c THEN r ELSE dac[dac_slot_for(q, d)]
  BY <1>2, DacSlotInTable, DacSlotsDiffer
<1>6. ASSUME NEW q \in SpiPeriphs, q # p PROVE ActiveChannels(q)' = ActiveChannels(q)
  BY <1>5, <1>6 DEF ActiveChannels
<1>7. ActiveChannels(p)' = IF r.in_use THEN ActiveChannels(p) \cup {c} ELSE ActiveChannels(p) \ {c}
  BY <1>5 DEF ActiveChannels
<1>8. LiveDac' = IF r.in_use THEN LiveDac \cup {dac_slot_for(p, c)} ELSE LiveDac \ {dac_slot_for(p, c)}
  BY <1>1, <1>2 DEF LiveDac
<1> QED BY <1>4, <1>6, <1>7, <1>8

OtherPortsKept(p) ==
    \A q \in SpiPeriphs : q # p =>
        spi_slaves'[q] = spi_slaves[q] /\ ActiveChannels(q)' = ActiveChannels(q)

\* A step that writes the records of one port keeps the others in order.
LEMMA PortWritten ==
    ASSUME SpiInv, NEW p \in SpiPeriphs, NEW s \in SpiRec, NEW c \in ChipRec,
           spi' = [spi EXCEPT ![p] = s], chips' = [chips EXCEPT ![p] = c],
           spi_slaves' \in [SpiPeriphs -> SlaveRec], DacPlaced', OtherPortsKept(p),
           PortOK(p)'
    PROVE  SpiInv' /\ Chips' = IF c.initialized THEN Chips \cup {p} ELSE Chips \ {p}
<1>1. SpiTyped'
  BY DEF SpiInv, SpiTyped
<1>2. ASSUME NEW q \in SpiPeriphs
      PROVE  spi'[q] = (IF q = p THEN s ELSE spi[q]) /\ chips'[q] = (IF q = p THEN c ELSE chips[q])
  BY DEF SpiInv, SpiTyped
<1>3. ASSUME NEW q \in SpiPeriphs PROVE PortOK(q)'
  <2>1. CASE q = p
    BY <2>1
  <2>2. CASE q # p
    <3>1. spi'[q] = spi[q] /\ chips'[q] = chips[q] /\ spi_slaves'[q] = spi_slaves[q]
          /\ ActiveChannels(q)' = ActiveChannels(q)
      BY <1>2, <2>2 DEF OtherPortsKept
    <3>2. PortOK(q)
      BY DEF SpiInv
    <3> QED BY <3>1, <3>2 DEF PortOK
  <2> QED BY <2>1, <2>2
<1>4. Chips' = IF c.initialized THEN Chips \cup {p} ELSE Chips \ {p}
  BY <1>2 DEF Chips
<1> QED BY <1>1, <1>3, <1>4 DEF SpiInv

\* A port run as master: claimed, initialised and no slave.
IsMaster(s) == s.role = "MASTER" /\ s.master_init /\ ~s.slave_init

LEMMA ChipFreeTyped ==
    ChipFree \in ChipRec /\ ~ChipFree.initialized /\ ChipFree.channels_active = {}
<1>1. (CHOOSE q \in Pins : TRUE) \in Pins
  BY GpioAssumption
<1> QED BY <1>1 DEF ChipFree, ChipRec

\* DacSettle: the port keeps its chip, or is torn down with its last channel.
LEMMA PortSettled ==
    ASSUME SpiInv, NEW p \in SpiPeriphs, NEW s \in SpiRec, NEW c \in ChipRec, NEW g,
           IsMaster(s), c.initialized, ~spi_slaves[p].in_use, UNCHANGED spi_slaves,
           DacPlaced', OtherPortsKept(p), c.channels_active = ActiveChannels(p)',
           DacSettle(p, s, c, g)
    PROVE  SpiInv' /\ Chips' = IF c.channels_active = {} THEN Chips \ {p} ELSE Chips \cup {p}
<1>1. spi_slaves' \in [SpiPeriphs -> SlaveRec]
  BY DEF SpiInv, SpiTyped
<1>2. CASE c.channels_active = {}
  <2>1. /\ spi_master_deinit(s) \in SpiRec
        /\ spi_master_deinit(s).role = "NONE" /\ ~spi_master_deinit(s).master_init
        /\ ~spi_master_deinit(s).busy /\ ~spi_master_deinit(s).slave_init
    BY DEF IsMaster, spi_master_deinit, spi_release, SpiRec
  <2>2. PICK d \in SpiRec : /\ d = spi_master_deinit(s) /\ d.role = "NONE" /\ ~d.master_init
                            /\ ~d.busy /\ ~d.slave_init
    BY <2>1
  <2>3. PICK f \in ChipRec : f = ChipFree /\ ~f.initialized /\ f.channels_active = {}
    BY ChipFreeTyped
  <2>4. spi' = [spi EXCEPT ![p] = d] /\ chips' = [chips EXCEPT ![p] = f]
    BY <1>2, <2>2, <2>3 DEF DacSettle
  <2>5. spi'[p] = d /\ chips'[p] = f /\ spi_slaves'[p] = spi_slaves[p]
    BY <2>4 DEF SpiInv, SpiTyped
  <2>6. PortOK(p)'
    BY <1>2, <2>2, <2>3, <2>5 DEF PortOK
  <2> QED BY <1>1, <1>2, <2>3, <2>4, <2>6, PortWritten
<1>3. CASE c.channels_active # {}
  <2>1. spi' = [spi EXCEPT ![p] = s] /\ chips' = [chips EXCEPT ![p] = c]
    BY <1>3 DEF DacSettle
  <2>2. spi'[p] = s /\ chips'[p] = c /\ spi_slaves'[p] = spi_slaves[p]
    BY <2>1 DEF SpiInv, SpiTyped
  <2>3. PortOK(p)'
    BY <1>3, <2>2 DEF PortOK, IsMaster
  <2> QED BY <1>1, <1>3, <2>1, <2>3, PortWritten
<1> QED BY <1>2, <1>3

\* chip_write touches the busy flag, tx_done and pin levels only.
SameButBusy(s, t) ==
    t.role = s.role /\ t.master_init = s.master_init /\ t.slave_init = s.slave_init

SameButDone(c, d) ==
    /\ d.initialized = c.initialized /\ d.channels_active = c.channels_active
    /\ d.mosi = c.mosi /\ d.sck = c.sck /\ d.cs = c.cs /\ d.ldac = c.ldac

LEMMA ChipWrite ==
    ASSUME NEW s \in SpiRec, NEW c \in ChipRec, NEW g, NEW w \in chip_write(s, c, g)
    PROVE  w.s \in SpiRec /\ w.c \in ChipRec /\ SameButBusy(s, w.s) /\ SameButDone(c, w.c)
<1>1. /\ [c EXCEPT !.tx_done = FALSE] \in ChipRec /\ SameButDone(c, [c EXCEPT !.tx_done = FALSE])
      /\ SameButBusy(s, s) /\ SameButDone(c, c)
      /\ \A b \in BOOLEAN : [s EXCEPT !.busy = b] \in SpiRec /\ SameButBusy(s, [s EXCEPT !.busy = b])
  BY DEF SpiRec, ChipRec, SameButBusy, SameButDone
<1>2. \/ w.s = s /\ w.c = c
      \/ w.s = s /\ w.c = [c EXCEPT !.tx_done = FALSE]
      \/ \E b \in BOOLEAN : w.s = [s EXCEPT !.busy = b] /\ w.c = [c EXCEPT !.tx_done = FALSE]
  <2>1. CASE spi_master_write_err(s) # "ERR_SUCCESS" /\ w \notin LateWithinWrite(s, c, g)
    <3>1. w = [err |-> "ERR_INTERNAL", s |-> s, c |-> c, g |-> drive_level(g, c.cs, "HIGH")]
      BY <2>1 DEF chip_write
    <3> QED BY <3>1
  <2>3. CASE w \in LateWithinWrite(s, c, g)
    <3>1. PICK b \in BOOLEAN : w = [err |-> "ERR_SUCCESS", s |-> [s EXCEPT !.busy = b],
                                    c |-> [c EXCEPT !.tx_done = FALSE], g |-> FrameDone(g, c)]
      BY <2>3, Zenon DEF LateWithinWrite
    <3>2. w.s = [s EXCEPT !.busy = b] /\ w.c = [c EXCEPT !.tx_done = FALSE]
      BY <3>1, Zenon
    <3> QED BY <3>2
  <2>2. CASE spi_master_write_err(s) = "ERR_SUCCESS"
    <3>1. PICK a, b, e, h, k : /\ a = [s EXCEPT !.busy = TRUE] /\ b = [c EXCEPT !.tx_done = FALSE]
                               /\ \/ w = [err |-> "ERR_SUCCESS", s |-> s, c |-> b, g |-> h]
                                  \/ w = [err |-> e, s |-> a, c |-> b, g |-> k]
      BY <2>2, Zenon DEF chip_write
    <3>2. CASE w = [err |-> "ERR_SUCCESS", s |-> s, c |-> b, g |-> h]
      BY <3>1, <3>2
    <3>3. CASE w = [err |-> e, s |-> a, c |-> b, g |-> k]
      BY <3>1, <3>3
    <3> QED BY <3>1, <3>2, <3>3
  <2> QED BY <2>1, <2>2, <2>3
<1> QED BY <1>1, <1>2

\* A channel more, or a channel less, in a chip's mask.
LEMMA DacEntryAdded ==
    ASSUME NEW c \in ChipRec, NEW ch \in DacChannels
    PROVE  /\ [c EXCEPT !.channels_active = @ \cup {ch}] \in ChipRec
           /\ [c EXCEPT !.channels_active = @ \cup {ch}].initialized = c.initialized
           /\ [c EXCEPT !.channels_active = @ \cup {ch}].channels_active = c.channels_active \cup {ch}
BY DEF ChipRec

LEMMA DacEntryRemoved ==
    ASSUME NEW c \in ChipRec, NEW ch \in DacChannels
    PROVE  /\ [c EXCEPT !.channels_active = @ \ {ch}] \in ChipRec
           /\ [c EXCEPT !.channels_active = @ \ {ch}].initialized = c.initialized
           /\ [c EXCEPT !.channels_active = @ \ {ch}].channels_active = c.channels_active \ {ch}
BY DEF ChipRec

\* A port that stays as it is but for its busy flag and tx_done.
LEMMA PortTouched ==
    ASSUME SpiInv, NEW p \in SpiPeriphs, NEW s \in SpiRec, NEW c \in ChipRec,
           SameButBusy(spi[p], s), SameButDone(chips[p], c), s.busy => s.role = "MASTER",
           spi' = [spi EXCEPT ![p] = s], chips' = [chips EXCEPT ![p] = c],
           UNCHANGED <<dac, spi_slaves>>
    PROVE  SpiInv' /\ Chips' = Chips /\ LiveDac' = LiveDac /\ LiveSpi' = LiveSpi
<1>1. /\ spi'[p] = s /\ chips'[p] = c /\ spi_slaves'[p] = spi_slaves[p]
      /\ spi_slaves' \in [SpiPeriphs -> SlaveRec] /\ DacPlaced'
      /\ \A q \in SpiPeriphs : ActiveChannels(q)' = ActiveChannels(q)
  BY DEF SpiInv, SpiTyped, DacPlaced, ActiveChannels
<1>2. PortOK(p)
  BY DEF SpiInv
<1>3. PortOK(p)'
  BY <1>1, <1>2 DEF PortOK, SameButBusy, SameButDone
<1>4. OtherPortsKept(p)
  BY <1>1 DEF OtherPortsKept
<1>5. SpiInv' /\ Chips' = IF c.initialized THEN Chips \cup {p} ELSE Chips \ {p}
  BY <1>1, <1>3, <1>4, PortWritten
<1>6. Chips' = Chips
  BY <1>5 DEF Chips, SameButDone
<1> QED BY <1>5, <1>6 DEF LiveDac, LiveSpi

\* Second half of a DAC setup: the chip that is up keeps its port; a chip with
\* no channel left over by a failure goes down again.
LEMMA DacAdd ==
    ASSUME SpiInv, TableOK, NEW cfg \in DacCfgs, NEW s \in SpiRec, NEW c \in ChipRec, NEW g, NEW h,
           IsMaster(s), c.initialized, ~spi_slaves[cfg.periph].in_use, UNCHANGED spi_slaves,
           c.channels_active = ActiveChannels(cfg.periph),
           ~dac[dac_slot_for(cfg.periph, cfg.channel)].in_use,
           DacAddChannel(cfg, s, c, g, h)
    PROVE  /\ SpiInv'
           /\ \/ /\ ret'.err # "ERR_SUCCESS" /\ ret'.id = PROTO_SENSOR_ID_NONE
                 /\ UNCHANGED <<managerVars, dac>> /\ heap' = DacHeap(h, c)
                 /\ Chips' = IF c.channels_active = {} THEN Chips \ {cfg.periph} ELSE Chips \cup {cfg.periph}
              \/ \E n \in DacIndex \ LiveDac :
                    /\ Accepted("DAC", n) /\ LiveDac' = LiveDac \cup {n}
                    /\ heap' = h /\ Chips' = Chips \cup {cfg.periph}
<1>1. PICK p \in SpiPeriphs : p = cfg.periph
  BY DacAssumption
<1>2. PICK ch \in DacChannels : ch = cfg.channel
  BY DacAssumption
<1>3. PICK n \in DacIndex : n = dac_slot_for(p, ch)
  BY <1>1, <1>2, DacSlotInTable
<1>4. n \notin LiveDac
  BY <1>1, <1>2, <1>3 DEF LiveDac
<1>5. PICK w \in chip_write(s, c, g) :
        \/ /\ w.err # "ERR_SUCCESS"
           /\ Reject(w.err) /\ DacSettle(p, w.s, w.c, w.g) /\ heap' = DacHeap(h, w.c)
           /\ UNCHANGED dac /\ UNCHANGED managerVars
        \/ /\ w.err = "ERR_SUCCESS"
           /\ \E id \in MaybeId :
                /\ sensor_manager_register("DAC", n, id)
                /\ IF id = PROTO_SENSOR_ID_NONE
                   THEN /\ Reject("ERR_OUT_OF_RESOURCES")
                        /\ DacSettle(p, w.s, w.c, w.g) /\ heap' = DacHeap(h, w.c) /\ UNCHANGED dac
                   ELSE /\ Return("ERR_SUCCESS", id)
                        /\ DacSettle(p, w.s, [w.c EXCEPT !.channels_active = @ \cup {ch}], w.g)
                        /\ dac' = [dac EXCEPT ![n] = [in_use |-> TRUE, periph |-> p, channel |-> ch]]
                        /\ heap' = h
  BY <1>1, <1>2, <1>3, Zenon DEF DacAddChannel
<1>6. w.s \in SpiRec /\ w.c \in ChipRec /\ SameButBusy(s, w.s) /\ SameButDone(c, w.c)
  BY <1>5, ChipWrite
<1>7. /\ IsMaster(w.s) /\ w.c.initialized /\ w.c.channels_active = ActiveChannels(p)
      /\ ~spi_slaves[p].in_use /\ w.c.channels_active = c.channels_active
  BY <1>1, <1>6 DEF IsMaster, SameButBusy, SameButDone
<1>8. ASSUME DacSettle(p, w.s, w.c, w.g), heap' = DacHeap(h, w.c), UNCHANGED dac, UNCHANGED managerVars,
             NEW err, err # "ERR_SUCCESS", Reject(err)
      PROVE  /\ SpiInv' /\ ret'.err # "ERR_SUCCESS" /\ ret'.id = PROTO_SENSOR_ID_NONE
             /\ UNCHANGED <<managerVars, dac>> /\ heap' = DacHeap(h, c)
             /\ Chips' = IF c.channels_active = {} THEN Chips \ {p} ELSE Chips \cup {p}
  <2>1. DacPlaced' /\ OtherPortsKept(p) /\ ActiveChannels(p)' = ActiveChannels(p)
    BY <1>8 DEF SpiInv, DacPlaced, OtherPortsKept, ActiveChannels
  <2>2. SpiInv' /\ Chips' = IF w.c.channels_active = {} THEN Chips \ {p} ELSE Chips \cup {p}
    BY <1>6, <1>7, <1>8, <2>1, PortSettled
  <2>3. ret'.err # "ERR_SUCCESS" /\ ret'.id = PROTO_SENSOR_ID_NONE
    BY <1>8, RejectFields
  <2>4. heap' = DacHeap(h, c)
    BY <1>7, <1>8 DEF DacHeap
  <2> QED BY <1>7, <1>8, <2>2, <2>3, <2>4
<1>9. ASSUME NEW id \in MaybeId, id # PROTO_SENSOR_ID_NONE, sensor_manager_register("DAC", n, id),
             Return("ERR_SUCCESS", id), heap' = h,
             DacSettle(p, w.s, [w.c EXCEPT !.channels_active = @ \cup {ch}], w.g),
             dac' = [dac EXCEPT ![n] = [in_use |-> TRUE, periph |-> p, channel |-> ch]]
      PROVE  /\ SpiInv' /\ Accepted("DAC", n) /\ LiveDac' = LiveDac \cup {n}
             /\ heap' = h /\ Chips' = Chips \cup {p}
  <2>1. PICK r \in DacRec : r = [in_use |-> TRUE, periph |-> p, channel |-> ch]
    BY DEF DacRec
  <2>2. r.in_use /\ r.periph = p /\ r.channel = ch /\ dac' = [dac EXCEPT ![dac_slot_for(p, ch)] = r]
    BY <1>3, <1>9, <2>1
  <2>3. /\ DacPlaced' /\ OtherPortsKept(p) /\ ActiveChannels(p)' = ActiveChannels(p) \cup {ch}
        /\ LiveDac' = LiveDac \cup {n}
    BY <1>3, <2>2, DacWritten DEF SpiInv, OtherPortsKept
  <2>4. PICK d \in ChipRec : /\ d = [w.c EXCEPT !.channels_active = @ \cup {ch}] /\ d.initialized
                             /\ d.channels_active = w.c.channels_active \cup {ch}
    <3>1. w.c \in ChipRec /\ w.c.initialized
      BY <1>6, <1>7
    <3>2. PICK y : y = [w.c EXCEPT !.channels_active = @ \cup {ch}]
      OBVIOUS
    <3>3. y \in ChipRec /\ y.initialized /\ y.channels_active = w.c.channels_active \cup {ch}
      BY <3>1, <3>2, DacEntryAdded
    <3> QED BY <3>2, <3>3
  <2>5. d.channels_active = ActiveChannels(p)' /\ d.channels_active # {}
    BY <1>7, <2>3, <2>4
  <2>6. DacSettle(p, w.s, d, w.g)
    BY <1>9, <2>4
  <2>7. SpiInv' /\ Chips' = Chips \cup {p}
    BY <1>6, <1>7, <2>3, <2>4, <2>5, <2>6, PortSettled
  <2>8. Accepted("DAC", n)
    BY <1>9 DEF Accepted, Return
  <2> QED BY <1>9, <2>3, <2>7, <2>8
<1>10. CASE w.err # "ERR_SUCCESS"
  BY <1>1, <1>5, <1>8, <1>10
<1>11. CASE w.err = "ERR_SUCCESS"
  <2>1. PICK id \in MaybeId :
                /\ sensor_manager_register("DAC", n, id)
                /\ IF id = PROTO_SENSOR_ID_NONE
                   THEN /\ Reject("ERR_OUT_OF_RESOURCES")
                        /\ DacSettle(p, w.s, w.c, w.g) /\ heap' = DacHeap(h, w.c) /\ UNCHANGED dac
                   ELSE /\ Return("ERR_SUCCESS", id)
                        /\ DacSettle(p, w.s, [w.c EXCEPT !.channels_active = @ \cup {ch}], w.g)
                        /\ dac' = [dac EXCEPT ![n] = [in_use |-> TRUE, periph |-> p, channel |-> ch]]
                        /\ heap' = h
    BY <1>5, <1>11, Zenon
  <2>2. CASE id = PROTO_SENSOR_ID_NONE
    <3>1. UNCHANGED managerVars
      BY <2>1, <2>2, RegisterFails
    <3> QED BY <1>1, <1>8, <2>1, <2>2, <3>1
  <2>3. CASE id # PROTO_SENSOR_ID_NONE
    BY <1>1, <1>4, <1>9, <2>1, <2>3
  <2> QED BY <2>2, <2>3
<1> QED BY <1>10, <1>11

\* The heap follows the chips: one semaphore each.
ChipsBalanced ==
    \/ Chips' = Chips /\ heap' = heap
    \/ \E p \in SpiPeriphs \ Chips : Chips' = Chips \cup {p} /\ heap' = heap + 1
    \/ \E p \in Chips : Chips' = Chips \ {p} /\ heap' = heap - 1

DacSetupDone ==
    /\ SpiInv' /\ ChipsBalanced
    /\ \/ Refused /\ UNCHANGED dac
       \/ \E n \in DacIndex \ LiveDac : Accepted("DAC", n) /\ LiveDac' = LiveDac \cup {n}

\* A port with a chip is a master without a slave sensor, a free port has
\* neither.
LEMMA PortRoles ==
    ASSUME SpiInv, NEW p \in SpiPeriphs
    PROVE  /\ chips[p].initialized => IsMaster(spi[p]) /\ ~spi_slaves[p].in_use
           /\ spi[p].role = "NONE" =>
                /\ ~chips[p].initialized /\ ~spi_slaves[p].in_use /\ ~spi[p].slave_init
                /\ ActiveChannels(p) = {} /\ ~spi[p].busy /\ ~spi[p].master_init
BY DEF SpiInv, PortOK, IsMaster

\* dac_sensor_setup on a chip that is down: pins, semaphore, SPI master.
LEMMA DacBringsUp ==
    ASSUME SpiInv, TableOK, heap \in Nat, NEW cfg \in DacCfgs, UNCHANGED spi_slaves,
           ~chips[cfg.periph].initialized, ~dac[dac_slot_for(cfg.periph, cfg.channel)].in_use,
           DacBringUp(cfg)
    PROVE  DacSetupDone
<1>1. PICK p \in SpiPeriphs : p = cfg.periph
  BY DacAssumption
<1>2. p \notin Chips
  BY <1>1 DEF Chips
<1>3. PICK g1, c1, s1 :
        /\ s1 = spi_master_init(spi[p])
        /\ c1 = [initialized |-> TRUE, clock |-> cfg.clock, mosi |-> cfg.mosi, sck |-> cfg.sck,
                 cs |-> cfg.cs, ldac |-> IF LdacEnabled(cfg) THEN cfg.ldac ELSE <<"NULL", 0>>,
                 channels_active |-> {}, tx_done |-> FALSE]
        /\ \/ /\ spi_claim_err(spi[p]) # "ERR_SUCCESS"
              /\ Reject("ERR_INVALID_PARAMETER")
              /\ UNCHANGED <<managerVars, heap, spi, dacVars>>
           \/ /\ spi_claim_err(spi[p]) = "ERR_SUCCESS"
              /\ IF cfg.reference = "EXTERNAL"
                 THEN DacAddChannel(cfg, s1, c1, g1, heap + 1)
                 ELSE \E w \in chip_write(s1, c1, g1) :
                        IF w.err = "ERR_SUCCESS"
                        THEN DacAddChannel(cfg, w.s, w.c, w.g, heap + 1)
                        ELSE /\ Reject(w.err)
                             /\ DacSettle(p, w.s, w.c, w.g)
                             /\ heap' = DacHeap(heap + 1, c1)
                             /\ UNCHANGED <<managerVars, dac>>
  BY <1>1, Zenon DEF DacBringUp
<1>4. CASE /\ spi_claim_err(spi[p]) # "ERR_SUCCESS" /\ Reject("ERR_INVALID_PARAMETER")
           /\ UNCHANGED <<managerVars, heap, spi, dacVars>>
  <2>1. Refused
    BY <1>4, RejectFields DEF Refused
  <2>2. UNCHANGED <<dac, chips, spi, heap>>
    BY <1>4 DEF dacVars
  <2>3. SpiInv'
    BY <2>2 DEF SpiInv, SpiTyped, DacPlaced, PortOK, ActiveChannels
  <2>4. ChipsBalanced
    BY <2>2 DEF ChipsBalanced, Chips
  <2> QED BY <2>1, <2>2, <2>3, <2>4 DEF DacSetupDone
<1>5. CASE spi_claim_err(spi[p]) = "ERR_SUCCESS"
  <2>1. /\ spi[p] \in SpiRec /\ spi[p].role = "NONE" /\ ~spi[p].slave_init
        /\ ~spi_slaves[p].in_use /\ ActiveChannels(p) = {}
    BY <1>5, PortRoles DEF spi_claim_err, SpiInv, SpiTyped
  <2>2. s1 \in SpiRec /\ IsMaster(s1)
    BY <1>3, <2>1 DEF spi_master_init, spi_claim, IsMaster, SpiRec
  <2>3. /\ cfg.clock \in Nat /\ cfg.mosi \in Pins /\ cfg.sck \in Pins /\ cfg.cs \in Pins
        /\ LdacEnabled(cfg) => cfg.ldac \in Pins
    BY DacAssumption DEF LdacEnabled
  <2>4. c1 \in ChipRec /\ c1.initialized /\ c1.channels_active = {}
    <3>1. (IF LdacEnabled(cfg) THEN cfg.ldac ELSE <<"NULL", 0>>) \in Pins \cup {<<"NULL", 0>>}
      BY <2>3
    <3>2. PICK l \in Pins \cup {<<"NULL", 0>>} : l = IF LdacEnabled(cfg) THEN cfg.ldac ELSE <<"NULL", 0>>
      BY <3>1
    <3>3. c1 = [initialized |-> TRUE, clock |-> cfg.clock, mosi |-> cfg.mosi, sck |-> cfg.sck,
                cs |-> cfg.cs, ldac |-> l, channels_active |-> {}, tx_done |-> FALSE]
      BY <1>3, <3>2
    <3> QED BY <2>3, <3>3 DEF ChipRec
  <2>5. ASSUME NEW s \in SpiRec, NEW c \in ChipRec, NEW g, IsMaster(s), c.initialized,
               c.channels_active = {}, DacAddChannel(cfg, s, c, g, heap + 1)
        PROVE  DacSetupDone
    <3>1. PICK h : h = heap + 1
      OBVIOUS
    <3>2. c.channels_active = ActiveChannels(cfg.periph) /\ ~spi_slaves[cfg.periph].in_use
      BY <1>1, <2>1, <2>5
    <3>3. DacAddChannel(cfg, s, c, g, h)
      BY <2>5, <3>1
    <3>4. /\ SpiInv'
          /\ \/ /\ ret'.err # "ERR_SUCCESS" /\ ret'.id = PROTO_SENSOR_ID_NONE
                /\ UNCHANGED <<managerVars, dac>> /\ heap' = DacHeap(h, c)
                /\ Chips' = IF c.channels_active = {} THEN Chips \ {cfg.periph} ELSE Chips \cup {cfg.periph}
             \/ \E n \in DacIndex \ LiveDac :
                   /\ Accepted("DAC", n) /\ LiveDac' = LiveDac \cup {n}
                   /\ heap' = h /\ Chips' = Chips \cup {cfg.periph}
      BY <2>5, <3>2, <3>3, DacAdd
    <3>5. /\ SpiInv'
          /\ \/ /\ ret'.err # "ERR_SUCCESS" /\ ret'.id = PROTO_SENSOR_ID_NONE
                /\ UNCHANGED <<managerVars, dac>> /\ heap' = DacHeap(heap + 1, c)
                /\ Chips' = Chips \ {p}
             \/ \E n \in DacIndex \ LiveDac :
                   /\ Accepted("DAC", n) /\ LiveDac' = LiveDac \cup {n}
                   /\ heap' = heap + 1 /\ Chips' = Chips \cup {p}
      BY <1>1, <2>5, <3>1, <3>4
    <3>6. CASE /\ ret'.err # "ERR_SUCCESS" /\ ret'.id = PROTO_SENSOR_ID_NONE
               /\ UNCHANGED <<managerVars, dac>> /\ heap' = DacHeap(heap + 1, c)
               /\ Chips' = Chips \ {p}
      <4>1. heap' = heap /\ Chips' = Chips
        BY <1>2, <2>5, <3>6 DEF DacHeap
      <4> QED BY <3>5, <3>6, <4>1 DEF DacSetupDone, ChipsBalanced, Refused
    <3> QED BY <1>2, <3>5, <3>6 DEF DacSetupDone, ChipsBalanced
  <2>6. CASE DacAddChannel(cfg, s1, c1, g1, heap + 1)
    BY <2>2, <2>4, <2>5, <2>6
  <2>7. ASSUME NEW w \in chip_write(s1, c1, g1)
        PROVE  /\ w.s \in SpiRec /\ w.c \in ChipRec /\ IsMaster(w.s)
               /\ w.c.initialized /\ w.c.channels_active = {}
    BY <2>2, <2>4, ChipWrite DEF SameButBusy, SameButDone, IsMaster
  <2>8. ASSUME NEW w \in chip_write(s1, c1, g1), w.err = "ERR_SUCCESS",
               DacAddChannel(cfg, w.s, w.c, w.g, heap + 1)
        PROVE  DacSetupDone
    BY <2>5, <2>7, <2>8
  <2>9. ASSUME NEW w \in chip_write(s1, c1, g1), w.err # "ERR_SUCCESS", Reject(w.err),
               DacSettle(p, w.s, w.c, w.g), heap' = DacHeap(heap + 1, c1),
               UNCHANGED <<managerVars, dac>>
        PROVE  DacSetupDone
    <3>1. heap' = heap
      BY <2>4, <2>9 DEF DacHeap
    <3>2. DacPlaced' /\ OtherPortsKept(p) /\ ActiveChannels(p)' = {}
      BY <2>1, <2>9 DEF SpiInv, DacPlaced, OtherPortsKept, ActiveChannels
    <3>3. SpiInv' /\ Chips' = Chips \ {p}
      BY <2>1, <2>7, <2>9, <3>2, PortSettled
    <3>4. Refused
      BY <2>9, <3>1, RejectFields DEF Refused
    <3> QED BY <1>2, <2>9, <3>1, <3>3, <3>4 DEF DacSetupDone, ChipsBalanced
  <2> QED BY <1>3, <1>5, <2>6, <2>8, <2>9
<1> QED BY <1>3, <1>4, <1>5

LEMMA DacSetup ==
    ASSUME SpiInv, TableOK, heap \in Nat, NEW cfg \in DacCfgs, UNCHANGED spi_slaves, dac_sensor_setup(cfg)
    PROVE  DacSetupDone
<1>1. PICK p \in SpiPeriphs : p = cfg.periph
  BY DacAssumption
<1>2. CASE \E err : err # "ERR_SUCCESS" /\ DacReject(err)
  <2>1. Refused /\ UNCHANGED <<dac, chips, spi, heap>>
    BY <1>2, RejectFields DEF DacReject, Refused, backendVars, dacVars
  <2>2. SpiInv'
    BY <2>1 DEF SpiInv, SpiTyped, DacPlaced, PortOK, ActiveChannels
  <2> QED BY <2>1, <2>2 DEF DacSetupDone, ChipsBalanced, Chips
<1>3. CASE dac_setup_err(cfg) = "ERR_SUCCESS"
  <2>1. ~dac[dac_slot_for(cfg.periph, cfg.channel)].in_use
    BY <1>3 DEF dac_setup_err
  <2>2. CASE chips[p].initialized
    <3>1. IsMaster(spi[p]) /\ ~spi_slaves[p].in_use
      BY <2>2, PortRoles
    <3>2. /\ spi[p] \in SpiRec /\ chips[p] \in ChipRec /\ p \in Chips
          /\ chips[p].channels_active = ActiveChannels(p) /\ chips[p].channels_active # {}
      BY <2>2 DEF SpiInv, SpiTyped, PortOK, Chips
    <3>3. DacAddChannel(cfg, spi[p], chips[p], gpio, heap)
      BY <1>1, <1>3, <2>2 DEF dac_sensor_setup
    <3>4. /\ SpiInv'
          /\ \/ /\ ret'.err # "ERR_SUCCESS" /\ ret'.id = PROTO_SENSOR_ID_NONE
                /\ UNCHANGED <<managerVars, dac>> /\ heap' = DacHeap(heap, chips[p])
                /\ Chips' = Chips \cup {p}
             \/ \E n \in DacIndex \ LiveDac :
                   /\ Accepted("DAC", n) /\ LiveDac' = LiveDac \cup {n}
                   /\ heap' = heap /\ Chips' = Chips \cup {p}
      BY <1>1, <2>1, <2>2, <3>1, <3>2, <3>3, DacAdd
    <3>5. Chips \cup {p} = Chips /\ DacHeap(heap, chips[p]) = heap
      BY <3>2 DEF DacHeap
    <3> QED BY <3>4, <3>5 DEF DacSetupDone, ChipsBalanced, Refused
  <2>3. CASE ~chips[p].initialized
    BY <1>1, <1>3, <2>1, <2>3, DacBringsUp DEF dac_sensor_setup
  <2> QED BY <2>2, <2>3
<1> QED BY <1>2, <1>3 DEF dac_sensor_setup

\* A set-output writes to a chip that is up.
LEMMA DacSet ==
    ASSUME SpiInv, NEW idx \in LiveDac, NEW v \in DacValues, dac_sensor_set_output(idx, v),
           UNCHANGED spi_slaves
    PROVE  SpiInv' /\ Chips' = Chips /\ LiveDac' = LiveDac /\ UNCHANGED <<managerVars, heap>>
<1>1. CASE \E err : DacReject(err)
  <2>1. UNCHANGED <<managerVars, heap, dac, chips, spi>>
    BY <1>1 DEF DacReject, backendVars, dacVars
  <2> QED BY <2>1 DEF SpiInv, SpiTyped, DacPlaced, PortOK, ActiveChannels, Chips, LiveDac
<1>2. CASE dac_values_err(idx, v) = "ERR_SUCCESS"
  <2>1. PICK p \in SpiPeriphs : p = dac[idx].periph
    BY DEF LiveDac, SpiInv, DacPlaced, DacRec
  <2>2. chips[p].initialized
    BY <1>2, <2>1 DEF dac_values_err
  <2>3. PICK w \in chip_write(spi[p], chips[p], gpio) :
             /\ spi' = [spi EXCEPT ![p] = w.s]
             /\ chips' = [chips EXCEPT ![p] = w.c]
             /\ UNCHANGED <<managerVars, heap, dac>>
    BY <1>2, <2>1 DEF dac_sensor_set_output
  <2>4. spi[p] \in SpiRec /\ chips[p] \in ChipRec /\ spi[p].role = "MASTER"
    BY <2>2 DEF SpiInv, SpiTyped, PortOK
  <2>5. w.s \in SpiRec /\ w.c \in ChipRec /\ SameButBusy(spi[p], w.s) /\ SameButDone(chips[p], w.c)
    BY <2>3, <2>4, ChipWrite
  <2>6. w.s.role = "MASTER"
    BY <2>4, <2>5 DEF SameButBusy
  <2> QED BY <2>3, <2>5, <2>6, PortTouched
<1> QED BY <1>1, <1>2 DEF dac_sensor_set_output

\* The last channel takes the chip, its claim and its semaphore with it.
LEMMA DacStop ==
    ASSUME SpiInv, heap \in Nat, NEW idx \in LiveDac, dac_sensor_stop(idx), UNCHANGED spi_slaves
    PROVE  SpiInv' /\ LiveDac' = LiveDac \ {idx} /\ ChipsBalanced /\ ret'.err = "ERR_SUCCESS"
<1>1. idx \in DacIndex /\ dac[idx].in_use /\ dac[idx] \in DacRec
  BY DEF LiveDac, SpiInv, DacPlaced
<1>2. PICK p \in SpiPeriphs : p = dac[idx].periph
  BY <1>1 DEF DacRec
<1>3. PICK ch \in DacChannels : ch = dac[idx].channel
  BY <1>1 DEF DacRec
<1>4. idx = dac_slot_for(p, ch)
  BY <1>1, <1>2, <1>3 DEF SpiInv, DacPlaced
<1>5. ch \in chips[p].channels_active /\ chips[p].channels_active = ActiveChannels(p) /\ chips[p].initialized
  BY <1>1, <1>4 DEF SpiInv, PortOK, ActiveChannels
<1>6. IsMaster(spi[p]) /\ ~spi_slaves[p].in_use /\ spi[p] \in SpiRec /\ chips[p] \in ChipRec /\ p \in Chips
  BY <1>5, PortRoles DEF SpiInv, SpiTyped, Chips
<1>7. PICK c \in ChipRec : /\ c = [chips[p] EXCEPT !.channels_active = @ \ {ch}] /\ c.initialized
                           /\ c.channels_active = chips[p].channels_active \ {ch}
  <2>1. PICK x \in ChipRec : x = chips[p] /\ x.initialized
    BY <1>5, <1>6
  <2>2. /\ [x EXCEPT !.channels_active = @ \ {ch}] \in ChipRec
        /\ [x EXCEPT !.channels_active = @ \ {ch}].initialized = x.initialized
        /\ [x EXCEPT !.channels_active = @ \ {ch}].channels_active = x.channels_active \ {ch}
    BY DacEntryRemoved
  <2>3. PICK c \in ChipRec : /\ c = [x EXCEPT !.channels_active = @ \ {ch}] /\ c.initialized
                             /\ c.channels_active = x.channels_active \ {ch}
    BY <2>1, <2>2
  <2> QED BY <2>1, <2>3
<1>8. /\ ret'.err = "ERR_SUCCESS" /\ dac' = [dac EXCEPT ![idx] = DacFree]
      /\ DacSettle(p, spi[p], c, gpio) /\ heap' = DacHeap(heap, c)
  BY <1>1, <1>2, <1>3, <1>7, ReturnFields DEF dac_sensor_stop
<1>9. DacFree \in DacRec /\ ~DacFree.in_use
  BY SpiAssumption, DacAssumption DEF DacFree, DacRec, SpiPeriphs, DacChannels
<1>10. /\ DacPlaced' /\ OtherPortsKept(p) /\ ActiveChannels(p)' = ActiveChannels(p) \ {ch}
       /\ LiveDac' = LiveDac \ {idx}
  BY <1>4, <1>8, <1>9, DacWritten DEF SpiInv, OtherPortsKept
<1>11. SpiInv' /\ Chips' = IF c.channels_active = {} THEN Chips \ {p} ELSE Chips \cup {p}
  BY <1>5, <1>6, <1>7, <1>8, <1>10, PortSettled
<1>12. ChipsBalanced
  BY <1>6, <1>8, <1>11 DEF ChipsBalanced, DacHeap
<1> QED BY <1>8, <1>10, <1>11, <1>12

\* A late completion only ever finds a port that is still a master.
LEMMA DacLate ==
    ASSUME SpiInv, NEW p \in SpiPeriphs, spi_done_callback(p), UNCHANGED spi_slaves
    PROVE  SpiInv' /\ Chips' = Chips /\ LiveDac' = LiveDac /\ UNCHANGED <<managerVars, heap>>
<1>1. spi[p] \in SpiRec /\ chips[p] \in ChipRec
  BY DEF SpiInv, SpiTyped
<1>2. PICK s \in SpiRec : s = [spi[p] EXCEPT !.busy = FALSE] /\ SameButBusy(spi[p], s) /\ ~s.busy
  <2>1. /\ [spi[p] EXCEPT !.busy = FALSE] \in SpiRec /\ ~[spi[p] EXCEPT !.busy = FALSE].busy
        /\ SameButBusy(spi[p], [spi[p] EXCEPT !.busy = FALSE])
    BY <1>1 DEF SpiRec, SameButBusy
  <2> QED BY <2>1
<1>3. PICK c \in ChipRec : c = [chips[p] EXCEPT !.tx_done = TRUE] /\ SameButDone(chips[p], c)
  <2>1. /\ [chips[p] EXCEPT !.tx_done = TRUE] \in ChipRec
        /\ SameButDone(chips[p], [chips[p] EXCEPT !.tx_done = TRUE])
    BY <1>1 DEF ChipRec, SameButDone
  <2> QED BY <2>1
<1>4. /\ spi' = [spi EXCEPT ![p] = s] /\ chips' = [chips EXCEPT ![p] = c]
      /\ UNCHANGED <<managerVars, heap, dac>>
  BY <1>2, <1>3 DEF spi_done_callback
<1> QED BY <1>2, <1>3, <1>4, PortTouched

\* A slave sensor is put on a port or taken off it; no chip is there.
LEMMA SlaveWritten ==
    ASSUME SpiInv, NEW p \in SpiPeriphs, NEW s \in SpiRec, NEW r \in SlaveRec,
           ~chips[p].initialized, ~s.master_init, ~s.busy, s.role \in {"NONE", "SLAVE"},
           (s.role = "SLAVE") <=> r.in_use, s.slave_init <=> r.in_use,
           spi' = [spi EXCEPT ![p] = s], spi_slaves' = [spi_slaves EXCEPT ![p] = r],
           UNCHANGED dacVars
    PROVE  /\ SpiInv' /\ Chips' = Chips /\ LiveDac' = LiveDac
           /\ LiveSpi' = IF r.in_use THEN LiveSpi \cup {p} ELSE LiveSpi \ {p}
<1>1. chips' = chips /\ dac' = dac
  BY DEF dacVars
<1>2. /\ chips' = [chips EXCEPT ![p] = chips[p]] /\ chips[p] \in ChipRec
      /\ spi_slaves' \in [SpiPeriphs -> SlaveRec] /\ DacPlaced'
      /\ \A q \in SpiPeriphs : ActiveChannels(q)' = ActiveChannels(q)
  BY <1>1 DEF SpiInv, SpiTyped, DacPlaced, ActiveChannels
<1>3. spi'[p] = s /\ spi_slaves'[p] = r /\ chips'[p] = chips[p]
      /\ \A q \in SpiPeriphs : q # p => spi_slaves'[q] = spi_slaves[q]
  BY <1>1 DEF SpiInv, SpiTyped
<1>4. OtherPortsKept(p)
  BY <1>2, <1>3 DEF OtherPortsKept
<1>5. PortOK(p)
  BY DEF SpiInv
<1>6. PortOK(p)'
  BY <1>2, <1>3, <1>5 DEF PortOK
<1>7. SpiInv' /\ Chips' = Chips \ {p}
  BY <1>2, <1>4, <1>6, PortWritten
<1>8. Chips' = Chips
  BY <1>7 DEF Chips
<1>9. LiveSpi' = IF r.in_use THEN LiveSpi \cup {p} ELSE LiveSpi \ {p}
  BY <1>3 DEF LiveSpi
<1> QED BY <1>1, <1>7, <1>8, <1>9 DEF LiveDac

\* Nothing but pins, answers and the table has changed.
LEMMA PortsUnchanged ==
    ASSUME SpiInv, UNCHANGED <<spi, spi_slaves, dacVars>>
    PROVE  SpiInv' /\ Chips' = Chips /\ LiveDac' = LiveDac /\ LiveSpi' = LiveSpi
<1>1. spi' = spi /\ spi_slaves' = spi_slaves /\ chips' = chips /\ dac' = dac
  BY DEF dacVars
<1>2. ASSUME NEW p \in SpiPeriphs PROVE PortOK(p)'
  <2>1. PortOK(p)
    BY DEF SpiInv
  <2> QED BY <1>1, <2>1 DEF PortOK, ActiveChannels
<1> QED BY <1>1, <1>2 DEF SpiInv, SpiTyped, DacPlaced, Chips, LiveDac, LiveSpi

LEMMA SlaveSetup ==
    ASSUME SpiInv, TableOK, NEW cfg \in SpiSlaveCfgs, spi_slave_sensor_setup(cfg), UNCHANGED dacVars
    PROVE  /\ SpiInv' /\ Chips' = Chips /\ LiveDac' = LiveDac
           /\ \/ Refused /\ UNCHANGED spi_slaves
              \/ \E n \in SpiPeriphs \ LiveSpi :
                    Accepted("SPI", n) /\ LiveSpi' = LiveSpi \cup {n} /\ heap' = heap
<1>1. PICK p \in SpiPeriphs : p = cfg.periph
  BY SpiSlaveAssumption
<1>2. CASE \E err : /\ err # "ERR_SUCCESS" /\ Reject(err)
                    /\ UNCHANGED <<managerVars, heap, spi, spi_slaves>>
  <2>1. Refused
    BY <1>2, RejectFields DEF Refused
  <2> QED BY <1>2, <2>1, PortsUnchanged
<1>3. CASE /\ ~spi_slaves[p].in_use /\ spi_claim_err(spi[p]) = "ERR_SUCCESS"
           /\ SpiSlaveInstall(cfg)
  <2>1. /\ spi[p] \in SpiRec /\ spi[p].role = "NONE" /\ ~chips[p].initialized
        /\ ~spi[p].busy /\ ~spi[p].master_init /\ cfg.buf \in SpiTxBufs /\ cfg.pins \in SUBSET Pins
    BY <1>3, PortRoles, SpiSlaveAssumption DEF spi_claim_err, SpiInv, SpiTyped
  <2>2. PICK id \in MaybeId :
        /\ sensor_manager_register("SPI", p, id)
        /\ UNCHANGED heap
        /\ IF id = PROTO_SENSOR_ID_NONE
           THEN /\ Reject("ERR_OUT_OF_RESOURCES")
                /\ spi' = [spi EXCEPT ![p] = spi_slave_deinit(spi_slave_init(@))]
                /\ UNCHANGED spi_slaves
           ELSE /\ Return("ERR_SUCCESS", id)
                /\ spi' = [spi EXCEPT ![p] = spi_slave_set_tx(spi_slave_init(@), cfg.buf)]
                /\ spi_slaves' = [spi_slaves EXCEPT ![p] = [in_use |-> TRUE, pins |-> cfg.pins]]
    BY <1>1, <1>3 DEF SpiSlaveInstall
  <2>3. PICK x \in SpiRec : x = spi[p] /\ x.role = "NONE" /\ ~x.busy /\ ~x.master_init
    BY <2>1
  <2>4. CASE id = PROTO_SENSOR_ID_NONE
    <3>1. /\ spi_slave_deinit(spi_slave_init(x)) \in SpiRec
          /\ ~spi_slave_deinit(spi_slave_init(x)).master_init
          /\ ~spi_slave_deinit(spi_slave_init(x)).busy
          /\ spi_slave_deinit(spi_slave_init(x)).role = "NONE"
          /\ ~spi_slave_deinit(spi_slave_init(x)).slave_init
      BY <2>3 DEF spi_slave_deinit, spi_slave_init, spi_claim, spi_release, SpiRec
    <3>2. PICK s \in SpiRec : /\ s = spi_slave_deinit(spi_slave_init(x)) /\ ~s.master_init /\ ~s.busy
                              /\ s.role = "NONE" /\ ~s.slave_init
      BY <3>1
    <3>3. spi' = [spi EXCEPT ![p] = s] /\ UNCHANGED spi_slaves
      BY <2>2, <2>3, <2>4, <3>2
    <3>4. PICK r \in SlaveRec : r = spi_slaves[p] /\ ~r.in_use /\ spi_slaves' = [spi_slaves EXCEPT ![p] = r]
      BY <1>3, <3>3 DEF SpiInv, SpiTyped
    <3>5. SpiInv' /\ Chips' = Chips /\ LiveDac' = LiveDac
      BY <2>1, <3>2, <3>3, <3>4, SlaveWritten
    <3>6. UNCHANGED managerVars
      BY <2>2, <2>4, RegisterFails
    <3>7. Refused
      BY <2>2, <2>4, <3>6, RejectFields DEF Refused
    <3> QED BY <3>3, <3>5, <3>7
  <2>5. CASE id # PROTO_SENSOR_ID_NONE
    <3>1. /\ spi_slave_set_tx(spi_slave_init(x), cfg.buf) \in SpiRec
          /\ ~spi_slave_set_tx(spi_slave_init(x), cfg.buf).master_init
          /\ ~spi_slave_set_tx(spi_slave_init(x), cfg.buf).busy
          /\ spi_slave_set_tx(spi_slave_init(x), cfg.buf).role = "SLAVE"
          /\ spi_slave_set_tx(spi_slave_init(x), cfg.buf).slave_init
      BY <2>1, <2>3 DEF spi_slave_set_tx, spi_slave_init, spi_claim, SpiRec
    <3>2. PICK s \in SpiRec : /\ s = spi_slave_set_tx(spi_slave_init(x), cfg.buf) /\ ~s.master_init
                              /\ ~s.busy /\ s.role = "SLAVE" /\ s.slave_init
      BY <3>1
    <3>3. PICK r \in SlaveRec : r = [in_use |-> TRUE, pins |-> cfg.pins] /\ r.in_use
      <4>1. [in_use |-> TRUE, pins |-> cfg.pins] \in SlaveRec
        BY <2>1 DEF SlaveRec
      <4> QED BY <4>1
    <3>4. spi' = [spi EXCEPT ![p] = s] /\ spi_slaves' = [spi_slaves EXCEPT ![p] = r]
      BY <2>2, <2>3, <2>5, <3>2, <3>3
    <3>5. SpiInv' /\ Chips' = Chips /\ LiveDac' = LiveDac /\ LiveSpi' = LiveSpi \cup {p}
      BY <2>1, <3>2, <3>3, <3>4, SlaveWritten
    <3>6. Accepted("SPI", p) /\ p \in SpiPeriphs \ LiveSpi /\ heap' = heap
      BY <1>3, <2>2, <2>5 DEF Accepted, Return, LiveSpi
    <3> QED BY <3>5, <3>6
  <2> QED BY <2>4, <2>5
<1>4. ASSUME NEW err, err # "ERR_SUCCESS", SpiSlaveReject(err)
      PROVE  /\ err # "ERR_SUCCESS" /\ Reject(err)
             /\ UNCHANGED <<managerVars, heap, spi, spi_slaves>>
  BY <1>4 DEF SpiSlaveReject, backendVars
<1> QED BY <1>1, <1>2, <1>3, <1>4 DEF spi_slave_sensor_setup

LEMMA SlaveSet ==
    ASSUME SpiInv, NEW p \in LiveSpi, NEW v \in SpiSlaveValues, spi_slave_sensor_set_output(p, v),
           UNCHANGED dacVars
    PROVE  /\ SpiInv' /\ Chips' = Chips /\ LiveDac' = LiveDac /\ LiveSpi' = LiveSpi
           /\ UNCHANGED <<managerVars, heap>>
<1>1. CASE \E err : SpiSlaveReject(err)
  <2>1. UNCHANGED <<managerVars, heap, spi, spi_slaves>>
    BY <1>1 DEF SpiSlaveReject, backendVars
  <2> QED BY <2>1, PortsUnchanged
<1>2. CASE spi_slave_values_err(p, v) = "ERR_SUCCESS"
  <2>1. p \in SpiPeriphs /\ spi_slaves[p].in_use /\ PortOK(p) /\ spi[p] \in SpiRec /\ v.buf \in SpiTxBufs
    BY SpiSlaveAssumption DEF LiveSpi, SpiInv, SpiTyped
  <2>2. /\ spi' = [spi EXCEPT ![p] = spi_slave_set_tx(@, v.buf)]
        /\ UNCHANGED <<managerVars, heap, spi_slaves>>
    BY <1>2 DEF spi_slave_sensor_set_output, backendVars
  <2>3. PICK x \in SpiRec : /\ x = spi[p] /\ x.role = "SLAVE" /\ ~x.master_init /\ ~x.busy
                            /\ x.slave_init /\ ~chips[p].initialized
    BY <2>1 DEF PortOK
  <2>4. /\ spi_slave_set_tx(x, v.buf) \in SpiRec /\ spi_slave_set_tx(x, v.buf).role = "SLAVE"
        /\ ~spi_slave_set_tx(x, v.buf).master_init /\ ~spi_slave_set_tx(x, v.buf).busy
        /\ spi_slave_set_tx(x, v.buf).slave_init
    BY <2>1, <2>3 DEF spi_slave_set_tx, SpiRec
  <2>5. PICK s \in SpiRec : /\ s = spi_slave_set_tx(x, v.buf) /\ s.role = "SLAVE" /\ ~s.master_init
                            /\ ~s.busy /\ s.slave_init
    BY <2>4
  <2>6. spi' = [spi EXCEPT ![p] = s] /\ spi_slaves' = [spi_slaves EXCEPT ![p] = spi_slaves[p]]
        /\ spi_slaves[p] \in SlaveRec
    BY <2>1, <2>2, <2>3, <2>5 DEF SpiInv, SpiTyped
  <2>7. SpiInv' /\ Chips' = Chips /\ LiveDac' = LiveDac
    BY <2>1, <2>3, <2>5, <2>6, SlaveWritten
  <2> QED BY <2>2, <2>7 DEF LiveSpi
<1> QED BY <1>1, <1>2 DEF spi_slave_sensor_set_output

LEMMA SlaveStop ==
    ASSUME SpiInv, NEW p \in LiveSpi, spi_slave_sensor_stop(p), UNCHANGED dacVars
    PROVE  /\ SpiInv' /\ Chips' = Chips /\ LiveDac' = LiveDac /\ LiveSpi' = LiveSpi \ {p}
           /\ heap' = heap /\ ret'.err = "ERR_SUCCESS"
<1>1. p \in SpiPeriphs /\ spi_slaves[p].in_use /\ PortOK(p) /\ spi[p] \in SpiRec
  BY DEF LiveSpi, SpiInv, SpiTyped
<1>2. /\ spi' = [spi EXCEPT ![p] = spi_slave_deinit(@)]
      /\ spi_slaves' = [spi_slaves EXCEPT ![p] = SpiSlaveFree]
      /\ heap' = heap /\ ret'.err = "ERR_SUCCESS"
  BY <1>1, ReturnFields DEF spi_slave_sensor_stop
<1>3. PICK x \in SpiRec : x = spi[p] /\ ~x.master_init /\ ~x.busy /\ ~chips[p].initialized
  BY <1>1 DEF PortOK
<1>4. /\ spi_slave_deinit(x) \in SpiRec /\ spi_slave_deinit(x).role = "NONE"
      /\ ~spi_slave_deinit(x).master_init /\ ~spi_slave_deinit(x).busy /\ ~spi_slave_deinit(x).slave_init
  BY <1>3 DEF spi_slave_deinit, spi_release, SpiRec
<1>5. PICK s \in SpiRec : /\ s = spi_slave_deinit(x) /\ s.role = "NONE" /\ ~s.master_init
                          /\ ~s.busy /\ ~s.slave_init
  BY <1>4
<1>6. SpiSlaveFree \in SlaveRec /\ ~SpiSlaveFree.in_use
  BY DEF SpiSlaveFree, SlaveRec
<1>7. spi' = [spi EXCEPT ![p] = s]
  BY <1>2, <1>3, <1>5
<1>8. SpiInv' /\ Chips' = Chips /\ LiveDac' = LiveDac /\ LiveSpi' = LiveSpi \ {p}
  BY <1>1, <1>2, <1>3, <1>5, <1>6, <1>7, SlaveWritten
<1> QED BY <1>2, <1>8

-----------------------------------------------------------------------------
(* The timer pool                                                           *)

TimerRec == [state : {"FREE", "PULSE", "PWM"}, token : DoutIndex, armed : BOOLEAN,
             psc : 0 .. HW_TIMER_PSC_MAX, arr : 0 .. HW_TIMER_ARR_MAX_32,
             pwm_ref_count : 0 .. HW_TIMER_MAX_CHANNELS]

TimersOK ==
    /\ timers \in [Timers -> TimerRec]
    /\ \A t \in Timers : timers[t].arr <= arr_max(t)

\* What a pulse call may do: a timer it changes is in PWM mode neither before
\* nor after.  What a PWM call may do: never touch a timer in pulse mode, and
\* arm none.
PulseStep ==
    \A t \in Timers : \/ timers'[t] = timers[t]
                      \/ timers[t].state # "PWM" /\ timers'[t].state # "PWM"
PwmStep ==
    \A t \in Timers : \/ timers'[t] = timers[t]
                      \/ timers[t].state # "PULSE" /\ timers'[t].state # "PULSE" /\ ~timers'[t].armed

LEMMA ArrMax == \A t \in Timers : arr_max(t) \in Nat /\ arr_max(t) > 0 /\ arr_max(t) <= HW_TIMER_ARR_MAX_32
BY HwTimerAssumption DEF arr_max

LEMMA FreeTimerTyped ==
    /\ FreeTimer \in TimerRec /\ FreeTimer.arr = 0 /\ FreeTimer.state = "FREE" /\ ~FreeTimer.armed
    /\ FreeTimer.pwm_ref_count = 0 /\ FreeTimer.psc = 0 /\ FreeTimer.token = 0
<1>1. /\ 0 \in DoutIndex /\ 0 \in 0 .. HW_TIMER_PSC_MAX /\ 0 \in 0 .. HW_TIMER_ARR_MAX_32
      /\ 0 \in 0 .. HW_TIMER_MAX_CHANNELS
  BY HwTimerAssumption, DoutAssumption, PwmAssumption DEF DoutIndex
<1> QED BY <1>1 DEF FreeTimer, TimerRec

\* A timer file written at one place.
LEMMA TimerWritten ==
    ASSUME TimersOK, NEW t \in Timers, NEW r \in TimerRec, r.arr <= arr_max(t),
           timers' = [timers EXCEPT ![t] = r]
    PROVE  TimersOK' /\ timers'[t] = r /\ \A u \in Timers : u # t => timers'[u] = timers[u]
<1>1. \A u \in Timers : timers'[u] = IF u = t THEN r ELSE timers[u]
  BY DEF TimersOK
<1>2. timers' \in [Timers -> TimerRec]
  BY DEF TimersOK
<1> QED BY <1>1, <1>2 DEF TimersOK, arr_max

\* hw_timer_pulse_acquire, when it succeeds.
LEMMA PulseAcquire ==
    ASSUME TimersOK, NEW t \in Timers, NEW idx \in DoutIndex, timers[t].state = "FREE",
           timers' = hw_timer_pulse_acquire(t, idx)
    PROVE  /\ TimersOK' /\ PulseStep /\ ~timers'[t].armed /\ timers'[t].token = idx
           /\ \A u \in Timers : u # t => timers'[u] = timers[u]
<1>1. /\ [FreeTimer EXCEPT !.state = "PULSE", !.token = idx] \in TimerRec
      /\ [FreeTimer EXCEPT !.state = "PULSE", !.token = idx].arr = 0
      /\ [FreeTimer EXCEPT !.state = "PULSE", !.token = idx].state = "PULSE"
      /\ [FreeTimer EXCEPT !.state = "PULSE", !.token = idx].token = idx
      /\ ~[FreeTimer EXCEPT !.state = "PULSE", !.token = idx].armed
  BY FreeTimerTyped DEF TimerRec
<1>2. PICK r \in TimerRec : /\ r = [FreeTimer EXCEPT !.state = "PULSE", !.token = idx]
                            /\ r.arr = 0 /\ r.state = "PULSE" /\ r.token = idx /\ ~r.armed
  BY <1>1
<1>3. timers' = [timers EXCEPT ![t] = r]
  BY <1>2 DEF hw_timer_pulse_acquire
<1>4. r.arr <= arr_max(t)
  BY <1>2, ArrMax
<1>5. TimersOK' /\ timers'[t] = r /\ \A u \in Timers : u # t => timers'[u] = timers[u]
  BY <1>3, <1>4, TimerWritten
<1> QED BY <1>2, <1>5 DEF PulseStep

\* hw_timer_pulse_release frees a timer in pulse mode or none.
LEMMA PulseRelease ==
    ASSUME TimersOK, NEW idx \in DoutIndex, timers' = hw_timer_pulse_release(idx)
    PROVE  /\ TimersOK' /\ PulseStep
           /\ \A t \in Timers : IF t \in find_pulse_entry(idx) THEN timers'[t] = FreeTimer
                                ELSE timers'[t] = timers[t]
<1>1. \A t \in Timers : timers'[t] = IF t \in find_pulse_entry(idx) THEN FreeTimer ELSE timers[t]
  BY DEF hw_timer_pulse_release
<1>2. timers' \in [Timers -> TimerRec]
  BY FreeTimerTyped DEF hw_timer_pulse_release, TimersOK
<1>3. \A t \in Timers : timers'[t].arr <= arr_max(t)
  BY <1>1, FreeTimerTyped, ArrMax DEF TimersOK
<1>4. PulseStep
  BY <1>1, FreeTimerTyped DEF PulseStep, find_pulse_entry
<1> QED BY <1>1, <1>2, <1>3, <1>4 DEF TimersOK, arr_max

\* hw_timer_pulse_start arms the first timer of the token or none.
ArmedOnly(t) ==
    /\ timers'[t].armed /\ timers'[t].state = timers[t].state /\ timers'[t].token = timers[t].token

LEMMA PulseStart ==
    ASSUME TimersOK, NEW idx \in DoutIndex, NEW us, timers' = hw_timer_pulse_start(idx, us)
    PROVE  /\ TimersOK' /\ PulseStep
           /\ \A t \in Timers : \/ timers'[t] = timers[t]
                                \/ t \in find_pulse_entry(idx) /\ ArmedOnly(t)
<1>1. CASE timers' = timers
  BY <1>1 DEF TimersOK, PulseStep
<1>2. CASE timers' = [t \in Timers |-> IF t \in find_pulse_entry(idx)
                                      THEN [timers[t] EXCEPT !.armed = TRUE] ELSE timers[t]]
  <2>1. ASSUME NEW x \in TimerRec
        PROVE  /\ [x EXCEPT !.armed = TRUE] \in TimerRec /\ [x EXCEPT !.armed = TRUE].arr = x.arr
               /\ [x EXCEPT !.armed = TRUE].armed /\ [x EXCEPT !.armed = TRUE].state = x.state
               /\ [x EXCEPT !.armed = TRUE].token = x.token
    BY DEF TimerRec
  <2>2. ASSUME NEW t \in Timers
        PROVE  /\ timers'[t] \in TimerRec /\ timers'[t].arr = timers[t].arr
               /\ \/ timers'[t] = timers[t]
                  \/ t \in find_pulse_entry(idx) /\ ArmedOnly(t)
    BY <1>2, <2>1 DEF TimersOK, ArmedOnly
  <2>3. timers' \in [Timers -> TimerRec]
    BY <1>2, <2>2
  <2>4. TimersOK'
    BY <2>2, <2>3 DEF TimersOK, arr_max
  <2>5. PulseStep
    BY <2>2 DEF PulseStep, find_pulse_entry, ArmedOnly
  <2> QED BY <2>2, <2>4, <2>5
<1> QED BY <1>1, <1>2 DEF hw_timer_pulse_start

-----------------------------------------------------------------------------
(* Digital outputs                                                          *)

\* No timer below t is in pulse mode with t's token: the one that
\* find_pulse_entry returns.
FirstOfToken(t) ==
    \A u \in 0 .. (t - 1) : ~(timers[u].state = "PULSE" /\ timers[u].token = timers[t].token)

\* An armed timer belongs to a live hardware-timed output and is the one its
\* stop will release.  A leaked timer of the same token would hide it, which is
\* why being first is part of the invariant.
ArmedOK ==
    \A t \in Timers : timers[t].armed =>
        /\ timers[t].state = "PULSE" /\ FirstOfToken(t)
        /\ dout[timers[t].token].in_use /\ dout[timers[t].token].timer_kind = "HARDWARE"

\* The reservation bits are the pins of the live outputs, one each.
DoutPinsOK ==
    /\ dout_pins = {dout[i].pin : i \in LiveDout}
    /\ \A i, j \in LiveDout : dout[i].pin = dout[j].pin => i = j

DoutInv ==
    /\ DoutTypeOK /\ ArmedOK /\ DoutPinsOK
    /\ \A i \in DoutIndex : ~dout[i].in_use => dout[i] = DoutFree

SwTimers == {i \in DoutIndex : dout[i].sw_timer # "NULL"}

\* The heap follows the software timers.
SwBalanced ==
    \/ SwTimers' = SwTimers /\ heap' = heap
    \/ \E i \in DoutIndex \ SwTimers : SwTimers' = SwTimers \cup {i} /\ heap' = heap + 1
    \/ \E i \in SwTimers : SwTimers' = SwTimers \ {i} /\ heap' = heap - 1

LEMMA DoutFreeTyped ==
    DoutFree \in DoutState /\ ~DoutFree.in_use /\ DoutFree.sw_timer = "NULL"
<1>1. (CHOOSE p \in Pins : TRUE) \in Pins /\ 0 \in Timers
  BY GpioAssumption, HwTimerAssumption DEF Timers
<1> QED BY <1>1 DEF DoutFree, DoutState, Level

\* One slot is written.
LEMMA DoutWritten ==
    ASSUME DoutInv, NEW i \in DoutIndex, NEW r \in DoutState, dout' = [dout EXCEPT ![i] = r]
    PROVE  /\ dout' \in [DoutIndex -> DoutState]
           /\ dout'[i] = r /\ \A j \in DoutIndex : j # i => dout'[j] = dout[j]
           /\ LiveDout' = IF r.in_use THEN LiveDout \cup {i} ELSE LiveDout \ {i}
           /\ SwTimers' = IF r.sw_timer = "NULL" THEN SwTimers \ {i} ELSE SwTimers \cup {i}
<1>1. dout' \in [DoutIndex -> DoutState]
  BY DEF DoutInv, DoutTypeOK
<1>2. dout'[i] = r /\ \A j \in DoutIndex : j # i => dout'[j] = dout[j]
  BY DEF DoutInv, DoutTypeOK
<1> QED BY <1>1, <1>2 DEF LiveDout, SwTimers

\* The owner of an armed timer, seen from a slot that is not a live
\* hardware-timed output.
LEMMA TokenElsewhere ==
    ASSUME TimersOK, ArmedOK, NEW i \in DoutIndex, ~(dout[i].in_use /\ dout[i].timer_kind = "HARDWARE"),
           NEW t \in Timers, timers[t].armed
    PROVE  timers[t].token # i
BY DEF ArmedOK

\* The writes to a live slot that leave its pin, timer and use alone.
LEMMA DoutTouched ==
    ASSUME DoutInv, TimersOK, UNCHANGED <<timers, dout_pins>>, NEW i \in LiveDout, NEW r \in DoutState,
           r.in_use, r.pin = dout[i].pin, r.timer_kind = dout[i].timer_kind,
           dout' = [dout EXCEPT ![i] = r]
    PROVE  DoutInv' /\ LiveDout' = LiveDout
<1>1. i \in DoutIndex
  BY DEF LiveDout
<1>2. /\ dout' \in [DoutIndex -> DoutState]
      /\ dout'[i] = r /\ \A j \in DoutIndex : j # i => dout'[j] = dout[j]
      /\ LiveDout' = LiveDout \cup {i}
  BY <1>1, DoutWritten
<1>3. LiveDout' = LiveDout
  BY <1>2
<1>4. \A j \in DoutIndex : /\ dout'[j].pin = dout[j].pin /\ dout'[j].timer_kind = dout[j].timer_kind
                           /\ dout'[j].in_use <=> dout[j].in_use
  BY <1>1, <1>2 DEF LiveDout
<1>5. ArmedOK'
  <2>1. \A t \in Timers : timers[t].token \in DoutIndex
    BY DEF TimersOK, TimerRec
  <2> QED BY <1>4, <2>1 DEF DoutInv, ArmedOK, FirstOfToken
<1>6. DoutPinsOK'
  <2>1. LiveDout \subseteq DoutIndex
    BY DEF LiveDout
  <2> QED BY <1>3, <1>4, <2>1 DEF DoutInv, DoutPinsOK
<1>7. \A j \in DoutIndex : ~dout'[j].in_use => dout'[j] = DoutFree
  BY <1>2, <1>4 DEF DoutInv
<1>8. DoutTypeOK'
  BY <1>2 DEF DoutInv, DoutTypeOK
<1> QED BY <1>3, <1>5, <1>6, <1>7, <1>8 DEF DoutInv

\* A timer step that arms nothing, moves no armed timer and puts into pulse
\* mode only timers for a slot not in use.
LEMMA TimersKeepDout ==
    ASSUME DoutInv, TimersOK, TimersOK', UNCHANGED <<dout, dout_pins>>,
           \A t \in Timers :
              \/ timers'[t] = timers[t]
              \/ ~timers'[t].armed /\ timers'[t].state # "PULSE"
              \/ ~timers'[t].armed /\ timers'[t].state = timers[t].state /\ timers'[t].token = timers[t].token
              \/ ~timers'[t].armed /\ ~dout[timers'[t].token].in_use
    PROVE  DoutInv'
<1>1. ASSUME NEW t \in Timers, timers'[t].armed
      PROVE  /\ timers'[t].state = "PULSE" /\ FirstOfToken(t)'
             /\ dout[timers'[t].token].in_use /\ dout[timers'[t].token].timer_kind = "HARDWARE"
  <2>1. timers'[t] = timers[t] /\ timers[t].armed
    BY <1>1
  <2>2. /\ timers[t].state = "PULSE" /\ FirstOfToken(t)
        /\ dout[timers[t].token].in_use /\ dout[timers[t].token].timer_kind = "HARDWARE"
    BY <2>1 DEF DoutInv, ArmedOK
  <2>3. ASSUME NEW u \in 0 .. (t - 1), timers'[u].state = "PULSE", timers'[u].token = timers'[t].token
        PROVE  FALSE
    <3>1. u \in Timers
      BY HwTimerAssumption DEF Timers
    <3>2. ~(timers[u].state = "PULSE" /\ timers[u].token = timers[t].token)
      BY <2>2 DEF FirstOfToken
    <3> QED BY <2>1, <2>2, <2>3, <3>1, <3>2
  <2> QED BY <2>1, <2>2, <2>3 DEF FirstOfToken
<1>2. ArmedOK'
  BY <1>1 DEF ArmedOK
<1> QED BY <1>2 DEF DoutInv, DoutTypeOK, DoutPinsOK, LiveDout

\* PWM calls leave the digital outputs' timers alone.
LEMMA PwmKeepsDout ==
    ASSUME DoutInv, TimersOK, TimersOK', PwmStep, UNCHANGED doutVars
    PROVE  DoutInv'
<1>1. UNCHANGED <<dout, dout_pins>>
  BY DEF doutVars
<1> QED BY <1>1, TimersKeepDout DEF PwmStep

\* digital_out_sensor_setup.  The exit that leaks a timer in pulse mode counts
\* as a refusal; the timer it leaves behind is never armed for a live sensor's
\* token while that token has an armed one.
LEMMA DoutSetup ==
    ASSUME DoutInv, TimersOK, TableOK, NEW cfg \in DoutCfgs, digital_out_sensor_setup(cfg)
    PROVE  /\ DoutInv' /\ TimersOK' /\ PulseStep
           /\ \/ Refused /\ UNCHANGED doutVars
              \/ \E n \in DoutIndex \ LiveDout :
                    /\ Accepted("DIGITAL_OUT", n) /\ LiveDout' = LiveDout \cup {n}
                    /\ heap' = heap /\ SwTimers' = SwTimers
<1> DEFINE Done == /\ DoutInv' /\ TimersOK' /\ PulseStep
                   /\ \/ Refused /\ UNCHANGED doutVars
                      \/ \E n \in DoutIndex \ LiveDout :
                            /\ Accepted("DIGITAL_OUT", n) /\ LiveDout' = LiveDout \cup {n}
                            /\ heap' = heap /\ SwTimers' = SwTimers
<1>1. CASE \E err : err # "ERR_SUCCESS" /\ DoutReject(err)
  <2>1. Refused /\ UNCHANGED doutVars /\ timers' = timers /\ UNCHANGED <<dout, dout_pins>>
    BY <1>1, RejectFields DEF DoutReject, Refused, backendVars, doutVars
  <2>2. TimersOK' /\ PulseStep
    BY <2>1 DEF TimersOK, arr_max, PulseStep
  <2>3. DoutInv'
    BY <2>1, <2>2, TimersKeepDout
  <2> QED BY <2>1, <2>2, <2>3
<1>2. ASSUME NEW idx \in dout_alloc_slot, DoutLeakTimer(cfg, idx)
      PROVE  Done
  <2>1. idx \in DoutIndex /\ ~dout[idx].in_use
    BY DEF dout_alloc_slot
  <2>2. PICK t \in Timers : t = cfg.timer_id
    BY DoutAssumption
  <2>3. /\ timers[t].state = "FREE" /\ timers' = hw_timer_pulse_acquire(t, idx)
        /\ Reject("ERR_OUT_OF_RESOURCES") /\ UNCHANGED <<backendVars, doutVars>>
    BY <1>2, <2>2 DEF DoutLeakTimer, DoutTimerAcquired, hw_timer_pulse_acquire_err
  <2>4. /\ TimersOK' /\ PulseStep /\ ~timers'[t].armed /\ timers'[t].token = idx
        /\ \A u \in Timers : u # t => timers'[u] = timers[u]
    BY <2>1, <2>3, PulseAcquire
  <2>5. UNCHANGED <<dout, dout_pins>>
    BY <2>3 DEF doutVars
  <2>6. DoutInv'
    BY <2>1, <2>4, <2>5, TimersKeepDout
  <2>7. Refused
    BY <2>3, RejectFields DEF Refused, backendVars
  <2> QED BY <2>3, <2>4, <2>6, <2>7
<1>3. ASSUME NEW idx \in dout_alloc_slot, dout_validate_cfg(cfg) = "ERR_SUCCESS", DoutInstall(cfg, idx)
      PROVE  Done
  <2>1. idx \in DoutIndex /\ ~dout[idx].in_use /\ idx \notin LiveDout
    BY DEF dout_alloc_slot, LiveDout
  <2>2. cfg.pin \in Pins /\ cfg.timer_kind \in {"SOFTWARE", "HARDWARE"} /\ cfg.timer_id \in Timers
    BY DoutAssumption
  <2>3. cfg.pin \notin dout_pins
    BY <1>3 DEF dout_validate_cfg
  <2>4. PICK id \in MaybeId :
        /\ sensor_manager_register("DIGITAL_OUT", idx, id) /\ heap' = heap
        /\ IF id = PROTO_SENSOR_ID_NONE
           THEN /\ Return("ERR_OUT_OF_RESOURCES", id)
                /\ timers' = IF cfg.timer_kind = "HARDWARE"
                             THEN hw_timer_pulse_release(idx) ELSE timers
                /\ UNCHANGED doutVars
           ELSE /\ Return("ERR_SUCCESS", id)
                /\ dout_pins' = dout_pins \cup {cfg.pin}
                /\ dout' = [dout EXCEPT ![idx] = [DoutFree EXCEPT !.in_use = TRUE,
                       !.pin = cfg.pin, !.timer_kind = cfg.timer_kind, !.timer_id = cfg.timer_id]]
                /\ UNCHANGED timers
    BY <1>3 DEF DoutInstall
  <2>5. CASE id = PROTO_SENSOR_ID_NONE
    <3>1. UNCHANGED managerVars
      BY <2>4, <2>5, RegisterFails
    <3>2. Refused
      BY <2>4, <2>5, <3>1, ReturnFields DEF Refused
    <3>3. /\ TimersOK' /\ PulseStep
          /\ \A t \in Timers : timers'[t] = FreeTimer \/ timers'[t] = timers[t]
      <4>1. CASE timers' = timers
        BY <4>1 DEF TimersOK, arr_max, PulseStep
      <4>2. CASE timers' = hw_timer_pulse_release(idx)
        BY <2>1, <4>2, PulseRelease
      <4> QED BY <2>4, <2>5, <4>1, <4>2
    <3>4. UNCHANGED <<dout, dout_pins>>
      BY <2>4, <2>5 DEF doutVars
    <3>5. DoutInv'
      BY <3>3, <3>4, FreeTimerTyped, TimersKeepDout
    <3> QED BY <2>4, <2>5, <3>2, <3>3, <3>5
  <2>6. CASE id # PROTO_SENSOR_ID_NONE
    <3>1. /\ [DoutFree EXCEPT !.in_use = TRUE, !.pin = cfg.pin, !.timer_kind = cfg.timer_kind,
                              !.timer_id = cfg.timer_id] \in DoutState
          /\ [DoutFree EXCEPT !.in_use = TRUE, !.pin = cfg.pin, !.timer_kind = cfg.timer_kind,
                              !.timer_id = cfg.timer_id].in_use
          /\ [DoutFree EXCEPT !.in_use = TRUE, !.pin = cfg.pin, !.timer_kind = cfg.timer_kind,
                              !.timer_id = cfg.timer_id].pin = cfg.pin
          /\ [DoutFree EXCEPT !.in_use = TRUE, !.pin = cfg.pin, !.timer_kind = cfg.timer_kind,
                              !.timer_id = cfg.timer_id].sw_timer = "NULL"
      BY <2>2, DoutFreeTyped DEF DoutState
    <3>2. PICK r \in DoutState : /\ r.in_use /\ r.pin = cfg.pin /\ r.sw_timer = "NULL"
                                 /\ dout' = [dout EXCEPT ![idx] = r]
      BY <2>4, <2>6, <3>1
    <3>3. /\ dout' \in [DoutIndex -> DoutState]
          /\ dout'[idx] = r /\ \A j \in DoutIndex : j # idx => dout'[j] = dout[j]
          /\ LiveDout' = LiveDout \cup {idx} /\ SwTimers' = SwTimers \ {idx}
      BY <2>1, <3>2, DoutWritten
    <3>4. SwTimers' = SwTimers
      BY <2>1, <3>3, DoutFreeTyped DEF SwTimers, DoutInv
    <3>5. timers' = timers /\ TimersOK' /\ PulseStep
      BY <2>4, <2>6 DEF TimersOK, arr_max, PulseStep
    <3>6. ArmedOK'
      <4>1. ASSUME NEW t \in Timers, timers[t].armed
            PROVE  timers[t].token # idx /\ timers[t].token \in DoutIndex
        BY <2>1, <4>1, TokenElsewhere DEF DoutInv, TimersOK, TimerRec
      <4> QED BY <3>3, <3>5, <4>1 DEF DoutInv, ArmedOK, FirstOfToken
    <3>7. DoutPinsOK'
      <4>1. LiveDout \subseteq DoutIndex
        BY DEF LiveDout
      <4>2. \A i \in LiveDout : dout'[i].pin = dout[i].pin /\ dout[i].pin \in dout_pins
        BY <2>1, <3>3, <4>1 DEF DoutInv, DoutPinsOK
      <4>3. dout_pins' = dout_pins \cup {cfg.pin} /\ dout'[idx].pin = cfg.pin
        BY <2>4, <2>6, <3>2, <3>3
      <4>4. dout_pins' = {dout'[i].pin : i \in LiveDout'}
        BY <3>3, <4>2, <4>3 DEF DoutInv, DoutPinsOK
      <4>5. \A i, j \in LiveDout' : dout'[i].pin = dout'[j].pin => i = j
        BY <2>3, <3>3, <4>2, <4>3 DEF DoutInv, DoutPinsOK
      <4> QED BY <4>4, <4>5 DEF DoutPinsOK
    <3>8. \A i \in DoutIndex : ~dout'[i].in_use => dout'[i] = DoutFree
      BY <3>2, <3>3 DEF DoutInv
    <3>9. DoutTypeOK'
      BY <2>2, <2>4, <2>6, <3>3 DEF DoutInv, DoutTypeOK
    <3>10. DoutInv'
      BY <3>6, <3>7, <3>8, <3>9 DEF DoutInv
    <3>11. Accepted("DIGITAL_OUT", idx)
      BY <2>4, <2>6 DEF Accepted, Return
    <3> QED BY <2>1, <2>4, <3>3, <3>4, <3>5, <3>10, <3>11
  <2> QED BY <2>5, <2>6
<1> QED BY <1>1, <1>2, <1>3 DEF digital_out_sensor_setup

\* digital_out_sensor_stop: the armed timer of the slot is the one released.
LEMMA DoutStop ==
    ASSUME DoutInv, TimersOK, NEW idx \in LiveDout, digital_out_sensor_stop(idx)
    PROVE  /\ DoutInv' /\ TimersOK' /\ PulseStep /\ SwBalanced
           /\ LiveDout' = LiveDout \ {idx} /\ ret'.err = "ERR_SUCCESS"
<1>1. idx \in DoutIndex /\ dout[idx].in_use
  BY DEF LiveDout
<1>2. /\ ret'.err = "ERR_SUCCESS"
      /\ timers' = IF dout[idx].timer_kind = "HARDWARE" THEN hw_timer_pulse_release(idx) ELSE timers
      /\ dout_pins' = dout_pins \ {dout[idx].pin}
      /\ heap' = IF dout[idx].sw_timer = "NULL" THEN heap ELSE heap - 1
      /\ dout' = [dout EXCEPT ![idx] = DoutFree]
  BY <1>1, ReturnFields DEF digital_out_sensor_stop
<1>3. /\ dout' \in [DoutIndex -> DoutState]
      /\ dout'[idx] = DoutFree /\ \A j \in DoutIndex : j # idx => dout'[j] = dout[j]
      /\ LiveDout' = LiveDout \ {idx} /\ SwTimers' = SwTimers \ {idx}
  BY <1>1, <1>2, DoutWritten, DoutFreeTyped
<1>4. SwBalanced
  BY <1>1, <1>2, <1>3 DEF SwBalanced, SwTimers
<1>5. /\ TimersOK' /\ PulseStep
      /\ \A t \in Timers : \/ timers'[t] = FreeTimer
                           \/ timers'[t] = timers[t] /\ (timers[t].armed => timers[t].token # idx)
  <2>1. CASE dout[idx].timer_kind # "HARDWARE"
    <3>1. timers' = timers
      BY <1>2, <2>1
    <3>2. TimersOK' /\ PulseStep
      BY <3>1 DEF TimersOK, arr_max, PulseStep
    <3> QED BY <1>1, <2>1, <3>1, <3>2, TokenElsewhere DEF DoutInv
  <2>2. CASE dout[idx].timer_kind = "HARDWARE"
    <3>1. /\ TimersOK' /\ PulseStep
          /\ \A t \in Timers : IF t \in find_pulse_entry(idx) THEN timers'[t] = FreeTimer
                               ELSE timers'[t] = timers[t]
      BY <1>1, <1>2, <2>2, PulseRelease
    <3>2. \A t \in Timers : timers[t].armed /\ timers[t].token = idx => t \in find_pulse_entry(idx)
      BY DEF DoutInv, ArmedOK, FirstOfToken, find_pulse_entry
    <3> QED BY <3>1, <3>2
  <2> QED BY <2>1, <2>2
<1>6. ArmedOK'
  <2>1. ASSUME NEW t \in Timers, timers'[t].armed
        PROVE  /\ timers'[t].state = "PULSE" /\ FirstOfToken(t)'
               /\ dout'[timers'[t].token].in_use /\ dout'[timers'[t].token].timer_kind = "HARDWARE"
    <3>1. timers'[t] = timers[t] /\ timers[t].armed /\ timers[t].token # idx /\ timers[t].token \in DoutIndex
      BY <1>5, <2>1, FreeTimerTyped DEF TimersOK, TimerRec
    <3>2. /\ timers[t].state = "PULSE" /\ FirstOfToken(t)
          /\ dout[timers[t].token].in_use /\ dout[timers[t].token].timer_kind = "HARDWARE"
      BY <3>1 DEF DoutInv, ArmedOK
    <3>3. ASSUME NEW u \in 0 .. (t - 1), timers'[u].state = "PULSE", timers'[u].token = timers'[t].token
          PROVE  FALSE
      <4>1. u \in Timers
        BY HwTimerAssumption DEF Timers
      <4>2. timers'[u] = timers[u]
        BY <1>5, <3>3, <4>1, FreeTimerTyped
      <4> QED BY <3>1, <3>2, <3>3, <4>2 DEF FirstOfToken
    <3>4. FirstOfToken(t)'
      BY <3>3 DEF FirstOfToken
    <3> QED BY <1>3, <3>1, <3>2, <3>4
  <2> QED BY <2>1 DEF ArmedOK
<1>7. DoutPinsOK'
  <2>1. LiveDout \subseteq DoutIndex
    BY DEF LiveDout
  <2>2. \A i \in LiveDout' : i \in LiveDout /\ i # idx /\ dout'[i].pin = dout[i].pin
    BY <1>3, <2>1
  <2>3. \A i \in LiveDout : i # idx => i \in LiveDout' /\ dout[i].pin # dout[idx].pin
    BY <1>3 DEF DoutInv, DoutPinsOK
  <2>4. dout_pins' = {dout'[i].pin : i \in LiveDout'}
    BY <1>2, <2>2, <2>3 DEF DoutInv, DoutPinsOK
  <2>5. \A i, j \in LiveDout' : dout'[i].pin = dout'[j].pin => i = j
    BY <2>2 DEF DoutInv, DoutPinsOK
  <2> QED BY <2>4, <2>5 DEF DoutPinsOK
<1>8. DoutTypeOK' /\ \A i \in DoutIndex : ~dout'[i].in_use => dout'[i] = DoutFree
  BY <1>2, <1>3 DEF DoutInv, DoutTypeOK
<1> QED BY <1>2, <1>3, <1>4, <1>5, <1>6, <1>7, <1>8 DEF DoutInv

\* A write to the software timer or the revert level of a slot.
SwStates == {"NULL", "STOPPED", "RUNNING"}
Timed(x, st, rv) == [x EXCEPT !.sw_timer = st, !.revert = rv]

LEMMA DoutFieldWritten ==
    ASSUME NEW x \in DoutState, x.in_use, NEW st \in SwStates, NEW rv \in Level
    PROVE  /\ Timed(x, st, rv) \in DoutState /\ Timed(x, st, rv).in_use /\ Timed(x, st, rv).pin = x.pin
           /\ Timed(x, st, rv).timer_kind = x.timer_kind /\ Timed(x, st, rv).sw_timer = st
BY DEF DoutState, Timed, SwStates

\* digital_out_sensor_set_output on a live output.
LEMMA DoutSet ==
    ASSUME DoutInv, TimersOK, NEW idx \in LiveDout, NEW v \in DoutValues,
           digital_out_sensor_set_output(idx, v)
    PROVE  /\ DoutInv' /\ TimersOK' /\ PulseStep /\ SwBalanced
           /\ LiveDout' = LiveDout /\ UNCHANGED managerVars
<1>1. idx \in DoutIndex /\ dout[idx].in_use /\ dout[idx] \in DoutState /\ v.level \in Level
  BY DoutAssumption DEF LiveDout, DoutInv, DoutTypeOK
<1>2. PICK x \in DoutState : x = dout[idx] /\ x.in_use
  BY <1>1
<1>3. /\ x.sw_timer \in SwStates /\ x.revert \in Level /\ x.in_use
      /\ Opposite(v.level) \in Level /\ "RUNNING" \in SwStates
  BY <1>2 DEF DoutState, Opposite, Level, SwStates
<1>4. CASE \E err : DoutReject(err)
  <2>1. UNCHANGED <<managerVars, heap, timers, dout, dout_pins>>
    BY <1>4 DEF DoutReject, backendVars, doutVars
  <2>2. TimersOK' /\ PulseStep
    BY <2>1 DEF TimersOK, arr_max, PulseStep
  <2>3. DoutInv'
    BY <2>1, <2>2, TimersKeepDout
  <2> QED BY <2>1, <2>2, <2>3 DEF SwBalanced, SwTimers, LiveDout
<1>5. CASE UNCHANGED <<managerVars, dout_pins>> /\ DoutHold(idx, v)
  <2>1. PICK st \in SwStates : st = IF x.sw_timer = "NULL" THEN "NULL" ELSE "STOPPED"
    BY DEF SwStates
  <2>2. UNCHANGED <<timers, heap, dout_pins, managerVars>>
    BY <1>5 DEF DoutHold
  <2>3. PICK r : r = Timed(x, st, x.revert)
    OBVIOUS
  <2>4. dout' = [dout EXCEPT ![idx] = r]
    <3>1. dout' = [dout EXCEPT ![idx] = [x EXCEPT !.sw_timer = st]]
      BY <1>1, <1>2, <1>5, <2>1 DEF DoutHold
    <3>2. r = [x EXCEPT !.sw_timer = st]
      BY <2>3 DEF DoutState, Timed
    <3> QED BY <3>1, <3>2
  <2>5. r \in DoutState /\ r.in_use /\ r.pin = x.pin /\ r.timer_kind = x.timer_kind /\ r.sw_timer = st
    <3>1. /\ Timed(x, st, x.revert) \in DoutState /\ Timed(x, st, x.revert).in_use
          /\ Timed(x, st, x.revert).pin = x.pin /\ Timed(x, st, x.revert).timer_kind = x.timer_kind
          /\ Timed(x, st, x.revert).sw_timer = st
      BY <1>3, DoutFieldWritten
    <3> QED BY <2>3, <3>1
  <2>6. DoutInv' /\ LiveDout' = LiveDout
    BY <1>2, <2>2, <2>4, <2>5, DoutTouched
  <2>7. SwTimers' = SwTimers
    <3>1. SwTimers' = IF st = "NULL" THEN SwTimers \ {idx} ELSE SwTimers \cup {idx}
      BY <1>1, <2>4, <2>5, DoutWritten
    <3> QED BY <1>1, <1>2, <2>1, <3>1 DEF SwTimers
  <2>8. TimersOK' /\ PulseStep
    BY <2>2 DEF TimersOK, arr_max, PulseStep
  <2> QED BY <2>2, <2>6, <2>7, <2>8 DEF SwBalanced
<1>6. CASE UNCHANGED <<managerVars, dout_pins>> /\ DoutSwPulse(idx, v)
  <2>1. UNCHANGED <<timers, dout_pins, managerVars>>
        /\ heap' = IF x.sw_timer = "NULL" THEN heap + 1 ELSE heap
    BY <1>2, <1>6 DEF DoutSwPulse
  <2>3. PICK r : r = Timed(x, "RUNNING", Opposite(v.level))
    OBVIOUS
  <2>4. dout' = [dout EXCEPT ![idx] = r]
    <3>1. dout' = [dout EXCEPT ![idx] = [[x EXCEPT !.revert = Opposite(v.level)] EXCEPT !.sw_timer = "RUNNING"]]
      BY <1>1, <1>2, <1>6 DEF DoutSwPulse, DoutInv, DoutTypeOK
    <3>2. r = [[x EXCEPT !.revert = Opposite(v.level)] EXCEPT !.sw_timer = "RUNNING"]
      BY <2>3 DEF DoutState, Timed
    <3> QED BY <3>1, <3>2
  <2>5. r \in DoutState /\ r.in_use /\ r.pin = x.pin /\ r.timer_kind = x.timer_kind /\ r.sw_timer = "RUNNING"
    BY <1>3, <2>1, <2>3, DoutFieldWritten
  <2>6. DoutInv' /\ LiveDout' = LiveDout
    BY <1>2, <2>1, <2>4, <2>5, DoutTouched
  <2>7. SwTimers' = SwTimers \cup {idx}
    BY <1>1, <2>4, <2>5, DoutWritten
  <2>8. TimersOK' /\ PulseStep
    BY <2>1 DEF TimersOK, arr_max, PulseStep
  <2>9. SwBalanced
    BY <1>1, <1>2, <2>1, <2>7 DEF SwBalanced, SwTimers
  <2> QED BY <2>1, <2>6, <2>8, <2>9
<1>7. CASE UNCHANGED <<managerVars, dout_pins>> /\ DoutHwPulse(idx, v)
  <2>1. /\ UNCHANGED <<dout_pins, managerVars, heap>> /\ x.timer_kind = "HARDWARE"
        /\ timers' = hw_timer_pulse_start(idx, v.pulse_us)
    BY <1>2, <1>7 DEF DoutHwPulse
  <2>2. PICK r : r = Timed(x, x.sw_timer, Opposite(v.level))
    OBVIOUS
  <2>3. dout' = [dout EXCEPT ![idx] = r]
    <3>1. dout' = [dout EXCEPT ![idx] = [x EXCEPT !.revert = Opposite(v.level)]]
      BY <1>1, <1>2, <1>7 DEF DoutHwPulse
    <3>2. r = [x EXCEPT !.revert = Opposite(v.level)]
      BY <2>2 DEF DoutState, Timed
    <3> QED BY <3>1, <3>2
  <2>4. r \in DoutState /\ r.in_use /\ r.pin = x.pin /\ r.timer_kind = x.timer_kind /\ r.sw_timer = x.sw_timer
    BY <1>3, <2>2, DoutFieldWritten
  <2>5. /\ TimersOK' /\ PulseStep
        /\ \A t \in Timers : \/ timers'[t] = timers[t]
                             \/ t \in find_pulse_entry(idx) /\ ArmedOnly(t)
    BY <1>1, <2>1, PulseStart
  <2>6. /\ dout' \in [DoutIndex -> DoutState]
        /\ dout'[idx] = r /\ \A j \in DoutIndex : j # idx => dout'[j] = dout[j]
        /\ LiveDout' = LiveDout \cup {idx}
        /\ SwTimers' = IF r.sw_timer = "NULL" THEN SwTimers \ {idx} ELSE SwTimers \cup {idx}
    BY <1>1, <2>3, <2>4, DoutWritten
  <2>7. LiveDout' = LiveDout /\ SwTimers' = SwTimers
    BY <1>1, <1>2, <2>4, <2>6 DEF SwTimers
  <2>8. \A j \in DoutIndex : /\ dout'[j].pin = dout[j].pin /\ dout'[j].timer_kind = dout[j].timer_kind
                             /\ dout'[j].in_use <=> dout[j].in_use
    BY <1>2, <2>4, <2>6
  <2>9. ArmedOK'
    <3>1. \A t \in Timers : timers'[t].state = timers[t].state /\ timers'[t].token = timers[t].token
                            /\ timers[t].token \in DoutIndex
      BY <2>5 DEF ArmedOnly, TimersOK, TimerRec
    <3>2. ASSUME NEW t \in Timers, timers'[t].armed
          PROVE  /\ timers[t].state = "PULSE" /\ FirstOfToken(t)
                 /\ dout[timers[t].token].in_use /\ dout[timers[t].token].timer_kind = "HARDWARE"
      <4>1. CASE timers'[t] = timers[t]
        BY <3>2, <4>1 DEF DoutInv, ArmedOK
      <4>2. CASE t \in find_pulse_entry(idx)
        BY <1>2, <2>1, <4>2 DEF find_pulse_entry, FirstOfToken
      <4> QED BY <2>5, <4>1, <4>2
    <3>3. ASSUME NEW t \in Timers, FirstOfToken(t) PROVE FirstOfToken(t)'
      <4>1. \A u \in 0 .. (t - 1) : u \in Timers
        BY HwTimerAssumption DEF Timers
      <4> QED BY <3>1, <3>3, <4>1 DEF FirstOfToken
    <3> QED BY <2>8, <3>1, <3>2, <3>3 DEF ArmedOK
  <2>10. DoutPinsOK'
    <3>1. LiveDout \subseteq DoutIndex
      BY DEF LiveDout
    <3> QED BY <2>1, <2>7, <2>8, <3>1 DEF DoutInv, DoutPinsOK
  <2>11. DoutTypeOK' /\ \A j \in DoutIndex : ~dout'[j].in_use => dout'[j] = DoutFree
    BY <2>1, <2>4, <2>6 DEF DoutInv, DoutTypeOK
  <2> QED BY <2>1, <2>5, <2>7, <2>9, <2>10, <2>11 DEF DoutInv, SwBalanced
<1> QED BY <1>4, <1>5, <1>6, <1>7 DEF digital_out_sensor_set_output

\* A software timer only runs for a live output, and its expiry keeps it.
LEMMA DoutSwExpires ==
    ASSUME DoutInv, TimersOK, NEW idx \in DoutIndex, sw_timer_callback(idx)
    PROVE  /\ DoutInv' /\ TimersOK' /\ PulseStep /\ SwTimers' = SwTimers
           /\ LiveDout' = LiveDout /\ UNCHANGED <<managerVars, heap>>
<1>1. /\ dout[idx].sw_timer = "RUNNING" /\ UNCHANGED <<managerVars, timers, heap, dout_pins>>
      /\ dout' = [dout EXCEPT ![idx].sw_timer = "STOPPED"]
  BY DEF sw_timer_callback
<1>2. dout[idx].in_use /\ dout[idx] \in DoutState /\ idx \in LiveDout
  BY <1>1, DoutFreeTyped DEF DoutInv, DoutTypeOK, LiveDout
<1>3. PICK x \in DoutState : x = dout[idx] /\ x.in_use /\ x.revert \in Level /\ "STOPPED" \in SwStates
  BY <1>2 DEF DoutState, SwStates
<1>4. PICK r : r = Timed(x, "STOPPED", x.revert)
  OBVIOUS
<1>5. dout' = [dout EXCEPT ![idx] = r]
  <2>1. r = [x EXCEPT !.sw_timer = "STOPPED"]
    BY <1>4 DEF DoutState, Timed
  <2> QED BY <1>1, <1>3, <2>1
<1>6. r \in DoutState /\ r.in_use /\ r.pin = x.pin /\ r.timer_kind = x.timer_kind /\ r.sw_timer = "STOPPED"
  BY <1>3, <1>4, DoutFieldWritten
<1>7. DoutInv' /\ LiveDout' = LiveDout
  BY <1>1, <1>2, <1>3, <1>5, <1>6, DoutTouched
<1>8. SwTimers' = SwTimers \cup {idx}
  BY <1>5, <1>6, DoutWritten
<1>9. SwTimers' = SwTimers
  BY <1>1, <1>8 DEF SwTimers
<1>10. TimersOK' /\ PulseStep
  BY <1>1 DEF TimersOK, arr_max, PulseStep
<1> QED BY <1>1, <1>7, <1>9, <1>10

LEMMA DoutHwExpires ==
    ASSUME DoutInv, TimersOK, NEW t \in Timers, handle_pulse_isr(t)
    PROVE  /\ DoutInv' /\ TimersOK' /\ PulseStep /\ SwTimers' = SwTimers
           /\ LiveDout' = LiveDout /\ UNCHANGED <<managerVars, heap>>
<1>1. /\ timers[t].state = "PULSE" /\ UNCHANGED <<managerVars, heap, dout, dout_pins>>
      /\ timers' = [timers EXCEPT ![t].armed = FALSE]
  BY DEF handle_pulse_isr, doutVars
<1>2. PICK x \in TimerRec : x = timers[t] /\ x.arr <= arr_max(t)
  BY DEF TimersOK
<1>3. /\ [x EXCEPT !.armed = FALSE] \in TimerRec /\ [x EXCEPT !.armed = FALSE].arr = x.arr
      /\ [x EXCEPT !.armed = FALSE].state = x.state /\ [x EXCEPT !.armed = FALSE].token = x.token
      /\ ~[x EXCEPT !.armed = FALSE].armed
  BY DEF TimerRec
<1>4. PICK r \in TimerRec : /\ r = [x EXCEPT !.armed = FALSE] /\ r.arr = x.arr /\ r.state = x.state
                            /\ r.token = x.token /\ ~r.armed
  BY <1>3
<1>5. timers' = [timers EXCEPT ![t] = r]
  BY <1>1, <1>2, <1>4
<1>6. TimersOK' /\ timers'[t] = r /\ \A u \in Timers : u # t => timers'[u] = timers[u]
  BY <1>2, <1>4, <1>5, TimerWritten
<1>7. DoutInv'
  BY <1>1, <1>2, <1>4, <1>6, TimersKeepDout
<1>8. PulseStep
  BY <1>1, <1>2, <1>4, <1>6 DEF PulseStep
<1> QED BY <1>1, <1>6, <1>7, <1>8 DEF SwTimers, LiveDout

-----------------------------------------------------------------------------
(* PWM sensors                                                              *)

LEMMA Division ==
    ASSUME NEW a \in Nat, NEW b \in Nat \ {0}
    PROVE  \E q \in Nat, r \in Nat : q = a \div b /\ r = a % b /\ r < b /\ a = b * q + r
<1>1. b \in Nat /\ b > 0
  OBVIOUS
<1>2. PICK q \in Int : q = a \div b /\ q >= 0
  OBVIOUS
<1>3. PICK r \in Int : r = a % b /\ r \in 0 .. (b - 1)
  OBVIOUS
<1>4. a = b * q + r
  BY <1>1, <1>2, <1>3
<1> QED BY <1>2, <1>3, <1>4

\* A quotient is positive exactly when the divisor fits.
LEMMA QuotientPositive ==
    ASSUME NEW a \in Nat, NEW b \in Nat \ {0}, b <= a
    PROVE  a \div b \in Nat /\ a \div b >= 1
<1>1. PICK q \in Nat, r \in Nat : q = a \div b /\ r < b /\ a = b * q + r
  BY Division
<1>2. q # 0
  BY <1>1
<1> QED BY <1>1, <1>2

\* Rounding a quotient up does not exceed the dividend.
LEMMA CeilingBounded ==
    ASSUME NEW a \in Nat, NEW m \in Nat, a >= 1
    PROVE  (a + m) \div (m + 1) \in Nat /\ (a + m) \div (m + 1) >= 1 /\ (a + m) \div (m + 1) <= a
<1>1. a + m \in Nat /\ m + 1 \in Nat \ {0} /\ m + 1 <= a + m
  OBVIOUS
<1>2. PICK q \in Nat, r \in Nat : q = (a + m) \div (m + 1) /\ a + m = (m + 1) * q + r
  BY <1>1, Division
<1>3. q >= 1
  BY <1>1, <1>2, QuotientPositive
<1>4. q <= a
  <2>1. SUFFICES ASSUME q >= a + 1 PROVE FALSE
    OBVIOUS
  <2>2. PICK k \in Nat : q = a + 1 + k
    <3>1. q - a - 1 \in Nat /\ q = a + 1 + (q - a - 1)
      BY <2>1
    <3> QED BY <3>1
  <2>3. (m + 1) * q = m * a + m + m * k + a + 1 + k
    BY <2>2
  <2>4. m * a \in Nat /\ m * k \in Nat
    OBVIOUS
  <2> QED BY <1>2, <2>3, <2>4
<1> QED BY <1>2, <1>3, <1>4

\* compute_psc_arr: an accepted frequency gives a prescaler and a reload value
\* that fit their registers, and the reload value is not negative (the
\* subtraction of one never wraps).
LEMMA PscArrFit ==
    ASSUME NEW f \in Nat, NEW m \in Nat, compute_psc_arr(f, m).ok
    PROVE  compute_psc_arr(f, m).psc \in 0 .. HW_TIMER_PSC_MAX /\ compute_psc_arr(f, m).arr \in 0 .. m
<1>1. CASE f = 0 \/ f > HW_TIMER_CLOCK_HZ \div 2
  BY <1>1 DEF compute_psc_arr
<1>2. CASE f # 0 /\ f <= HW_TIMER_CLOCK_HZ \div 2
  <2>1. HW_TIMER_CLOCK_HZ \in Nat /\ HW_TIMER_PSC_MAX \in Nat
    BY HwTimerAssumption
  <2>2. f <= HW_TIMER_CLOCK_HZ
    <3>1. PICK q \in Nat, r \in Nat : q = HW_TIMER_CLOCK_HZ \div 2 /\ HW_TIMER_CLOCK_HZ = 2 * q + r
      BY <2>1, Division
    <3> QED BY <1>2, <2>1, <3>1
  <2>3. PICK period \in Nat : period = HW_TIMER_CLOCK_HZ \div f /\ period >= 1
    BY <1>2, <2>1, <2>2, QuotientPositive
  <2>4. PICK ceil \in Nat : ceil = (period + m) \div (m + 1) /\ ceil >= 1 /\ ceil <= period
    BY <2>3, CeilingBounded
  <2>5. PICK d \in Nat : d = period \div ceil /\ d >= 1
    BY <2>4, QuotientPositive
  <2>6. compute_psc_arr(f, m) =
          IF ceil > HW_TIMER_PSC_MAX + 1 \/ d - 1 > m
          THEN [ok |-> FALSE, psc |-> 0, arr |-> 0]
          ELSE [ok |-> TRUE, psc |-> ceil - 1, arr |-> d - 1]
    <3>1. (IF ceil = 0 THEN 1 ELSE ceil) = ceil
      BY <2>4
    <3>2. ~(f = 0 \/ f > HW_TIMER_CLOCK_HZ \div 2)
      BY <1>2, <2>1
    <3> QED BY <2>3, <2>4, <2>5, <3>1, <3>2 DEF compute_psc_arr
  <2>7. CASE ceil > HW_TIMER_PSC_MAX + 1 \/ d - 1 > m
    BY <2>6, <2>7
  <2>8. CASE ~(ceil > HW_TIMER_PSC_MAX + 1 \/ d - 1 > m)
    <3>1. compute_psc_arr(f, m).psc = ceil - 1 /\ compute_psc_arr(f, m).arr = d - 1
      BY <2>6, <2>8
    <3> QED BY <2>1, <2>4, <2>5, <2>8, <3>1
  <2> QED BY <2>7, <2>8
<1> QED BY <1>1, <1>2, HwTimerAssumption

\* compute_ccr: whatever the 32-bit product wraps to, the compare value fits.
LEMMA CcrFits ==
    ASSUME NEW arr \in 0 .. HW_TIMER_ARR_MAX_32, NEW duty \in Nat
    PROVE  compute_ccr(arr, duty) \in 0 .. HW_TIMER_ARR_MAX_32
<1>1. HW_TIMER_ARR_MAX_32 \in Nat /\ PWM_DUTY_MAX \in Nat \ {0}
  BY HwTimerAssumption, PwmAssumption
<1>2. CASE duty = 0
  BY <1>1, <1>2 DEF compute_ccr
<1>3. CASE duty # 0 /\ duty >= PWM_DUTY_MAX
  BY <1>1, <1>3 DEF compute_ccr
<1>4. CASE duty # 0 /\ ~(duty >= PWM_DUTY_MAX)
  <2>1. PICK z \in Nat : z = ((arr + 1) * duty) % (HW_TIMER_ARR_MAX_32 + 1) /\ z <= HW_TIMER_ARR_MAX_32
    <3>1. (arr + 1) * duty \in Nat /\ HW_TIMER_ARR_MAX_32 + 1 \in Nat \ {0}
      BY <1>1
    <3> QED BY <1>1, <3>1, Division
  <2>2. compute_ccr(arr, duty) = z \div PWM_DUTY_MAX
    BY <1>4, <2>1 DEF compute_ccr
  <2>3. PICK q \in Nat, r \in Nat : q = z \div PWM_DUTY_MAX /\ z = PWM_DUTY_MAX * q + r
    BY <1>1, Division
  <2>4. q <= z
    <3>1. PICK k \in Nat : PWM_DUTY_MAX = k + 1
      <4>1. PWM_DUTY_MAX - 1 \in Nat /\ PWM_DUTY_MAX = (PWM_DUTY_MAX - 1) + 1
        BY <1>1
      <4> QED BY <4>1
    <3>2. PWM_DUTY_MAX * q = k * q + q /\ k * q \in Nat
      BY <3>1
    <3> QED BY <2>3, <3>2
  <2> QED BY <1>1, <2>1, <2>2, <2>3, <2>4
<1> QED BY <1>2, <1>3, <1>4

\* On a 16-bit timer the compare value is the duty to within one count.
LEMMA CcrExact ==
    ASSUME NEW arr \in 0 .. HW_TIMER_ARR_MAX_16, NEW duty \in 0 .. PWM_DUTY_MAX
    PROVE  /\ compute_ccr(arr, duty) * PWM_DUTY_MAX - (arr + 1) * duty <= PWM_DUTY_MAX
           /\ -(compute_ccr(arr, duty) * PWM_DUTY_MAX - (arr + 1) * duty) <= PWM_DUTY_MAX
<1>1. /\ HW_TIMER_ARR_MAX_16 \in Nat /\ HW_TIMER_ARR_MAX_32 \in Nat /\ PWM_DUTY_MAX \in Nat \ {0}
      /\ (HW_TIMER_ARR_MAX_16 + 1) * PWM_DUTY_MAX <= HW_TIMER_ARR_MAX_32 + 1
  BY HwTimerAssumption, PwmAssumption, DutyAssumption
<1>2. CASE duty = 0
  <2>1. compute_ccr(arr, duty) = 0
    BY <1>1, <1>2 DEF compute_ccr
  <2> QED BY <1>1, <1>2, <2>1
<1>3. CASE duty = PWM_DUTY_MAX
  <2>1. compute_ccr(arr, duty) = arr
    BY <1>1, <1>3 DEF compute_ccr
  <2>2. arr * PWM_DUTY_MAX - (arr + 1) * PWM_DUTY_MAX = -PWM_DUTY_MAX
    BY <1>1
  <2> QED BY <1>1, <1>3, <2>1, <2>2
<1>4. CASE duty > 0 /\ duty < PWM_DUTY_MAX
  <2>1. PICK z \in Nat : z = (arr + 1) * duty
    BY <1>1
  <2>2. z < HW_TIMER_ARR_MAX_32 + 1
    <3>1. (arr + 1) * duty < (arr + 1) * PWM_DUTY_MAX
      BY <1>1, <1>4
    <3>2. (arr + 1) * PWM_DUTY_MAX <= (HW_TIMER_ARR_MAX_16 + 1) * PWM_DUTY_MAX
      BY <1>1
    <3>3. /\ (arr + 1) * duty \in Int /\ (arr + 1) * PWM_DUTY_MAX \in Int
          /\ (HW_TIMER_ARR_MAX_16 + 1) * PWM_DUTY_MAX \in Int
      BY <1>1
    <3> QED BY <1>1, <2>1, <3>1, <3>2, <3>3
  <2>3. z % (HW_TIMER_ARR_MAX_32 + 1) = z
    BY <1>1, <2>2
  <2>4. compute_ccr(arr, duty) = z \div PWM_DUTY_MAX
    BY <1>1, <1>4, <2>1, <2>3 DEF compute_ccr
  <2>5. PICK q \in Nat, r \in Nat : q = z \div PWM_DUTY_MAX /\ r < PWM_DUTY_MAX /\ z = PWM_DUTY_MAX * q + r
    BY <1>1, Division
  <2>6. q * PWM_DUTY_MAX - z = -r
    BY <1>1, <2>5
  <2> QED BY <1>1, <2>1, <2>4, <2>5, <2>6
<1> QED BY <1>1, <1>2, <1>3, <1>4

PwmRec == [in_use : BOOLEAN, pin : Pins, timer_id : Timers, channel : Channels]
OutRec == [enabled : BOOLEAN, ccr : 0 .. HW_TIMER_ARR_MAX_32]

\* A live PWM sensor sits in the slot of its timer and channel, a slot not in
\* use is cleared.
PwmPlaced ==
    /\ pwm \in [PwmIndex -> PwmRec]
    /\ \A i \in PwmIndex : IF pwm[i].in_use THEN i = pwm_slot_for(pwm[i].timer_id, pwm[i].channel)
                           ELSE pwm[i] = PwmFree

OutsOK ==
    /\ pwm_out \in [Timers \X Channels -> OutRec]
    /\ \A tc \in Timers \X Channels : ~pwm_out[tc].enabled => pwm_out[tc] = PwmChannelOff

PwmPinsOK ==
    /\ pwm_pins \subseteq Pins /\ pwm_pins = {pwm[i].pin : i \in LivePwm}
    /\ \A i, j \in LivePwm : pwm[i].pin = pwm[j].pin => i = j

LiveChannels(t) == {c \in Channels : pwm[pwm_slot_for(t, c)].in_use}

TimerOwned(t) ==
    /\ (timers[t].state = "PWM") <=> (LiveChannels(t) # {})
    /\ timers[t].state = "PWM" => timers[t].pwm_ref_count = Cardinality(LiveChannels(t))
    /\ \A c \in Channels : pwm_out[<<t, c>>].enabled <=> c \in LiveChannels(t)

PwmInv == PwmPlaced /\ OutsOK /\ PwmPinsOK /\ \A t \in Timers : TimerOwned(t)

LEMMA PwmSlotInTable ==
    ASSUME NEW t \in Timers, NEW c \in Channels
    PROVE  pwm_slot_for(t, c) \in PwmIndex
<1>1. /\ HW_TIMER_COUNT \in Nat /\ HW_TIMER_MAX_CHANNELS \in Nat
      /\ t \in Row(HW_TIMER_COUNT) /\ c - 1 \in Row(HW_TIMER_MAX_CHANNELS)
  BY HwTimerAssumption, PwmAssumption DEF Timers, Channels, Row
<1> QED BY <1>1, CellInTable DEF pwm_slot_for, PwmIndex, Row

LEMMA PwmSlotsDiffer ==
    ASSUME NEW t \in Timers, NEW c \in Channels, NEW u \in Timers, NEW d \in Channels,
           pwm_slot_for(t, c) = pwm_slot_for(u, d)
    PROVE  t = u /\ c = d
<1>1. /\ HW_TIMER_MAX_CHANNELS \in Nat /\ t \in Nat /\ u \in Nat
      /\ c - 1 \in Row(HW_TIMER_MAX_CHANNELS) /\ d - 1 \in Row(HW_TIMER_MAX_CHANNELS)
  BY HwTimerAssumption, PwmAssumption DEF Timers, Channels, Row
<1>2. t = u /\ c - 1 = d - 1
  BY <1>1, CellsDiffer DEF pwm_slot_for
<1> QED BY <1>2, PwmAssumption DEF Channels

LEMMA LiveChannelsFinite ==
    ASSUME NEW t
    PROVE  /\ IsFiniteSet(LiveChannels(t)) /\ Cardinality(LiveChannels(t)) \in Nat
           /\ (Cardinality(LiveChannels(t)) = 0) <=> (LiveChannels(t) = {})
           /\ \A c \in Channels \ LiveChannels(t) : Cardinality(LiveChannels(t)) + 1 <= HW_TIMER_MAX_CHANNELS
<1>1. IsFiniteSet(Channels) /\ Cardinality(Channels) = HW_TIMER_MAX_CHANNELS
  BY FS_Interval, PwmAssumption DEF Channels
<1>2. LiveChannels(t) \subseteq Channels
  BY DEF LiveChannels
<1>3. IsFiniteSet(LiveChannels(t))
  BY <1>1, <1>2, FS_Subset
<1>4. Cardinality(LiveChannels(t)) \in Nat
  BY <1>3, FS_CardinalityType
<1>5. (Cardinality(LiveChannels(t)) = 0) <=> (LiveChannels(t) = {})
  BY <1>3, FS_EmptySet
<1>6. ASSUME NEW c \in Channels \ LiveChannels(t)
      PROVE  Cardinality(LiveChannels(t)) + 1 <= HW_TIMER_MAX_CHANNELS
  <2>1. Cardinality(LiveChannels(t) \cup {c}) = Cardinality(LiveChannels(t)) + 1
    BY <1>3, CardUp
  <2>2. LiveChannels(t) \cup {c} \subseteq Channels
    BY <1>2
  <2>3. Cardinality(LiveChannels(t) \cup {c}) <= Cardinality(Channels)
    BY <1>1, <2>2, FS_Subset
  <2> QED BY <1>1, <2>1, <2>3
<1> QED BY <1>3, <1>4, <1>5, <1>6

\* A PWM slot is filled or cleared, and what follows for the live channels.
PwmSlotIs(t, c, r) ==
    /\ pwm'[pwm_slot_for(t, c)] = r
    /\ \A i \in PwmIndex : i # pwm_slot_for(t, c) => pwm'[i] = pwm[i]
    /\ \A u \in Timers : u # t => LiveChannels(u)' = LiveChannels(u)
    /\ LiveChannels(t)' = IF r.in_use THEN LiveChannels(t) \cup {c} ELSE LiveChannels(t) \ {c}
    /\ LivePwm' = IF r.in_use THEN LivePwm \cup {pwm_slot_for(t, c)} ELSE LivePwm \ {pwm_slot_for(t, c)}

LEMMA PwmWritten ==
    ASSUME PwmPlaced, NEW t \in Timers, NEW c \in Channels, NEW r \in PwmRec,
           r.in_use => r.timer_id = t /\ r.channel = c, ~r.in_use => r = PwmFree,
           pwm' = [pwm EXCEPT ![pwm_slot_for(t, c)] = r]
    PROVE  PwmPlaced' /\ PwmSlotIs(t, c, r)
<1>1. pwm_slot_for(t, c) \in PwmIndex
  BY PwmSlotInTable
<1>2. ASSUME NEW i \in PwmIndex
      PROVE  pwm'[i] = IF i = pwm_slot_for(t, c) THEN r ELSE pwm[i]
  BY <1>1 DEF PwmPlaced
<1>3. pwm' \in [PwmIndex -> PwmRec]
  BY <1>1 DEF PwmPlaced
<1>4. PwmPlaced'
  BY <1>1, <1>2, <1>3 DEF PwmPlaced
<1>5. ASSUME NEW u \in Timers, NEW d \in Channels
      PROVE  pwm'[pwm_slot_for(u, d)] = IF u = t /\ d = c THEN r ELSE pwm[pwm_slot_for(u, d)]
  BY <1>2, PwmSlotInTable, PwmSlotsDiffer
<1>6. ASSUME NEW u \in Timers, u # t PROVE LiveChannels(u)' = LiveChannels(u)
  BY <1>5, <1>6 DEF LiveChannels
<1>7. LiveChannels(t)' = IF r.in_use THEN LiveChannels(t) \cup {c} ELSE LiveChannels(t) \ {c}
  BY <1>5 DEF LiveChannels
<1>8. LivePwm' = IF r.in_use THEN LivePwm \cup {pwm_slot_for(t, c)} ELSE LivePwm \ {pwm_slot_for(t, c)}
  BY <1>1, <1>2 DEF LivePwm
<1> QED BY <1>1, <1>2, <1>4, <1>6, <1>7, <1>8 DEF PwmSlotIs

\* A channel register is written.
LEMMA OutWritten ==
    ASSUME OutsOK, NEW t \in Timers, NEW c \in Channels, NEW r \in OutRec, ~r.enabled => r = PwmChannelOff,
           pwm_out' = [pwm_out EXCEPT ![<<t, c>>] = r]
    PROVE  /\ OutsOK'
           /\ \A u \in Timers, d \in Channels :
                 pwm_out'[<<u, d>>] = IF u = t /\ d = c THEN r ELSE pwm_out[<<u, d>>]
<1>1. <<t, c>> \in Timers \X Channels
  OBVIOUS
<1>2. ASSUME NEW tc \in Timers \X Channels
      PROVE  pwm_out'[tc] = IF tc = <<t, c>> THEN r ELSE pwm_out[tc]
  BY <1>1 DEF OutsOK
<1>3. pwm_out' \in [Timers \X Channels -> OutRec]
  BY <1>1 DEF OutsOK
<1>4. OutsOK'
  BY <1>2, <1>3 DEF OutsOK
<1>5. ASSUME NEW u \in Timers, NEW d \in Channels
      PROVE  pwm_out'[<<u, d>>] = IF u = t /\ d = c THEN r ELSE pwm_out[<<u, d>>]
  <2>1. <<u, d>> \in Timers \X Channels /\ (<<u, d>> = <<t, c>> <=> (u = t /\ d = c))
    OBVIOUS
  <2> QED BY <1>2, <2>1
<1> QED BY <1>4, <1>5

\* Pulse calls leave the PWM timers alone.
LEMMA PulseKeepsPwm ==
    ASSUME PwmInv, PulseStep, UNCHANGED pwmVars
    PROVE  PwmInv' /\ LivePwm' = LivePwm
<1>1. pwm' = pwm /\ pwm_pins' = pwm_pins /\ pwm_out' = pwm_out
  BY DEF pwmVars
<1>2. ASSUME NEW t \in Timers PROVE TimerOwned(t)'
  <2>1. TimerOwned(t) /\ LiveChannels(t)' = LiveChannels(t)
    BY <1>1 DEF PwmInv, LiveChannels
  <2> QED BY <1>1, <2>1 DEF PulseStep, TimerOwned
<1> QED BY <1>1, <1>2 DEF PwmInv, PwmPlaced, OutsOK, PwmPinsOK, LivePwm

\* A timer file other than the current one: the one in the middle of a setup.
TimerFileOK(T) ==
    /\ T \in [Timers -> TimerRec]
    /\ \A t \in Timers : T[t].arr <= arr_max(t)

\* hw_timer_pwm_acquire: a timer in pulse mode is refused; otherwise the timer
\* runs PWM and counts one channel more.
LEMMA PwmAcquire ==
    ASSUME TimersOK, ArmedOK, NEW t \in Timers, NEW f \in Nat,
           hw_timer_pwm_acquire_err(t, f) = "ERR_SUCCESS",
           timers[t].state = "PWM" => timers[t].pwm_ref_count + 1 <= HW_TIMER_MAX_CHANNELS
    PROVE  \E T : /\ T = hw_timer_pwm_acquire(t, f)
                  /\ TimerFileOK(T) /\ \A u \in Timers : u # t => T[u] = timers[u]
                  /\ timers[t].state # "PULSE" /\ T[t].state = "PWM" /\ ~T[t].armed
                  /\ T[t].pwm_ref_count = IF timers[t].state = "PWM" THEN timers[t].pwm_ref_count + 1 ELSE 1
<1>1. PICK c : c = compute_psc_arr(f, arr_max(t))
  OBVIOUS
<1>2. timers[t].state # "PULSE" /\ c.ok
  BY <1>1 DEF hw_timer_pwm_acquire_err
<1>3. arr_max(t) \in Nat /\ arr_max(t) <= HW_TIMER_ARR_MAX_32 /\ HW_TIMER_ARR_MAX_32 \in Nat
  BY ArrMax, HwTimerAssumption
<1>4. c.psc \in 0 .. HW_TIMER_PSC_MAX /\ c.arr \in 0 .. arr_max(t)
  BY <1>1, <1>2, <1>3, PscArrFit
<1>5. c.arr \in 0 .. HW_TIMER_ARR_MAX_32 /\ c.arr <= arr_max(t)
  BY <1>3, <1>4
<1>6. PICK x \in TimerRec : x = timers[t] /\ x.arr <= arr_max(t)
  BY DEF TimersOK
<1>7. ASSUME NEW r \in TimerRec, r.arr <= arr_max(t), r.state = "PWM", ~r.armed,
             r.pwm_ref_count = (IF timers[t].state = "PWM" THEN timers[t].pwm_ref_count + 1 ELSE 1),
             hw_timer_pwm_acquire(t, f) = [timers EXCEPT ![t] = r]
      PROVE  \E T : /\ T = hw_timer_pwm_acquire(t, f)
                    /\ TimerFileOK(T) /\ \A u \in Timers : u # t => T[u] = timers[u]
                    /\ timers[t].state # "PULSE" /\ T[t].state = "PWM" /\ ~T[t].armed
                    /\ T[t].pwm_ref_count = IF timers[t].state = "PWM" THEN timers[t].pwm_ref_count + 1 ELSE 1
  <2>1. PICK T : T = [timers EXCEPT ![t] = r]
    OBVIOUS
  <2>2. T \in [Timers -> TimerRec] /\ T[t] = r /\ \A u \in Timers : u # t => T[u] = timers[u]
    BY <2>1 DEF TimersOK
  <2>3. TimerFileOK(T)
    BY <1>7, <2>2 DEF TimerFileOK, TimersOK
  <2> QED BY <1>2, <1>7, <2>1, <2>2, <2>3
<1>8. CASE timers[t].state = "PWM"
  <2>1. ~x.armed /\ x.state = "PWM" /\ x.pwm_ref_count + 1 \in 0 .. HW_TIMER_MAX_CHANNELS
    BY <1>6, <1>8, PwmAssumption DEF ArmedOK, TimerRec
  <2>2. PICK n \in 0 .. HW_TIMER_MAX_CHANNELS : n = x.pwm_ref_count + 1
    BY <2>1
  <2>3. /\ [x EXCEPT !.pwm_ref_count = n] \in TimerRec /\ [x EXCEPT !.pwm_ref_count = n].arr = x.arr
        /\ [x EXCEPT !.pwm_ref_count = n].state = x.state /\ [x EXCEPT !.pwm_ref_count = n].armed = x.armed
        /\ [x EXCEPT !.pwm_ref_count = n].pwm_ref_count = n
    BY DEF TimerRec
  <2>4. PICK r \in TimerRec : /\ r = [x EXCEPT !.pwm_ref_count = n] /\ r.arr = x.arr /\ r.state = x.state
                              /\ r.armed = x.armed /\ r.pwm_ref_count = n
    BY <2>3
  <2>5. hw_timer_pwm_acquire(t, f) = [timers EXCEPT ![t] = r]
    BY <1>6, <1>8, <2>2, <2>4 DEF hw_timer_pwm_acquire
  <2> QED BY <1>6, <1>7, <1>8, <2>1, <2>2, <2>4, <2>5
<1>9. CASE timers[t].state # "PWM"
  <2>1. PICK ps \in 0 .. HW_TIMER_PSC_MAX, ar \in 0 .. HW_TIMER_ARR_MAX_32 : ps = c.psc /\ ar = c.arr
    BY <1>4, <1>5
  <2>2. 1 \in 0 .. HW_TIMER_MAX_CHANNELS
    BY PwmAssumption
  <2>3. PICK r \in TimerRec :
          /\ r = [FreeTimer EXCEPT !.state = "PWM", !.psc = ps, !.arr = ar, !.pwm_ref_count = 1]
          /\ r.arr = ar /\ r.state = "PWM" /\ ~r.armed /\ r.pwm_ref_count = 1
    <3>1. PICK r : r = [FreeTimer EXCEPT !.state = "PWM", !.psc = ps, !.arr = ar, !.pwm_ref_count = 1]
      OBVIOUS
    <3>2. r \in TimerRec /\ r.arr = ar /\ r.state = "PWM" /\ ~r.armed /\ r.pwm_ref_count = 1
      BY <2>2, <3>1, FreeTimerTyped DEF TimerRec
    <3> QED BY <3>1, <3>2
  <2>4. hw_timer_pwm_acquire(t, f) = [timers EXCEPT ![t] = r]
    BY <1>1, <1>9, <2>1, <2>3 DEF hw_timer_pwm_acquire
  <2> QED BY <1>5, <1>7, <1>9, <2>1, <2>3, <2>4
<1> QED BY <1>8, <1>9

\* hw_timer_pwm_release: one channel less, and the last one frees the timer.
LEMMA PwmRelease ==
    ASSUME NEW T, TimerFileOK(T), NEW t \in Timers, T[t].state = "PWM", timers' = hw_timer_pwm_release(T, t)
    PROVE  /\ TimersOK' /\ \A u \in Timers : u # t => timers'[u] = T[u]
           /\ IF T[t].pwm_ref_count > 1
              THEN /\ timers'[t].state = "PWM" /\ timers'[t].armed = T[t].armed
                   /\ timers'[t].pwm_ref_count = T[t].pwm_ref_count - 1
              ELSE timers'[t] = FreeTimer
<1>1. PICK x \in TimerRec : x = T[t] /\ x.arr <= arr_max(t) /\ x.state = "PWM"
  BY DEF TimerFileOK
<1>2. ASSUME NEW r \in TimerRec, r.arr <= arr_max(t), timers' = [T EXCEPT ![t] = r]
      PROVE  TimersOK' /\ timers'[t] = r /\ \A u \in Timers : u # t => timers'[u] = T[u]
  <2>1. timers' \in [Timers -> TimerRec] /\ timers'[t] = r /\ \A u \in Timers : u # t => timers'[u] = T[u]
    BY <1>2 DEF TimerFileOK
  <2> QED BY <1>2, <2>1 DEF TimersOK, TimerFileOK, arr_max
<1>3. CASE x.pwm_ref_count > 1
  <2>1. PICK n \in 0 .. HW_TIMER_MAX_CHANNELS : n = x.pwm_ref_count - 1
    BY <1>3, PwmAssumption DEF TimerRec
  <2>2. PICK r : r = [x EXCEPT !.pwm_ref_count = n]
    OBVIOUS
  <2>3. r \in TimerRec /\ r.arr = x.arr /\ r.state = "PWM" /\ r.armed = x.armed /\ r.pwm_ref_count = n
    BY <1>1, <2>2 DEF TimerRec
  <2>4. timers' = [T EXCEPT ![t] = r]
    BY <1>1, <1>3, <2>1, <2>2 DEF hw_timer_pwm_release
  <2>5. TimersOK' /\ timers'[t] = r /\ \A u \in Timers : u # t => timers'[u] = T[u]
    BY <1>1, <1>2, <2>3, <2>4
  <2> QED BY <1>1, <1>3, <2>1, <2>3, <2>5
<1>4. CASE ~(x.pwm_ref_count > 1)
  <2>1. timers' = [T EXCEPT ![t] = FreeTimer]
    BY <1>1, <1>4 DEF hw_timer_pwm_release
  <2>2. FreeTimer \in TimerRec /\ FreeTimer.arr <= arr_max(t)
    BY FreeTimerTyped, ArrMax
  <2> QED BY <1>1, <1>2, <1>4, <2>1, <2>2
<1> QED BY <1>3, <1>4

LEMMA PwmFreeTyped ==
    /\ PwmFree \in PwmRec /\ ~PwmFree.in_use
    /\ PwmChannelOff \in OutRec /\ ~PwmChannelOff.enabled
<1>1. (CHOOSE p \in Pins : TRUE) \in Pins /\ 0 \in Timers /\ 1 \in Channels
  BY GpioAssumption, HwTimerAssumption, PwmAssumption DEF Timers, Channels
<1>2. 0 \in 0 .. HW_TIMER_ARR_MAX_32
  BY HwTimerAssumption
<1> QED BY <1>1, <1>2 DEF PwmFree, PwmRec, PwmChannelOff, OutRec

\* A timer that no step of another timer's channel has touched.
LEMMA OtherTimerOwned ==
    ASSUME NEW u, TimerOwned(u), timers'[u] = timers[u], LiveChannels(u)' = LiveChannels(u),
           \A c \in Channels : pwm_out'[<<u, c>>] = pwm_out[<<u, c>>]
    PROVE  TimerOwned(u)'
BY DEF TimerOwned

\* pwm_sensor_setup: timer, channel register, pin and slot are taken together
\* or, when the table is full, all given back.
LEMMA PwmSetup ==
    ASSUME PwmInv, TimersOK, ArmedOK, TableOK, NEW cfg \in PwmCfgs, pwm_sensor_setup(cfg)
    PROVE  /\ PwmInv' /\ TimersOK' /\ PwmStep
           /\ \/ Refused /\ UNCHANGED pwmVars
              \/ \E n \in PwmIndex \ LivePwm :
                    Accepted("PWM", n) /\ LivePwm' = LivePwm \cup {n} /\ heap' = heap
<1>1. CASE \E err : err # "ERR_SUCCESS" /\ PwmReject(err)
  <2>1. Refused /\ UNCHANGED pwmVars /\ timers' = timers
    BY <1>1, RejectFields DEF PwmReject, Refused, backendVars
  <2>2. TimersOK' /\ PwmStep /\ PulseStep
    BY <2>1 DEF TimersOK, arr_max, PwmStep, PulseStep
  <2>3. PwmInv'
    BY <2>1, <2>2, PulseKeepsPwm
  <2> QED BY <2>1, <2>2, <2>3
<1>2. CASE pwm_setup_err(cfg) = "ERR_SUCCESS" /\ PwmInstall(cfg)
  <2>1. PICK t \in Timers : t = cfg.timer
    BY PwmAssumption
  <2>2. PICK c \in Channels : c = cfg.channel
    BY PwmAssumption
  <2>3. cfg.freq_hz \in Nat /\ cfg.duty \in Nat /\ cfg.pin \in Pins
    BY PwmAssumption
  <2>4. PICK idx \in PwmIndex : idx = pwm_slot_for(t, c)
    BY PwmSlotInTable
  <2>5. /\ ~pwm[idx].in_use /\ cfg.pin \notin pwm_pins
        /\ hw_timer_pwm_acquire_err(t, cfg.freq_hz) = "ERR_SUCCESS"
    BY <1>2, <2>1, <2>2, <2>4 DEF pwm_setup_err
  <2>6. idx \notin LivePwm /\ c \notin LiveChannels(t) /\ TimerOwned(t)
    BY <2>4, <2>5 DEF LivePwm, LiveChannels, PwmInv
  <2>7. /\ IsFiniteSet(LiveChannels(t)) /\ Cardinality(LiveChannels(t)) \in Nat
        /\ (Cardinality(LiveChannels(t)) = 0) <=> (LiveChannels(t) = {})
        /\ Cardinality(LiveChannels(t)) + 1 <= HW_TIMER_MAX_CHANNELS
    BY <2>6, LiveChannelsFinite
  <2>8. timers[t].state = "PWM" => timers[t].pwm_ref_count + 1 <= HW_TIMER_MAX_CHANNELS
    BY <2>6, <2>7 DEF TimerOwned
  <2>9. PICK T : /\ T = hw_timer_pwm_acquire(t, cfg.freq_hz)
                 /\ TimerFileOK(T) /\ \A u \in Timers : u # t => T[u] = timers[u]
                 /\ timers[t].state # "PULSE" /\ T[t].state = "PWM" /\ ~T[t].armed
                 /\ T[t].pwm_ref_count = IF timers[t].state = "PWM" THEN timers[t].pwm_ref_count + 1 ELSE 1
    BY <2>3, <2>5, <2>8, PwmAcquire
  <2>10. PICK id \in MaybeId :
        /\ sensor_manager_register("PWM", idx, id) /\ heap' = heap
        /\ IF id = PROTO_SENSOR_ID_NONE
           THEN /\ Return("ERR_OUT_OF_RESOURCES", id)
                /\ timers' = hw_timer_pwm_release(T, t)
                /\ pwm_out' = [pwm_out EXCEPT ![<<t, c>>] = PwmChannelOff]
                /\ pwm' = [pwm EXCEPT ![idx] = PwmFree]
                /\ UNCHANGED pwm_pins
           ELSE /\ Return("ERR_SUCCESS", id)
                /\ timers' = T
                /\ pwm_pins' = pwm_pins \cup {cfg.pin}
                /\ pwm_out' = [pwm_out EXCEPT ![<<t, c>>] =
                      channel_configure(compute_ccr(T[t].arr, cfg.duty))]
                /\ pwm' = [pwm EXCEPT ![idx] = [in_use |-> TRUE, pin |-> cfg.pin,
                                    timer_id |-> t, channel |-> c]]
    BY <1>2, <2>1, <2>2, <2>4, <2>9 DEF PwmInstall
  <2>11. T[t].pwm_ref_count = Cardinality(LiveChannels(t)) + 1
    BY <2>6, <2>7, <2>9 DEF TimerOwned
  <2>12. CASE id = PROTO_SENSOR_ID_NONE
    <3>1. UNCHANGED managerVars
      BY <2>10, <2>12, RegisterFails
    <3>2. Refused
      BY <2>10, <2>12, <3>1, ReturnFields DEF Refused
    <3>3. pwm' = pwm
      <4>1. pwm[idx] = PwmFree /\ pwm \in [PwmIndex -> PwmRec]
        BY <2>5 DEF PwmInv, PwmPlaced
      <4> QED BY <2>10, <2>12, <4>1
    <3>4. pwm_out' = pwm_out
      <4>1. <<t, c>> \in Timers \X Channels /\ ~pwm_out[<<t, c>>].enabled
        BY <2>6 DEF TimerOwned
      <4>2. pwm_out[<<t, c>>] = PwmChannelOff /\ pwm_out \in [Timers \X Channels -> OutRec]
        BY <4>1 DEF PwmInv, OutsOK
      <4> QED BY <2>10, <2>12, <4>1, <4>2
    <3>5. UNCHANGED pwmVars
      BY <2>10, <2>12, <3>3, <3>4 DEF pwmVars
    <3>6. /\ TimersOK' /\ \A u \in Timers : u # t => timers'[u] = T[u]
          /\ IF T[t].pwm_ref_count > 1
             THEN /\ timers'[t].state = "PWM" /\ timers'[t].armed = T[t].armed
                  /\ timers'[t].pwm_ref_count = T[t].pwm_ref_count - 1
             ELSE timers'[t] = FreeTimer
      BY <2>9, <2>10, <2>12, PwmRelease
    <3>7. PwmStep
      BY <2>9, <3>6, FreeTimerTyped DEF PwmStep
    <3>8. TimerOwned(t)'
      <4>1. LiveChannels(t)' = LiveChannels(t)
        BY <3>3 DEF LiveChannels
      <4>2. CASE LiveChannels(t) = {}
        BY <2>6, <2>7, <2>11, <3>4, <3>6, <4>1, <4>2, FreeTimerTyped DEF TimerOwned
      <4>3. CASE LiveChannels(t) # {}
        BY <2>6, <2>7, <2>11, <3>4, <3>6, <4>1, <4>3 DEF TimerOwned
      <4> QED BY <4>2, <4>3
    <3>9. ASSUME NEW u \in Timers PROVE TimerOwned(u)'
      <4>1. CASE u # t
        <5>1. TimerOwned(u) /\ timers'[u] = timers[u]
          BY <2>9, <3>6, <4>1 DEF PwmInv
        <5>2. LiveChannels(u)' = LiveChannels(u)
          BY <3>3 DEF LiveChannels
        <5> QED BY <3>4, <5>1, <5>2, OtherTimerOwned
      <4> QED BY <3>8, <4>1
    <3>10. PwmInv'
      BY <3>3, <3>4, <3>9, <2>10, <2>12 DEF PwmInv, PwmPlaced, OutsOK, PwmPinsOK, LivePwm
    <3> QED BY <3>2, <3>5, <3>6, <3>7, <3>10
  <2>13. CASE id # PROTO_SENSOR_ID_NONE
    <3>1. PICK r \in PwmRec : r = [in_use |-> TRUE, pin |-> cfg.pin, timer_id |-> t, channel |-> c]
      BY <2>3 DEF PwmRec
    <3>2. r.in_use /\ r.pin = cfg.pin /\ r.timer_id = t /\ r.channel = c
      BY <3>1
    <3>3. pwm' = [pwm EXCEPT ![pwm_slot_for(t, c)] = r]
      BY <2>4, <2>10, <2>13, <3>1
    <3>4. /\ PwmPlaced' /\ pwm'[idx] = r /\ \A i \in PwmIndex : i # idx => pwm'[i] = pwm[i]
          /\ \A u \in Timers : u # t => LiveChannels(u)' = LiveChannels(u)
          /\ LiveChannels(t)' = LiveChannels(t) \cup {c}
          /\ LivePwm' = LivePwm \cup {idx}
      <4>1. PwmPlaced /\ (r.in_use => r.timer_id = t /\ r.channel = c) /\ (~r.in_use => r = PwmFree)
        BY <3>2 DEF PwmInv
      <4>2. PwmPlaced' /\ PwmSlotIs(t, c, r)
        BY <3>3, <4>1, PwmWritten
      <4> QED BY <2>4, <3>2, <4>2 DEF PwmSlotIs
    <3>5. PICK o \in OutRec : o = channel_configure(compute_ccr(T[t].arr, cfg.duty)) /\ o.enabled
      <4>1. T[t].arr \in 0 .. HW_TIMER_ARR_MAX_32
        BY <2>9 DEF TimerFileOK, TimerRec
      <4>2. PICK ccr \in 0 .. HW_TIMER_ARR_MAX_32 : ccr = compute_ccr(T[t].arr, cfg.duty)
        BY <2>3, <4>1, CcrFits
      <4>3. channel_configure(ccr) \in OutRec /\ channel_configure(ccr).enabled
        BY DEF channel_configure, OutRec
      <4> QED BY <4>2, <4>3
    <3>6. pwm_out' = [pwm_out EXCEPT ![<<t, c>>] = o]
      BY <2>10, <2>13, <3>5
    <3>7. /\ OutsOK'
          /\ \A u \in Timers, d \in Channels :
                pwm_out'[<<u, d>>] = IF u = t /\ d = c THEN o ELSE pwm_out[<<u, d>>]
      BY <3>5, <3>6, OutWritten DEF PwmInv
    <3>8. timers' = T /\ TimersOK' /\ PwmStep
      BY <2>9, <2>10, <2>13 DEF TimersOK, TimerFileOK, arr_max, PwmStep
    <3>9. Cardinality(LiveChannels(t)') = Cardinality(LiveChannels(t)) + 1
      BY <2>6, <2>7, <3>4, CardUp
    <3>10. TimerOwned(t)'
      BY <2>6, <2>9, <2>11, <3>4, <3>5, <3>7, <3>8, <3>9 DEF TimerOwned
    <3>11. ASSUME NEW u \in Timers PROVE TimerOwned(u)'
      <4>1. CASE u # t
        <5>1. TimerOwned(u) /\ timers'[u] = timers[u] /\ LiveChannels(u)' = LiveChannels(u)
          BY <2>9, <3>4, <3>8, <4>1 DEF PwmInv
        <5>2. \A d \in Channels : pwm_out'[<<u, d>>] = pwm_out[<<u, d>>]
          BY <3>7, <4>1
        <5> QED BY <5>1, <5>2, OtherTimerOwned
      <4> QED BY <3>10, <4>1
    <3>12. PwmPinsOK'
      <4>1. LivePwm \subseteq PwmIndex
        BY DEF LivePwm
      <4>2. \A i \in LivePwm : pwm'[i].pin = pwm[i].pin /\ pwm[i].pin \in pwm_pins
        BY <2>6, <3>4, <4>1 DEF PwmInv, PwmPinsOK
      <4>3. pwm_pins' = pwm_pins \cup {cfg.pin} /\ pwm'[idx].pin = cfg.pin
        BY <2>10, <2>13, <3>2, <3>4
      <4>4. pwm_pins' = {pwm'[i].pin : i \in LivePwm'}
        BY <3>4, <4>2, <4>3 DEF PwmInv, PwmPinsOK
      <4>5. \A i, j \in LivePwm' : pwm'[i].pin = pwm'[j].pin => i = j
        BY <2>5, <3>4, <4>2, <4>3 DEF PwmInv, PwmPinsOK
      <4>6. pwm_pins' \subseteq Pins
        BY <2>3, <4>3 DEF PwmInv, PwmPinsOK
      <4> QED BY <4>4, <4>5, <4>6 DEF PwmPinsOK
    <3>13. PwmInv'
      BY <3>4, <3>7, <3>11, <3>12 DEF PwmInv
    <3>14. Accepted("PWM", idx)
      BY <2>10, <2>13 DEF Accepted, Return
    <3> QED BY <2>6, <2>10, <3>4, <3>8, <3>13, <3>14
  <2> QED BY <2>12, <2>13
<1> QED BY <1>1, <1>2 DEF pwm_sensor_setup

\* A duty change writes one compare register.
LEMMA PwmSet ==
    ASSUME PwmInv, TimersOK, NEW idx \in LivePwm, NEW v \in PwmValues, pwm_sensor_set_output(idx, v)
    PROVE  PwmInv' /\ LivePwm' = LivePwm /\ UNCHANGED <<managerVars, heap, timers>>
<1>1. CASE \E err : PwmReject(err)
  <2>1. UNCHANGED pwmVars /\ UNCHANGED <<managerVars, heap, timers>>
    BY <1>1 DEF PwmReject, backendVars
  <2>2. PulseStep
    BY <2>1 DEF PulseStep
  <2> QED BY <2>1, <2>2, PulseKeepsPwm
<1>2. CASE pwm_values_err(idx, v) = "ERR_SUCCESS"
  <2>1. idx \in PwmIndex /\ pwm[idx].in_use /\ pwm[idx] \in PwmRec /\ v.duty \in Nat
    BY PwmAssumption DEF LivePwm, PwmInv, PwmPlaced
  <2>2. PICK t \in Timers, c \in Channels : t = pwm[idx].timer_id /\ c = pwm[idx].channel
    BY <2>1 DEF PwmRec
  <2>3. idx = pwm_slot_for(t, c)
    BY <2>1, <2>2 DEF PwmInv, PwmPlaced
  <2>4. /\ pwm_out' = [pwm_out EXCEPT ![<<t, c>>] = channel_set_ccr(@, compute_ccr(timers[t].arr, v.duty))]
        /\ UNCHANGED <<managerVars, heap, timers, pwm, pwm_pins>>
    BY <1>2, <2>2 DEF pwm_sensor_set_output, backendVars
  <2>5. c \in LiveChannels(t) /\ TimerOwned(t)
    BY <2>1, <2>3 DEF LiveChannels, PwmInv
  <2>6. PICK ccr \in 0 .. HW_TIMER_ARR_MAX_32 : ccr = compute_ccr(timers[t].arr, v.duty)
    <3>1. timers[t].arr \in 0 .. HW_TIMER_ARR_MAX_32
      BY DEF TimersOK, TimerRec
    <3> QED BY <2>1, <3>1, CcrFits
  <2>7. PICK x \in OutRec : x = pwm_out[<<t, c>>] /\ x.enabled
    BY <2>5 DEF PwmInv, OutsOK, TimerOwned
  <2>8. channel_set_ccr(x, ccr) \in OutRec /\ channel_set_ccr(x, ccr).enabled
    BY <2>7 DEF channel_set_ccr, OutRec
  <2>9. PICK o \in OutRec : o = channel_set_ccr(x, ccr) /\ o.enabled
    BY <2>8
  <2>10. pwm_out' = [pwm_out EXCEPT ![<<t, c>>] = o]
    BY <2>4, <2>6, <2>7, <2>9
  <2>11. /\ OutsOK'
         /\ \A u \in Timers, d \in Channels :
               pwm_out'[<<u, d>>] = IF u = t /\ d = c THEN o ELSE pwm_out[<<u, d>>]
    <3>1. OutsOK /\ (~o.enabled => o = PwmChannelOff)
      BY <2>9 DEF PwmInv
    <3> QED BY <2>10, <3>1, OutWritten
  <2>12. ASSUME NEW u \in Timers PROVE TimerOwned(u)'
    <3>1. TimerOwned(u) /\ LiveChannels(u)' = LiveChannels(u) /\ timers'[u] = timers[u]
      BY <2>4 DEF PwmInv, LiveChannels
    <3>2. \A d \in Channels : pwm_out'[<<u, d>>].enabled <=> pwm_out[<<u, d>>].enabled
      BY <2>7, <2>9, <2>11
    <3> QED BY <3>1, <3>2 DEF TimerOwned
  <2> QED BY <2>4, <2>11, <2>12 DEF PwmInv, PwmPlaced, PwmPinsOK, LivePwm
<1> QED BY <1>1, <1>2 DEF pwm_sensor_set_output

\* pwm_sensor_stop: the channel goes, the timer with the last channel.
LEMMA PwmStop ==
    ASSUME PwmInv, TimersOK, ArmedOK, NEW idx \in LivePwm, pwm_sensor_stop(idx)
    PROVE  /\ PwmInv' /\ TimersOK' /\ PwmStep /\ LivePwm' = LivePwm \ {idx}
           /\ heap' = heap /\ ret'.err = "ERR_SUCCESS"
<1>1. idx \in PwmIndex /\ pwm[idx].in_use /\ pwm[idx] \in PwmRec
  BY DEF LivePwm, PwmInv, PwmPlaced
<1>2. PICK t \in Timers, c \in Channels : t = pwm[idx].timer_id /\ c = pwm[idx].channel
  BY <1>1 DEF PwmRec
<1>3. idx = pwm_slot_for(t, c)
  BY <1>1, <1>2 DEF PwmInv, PwmPlaced
<1>4. /\ ret'.err = "ERR_SUCCESS" /\ heap' = heap
      /\ pwm_out' = [pwm_out EXCEPT ![<<t, c>>] = PwmChannelOff]
      /\ timers' = hw_timer_pwm_release(timers, t)
      /\ pwm_pins' = pwm_pins \ {pwm[idx].pin}
      /\ pwm' = [pwm EXCEPT ![pwm_slot_for(t, c)] = PwmFree]
  BY <1>1, <1>2, <1>3, ReturnFields DEF pwm_sensor_stop
<1>5. c \in LiveChannels(t) /\ TimerOwned(t)
  BY <1>1, <1>3 DEF LiveChannels, PwmInv
<1>6. timers[t].state = "PWM" /\ ~timers[t].armed /\ timers[t].pwm_ref_count = Cardinality(LiveChannels(t))
  BY <1>5 DEF TimerOwned, ArmedOK
<1>7. TimerFileOK(timers)
  BY DEF TimersOK, TimerFileOK
<1>8. /\ TimersOK' /\ \A u \in Timers : u # t => timers'[u] = timers[u]
      /\ IF timers[t].pwm_ref_count > 1
         THEN /\ timers'[t].state = "PWM" /\ timers'[t].armed = timers[t].armed
              /\ timers'[t].pwm_ref_count = timers[t].pwm_ref_count - 1
         ELSE timers'[t] = FreeTimer
  BY <1>4, <1>6, <1>7, PwmRelease
<1>9. PwmStep
  BY <1>6, <1>8, FreeTimerTyped DEF PwmStep
<1>10. /\ PwmPlaced' /\ \A i \in PwmIndex : i # idx => pwm'[i] = pwm[i]
       /\ \A u \in Timers : u # t => LiveChannels(u)' = LiveChannels(u)
       /\ LiveChannels(t)' = LiveChannels(t) \ {c}
       /\ LivePwm' = LivePwm \ {idx}
  <2>1. PICK r \in PwmRec : r = PwmFree /\ ~r.in_use
    BY PwmFreeTyped
  <2>2. PwmPlaced /\ pwm' = [pwm EXCEPT ![pwm_slot_for(t, c)] = r]
    BY <1>4, <2>1 DEF PwmInv
  <2>3. PwmPlaced' /\ PwmSlotIs(t, c, r)
    BY <2>1, <2>2, PwmWritten
  <2> QED BY <1>3, <2>1, <2>3 DEF PwmSlotIs
<1>11. /\ OutsOK'
       /\ \A u \in Timers, d \in Channels :
             pwm_out'[<<u, d>>] = IF u = t /\ d = c THEN PwmChannelOff ELSE pwm_out[<<u, d>>]
  BY <1>4, PwmFreeTyped, OutWritten DEF PwmInv
<1>12. /\ Cardinality(LiveChannels(t)') = Cardinality(LiveChannels(t)) - 1
       /\ Cardinality(LiveChannels(t)) \in Nat
       /\ (Cardinality(LiveChannels(t)') = 0) <=> (LiveChannels(t)' = {})
  <2>1. IsFiniteSet(LiveChannels(t)) /\ IsFiniteSet(LiveChannels(t) \ {c})
    BY LiveChannelsFinite, FS_RemoveElement
  <2>2. Cardinality(LiveChannels(t) \ {c}) = Cardinality(LiveChannels(t)) - 1 /\ Cardinality(LiveChannels(t)) \in Nat
    BY <1>5, <2>1, CardDown
  <2>3. (Cardinality(LiveChannels(t) \ {c}) = 0) <=> (LiveChannels(t) \ {c} = {})
    BY <2>1, FS_EmptySet
  <2> QED BY <1>10, <2>2, <2>3
<1>13. TimerOwned(t)'
  <2>1. \A d \in Channels : pwm_out'[<<t, d>>].enabled <=> d \in LiveChannels(t)'
    BY <1>5, <1>10, <1>11, PwmFreeTyped DEF TimerOwned
  <2>2. CASE timers[t].pwm_ref_count > 1
    BY <1>6, <1>8, <1>12, <2>1, <2>2 DEF TimerOwned
  <2>3. CASE ~(timers[t].pwm_ref_count > 1)
    <3>1. Cardinality(LiveChannels(t)') = 0
      <4>1. Cardinality(LiveChannels(t)) # 0
        BY <1>5, LiveChannelsFinite
      <4> QED BY <1>6, <1>12, <2>3, <4>1
    <3>2. timers'[t].state = "FREE"
      BY <1>8, <2>3, FreeTimerTyped
    <3> QED BY <1>12, <2>1, <3>1, <3>2 DEF TimerOwned
  <2> QED BY <2>2, <2>3
<1>14. ASSUME NEW u \in Timers PROVE TimerOwned(u)'
  <2>1. CASE u # t
    <3>1. TimerOwned(u) /\ timers'[u] = timers[u] /\ LiveChannels(u)' = LiveChannels(u)
      BY <1>8, <1>10, <2>1 DEF PwmInv
    <3>2. \A d \in Channels : pwm_out'[<<u, d>>] = pwm_out[<<u, d>>]
      BY <1>11, <2>1
    <3> QED BY <3>1, <3>2, OtherTimerOwned
  <2> QED BY <1>13, <2>1
<1>15. PwmPinsOK'
  <2>1. LivePwm \subseteq PwmIndex
    BY DEF LivePwm
  <2>2. \A i \in LivePwm' : i \in LivePwm /\ i # idx /\ pwm'[i].pin = pwm[i].pin
    BY <1>10, <2>1
  <2>3. \A i \in LivePwm : i # idx => i \in LivePwm' /\ pwm[i].pin # pwm[idx].pin
    BY <1>10 DEF PwmInv, PwmPinsOK
  <2>4. pwm_pins' = {pwm'[i].pin : i \in LivePwm'}
    BY <1>4, <2>2, <2>3 DEF PwmInv, PwmPinsOK
  <2>5. \A i, j \in LivePwm' : pwm'[i].pin = pwm'[j].pin => i = j
    BY <2>2 DEF PwmInv, PwmPinsOK
  <2>6. pwm_pins' \subseteq Pins
    BY <1>4 DEF PwmInv, PwmPinsOK
  <2> QED BY <2>4, <2>5, <2>6 DEF PwmPinsOK
<1> QED BY <1>4, <1>8, <1>9, <1>10, <1>11, <1>14, <1>15 DEF PwmInv

-----------------------------------------------------------------------------
(* The heap and the table follow the backends                               *)

\* The live blocks are one register map per I2C sensor, one timer per pulsed
\* software output and one semaphore per chip.
HeapInv == heap = Cardinality(LiveI2c) + Cardinality(SwTimers) + Cardinality(Chips)

\* A set of block owners changes by at most one, and the count of blocks with it.
Counted(S, T, h, k) ==
    \/ T = S /\ k = h
    \/ \E x : x \notin S /\ T = S \cup {x} /\ k = h + 1
    \/ \E x \in S : T = S \ {x} /\ k = h - 1

LEMMA CountedCards ==
    ASSUME NEW S, IsFiniteSet(S), NEW T, NEW h \in Int, NEW k, Counted(S, T, h, k)
    PROVE  Cardinality(T) - Cardinality(S) = k - h /\ Cardinality(S) \in Int /\ Cardinality(T) \in Int
<1>1. Cardinality(S) \in Nat
  BY FS_CardinalityType
<1>2. CASE T = S /\ k = h
  BY <1>1, <1>2
<1>3. ASSUME NEW x, x \notin S, T = S \cup {x}, k = h + 1
      PROVE  Cardinality(T) - Cardinality(S) = k - h /\ Cardinality(T) \in Int
  BY <1>1, <1>3, CardUp
<1>4. ASSUME NEW x \in S, T = S \ {x}, k = h - 1
      PROVE  Cardinality(T) - Cardinality(S) = k - h /\ Cardinality(T) \in Int
  BY <1>1, <1>4, CardDown
<1> QED BY <1>1, <1>2, <1>3, <1>4 DEF Counted

LEMMA PoolsFinite == IsFiniteSet(LiveI2c) /\ IsFiniteSet(SwTimers) /\ IsFiniteSet(Chips)
<1>1. IsFiniteSet(I2cIndex) /\ LiveI2c \subseteq I2cIndex
  BY I2cAssumption, FS_Interval DEF I2cIndex, LiveI2c
<1>2. IsFiniteSet(DoutIndex) /\ SwTimers \subseteq DoutIndex
  BY DoutAssumption, FS_Interval DEF DoutIndex, SwTimers
<1>3. IsFiniteSet(SpiPeriphs) /\ Chips \subseteq SpiPeriphs
  BY SpiAssumption, FS_Interval DEF SpiPeriphs, Chips
<1> QED BY <1>1, <1>2, <1>3, FS_Subset

LEMMA HeapNat == ASSUME HeapInv PROVE heap \in Nat
BY PoolsFinite, FS_CardinalityType DEF HeapInv

\* At most one of the three kinds of block is allocated or freed in a step.
HeapMoves ==
    \/ Counted(LiveI2c, LiveI2c', heap, heap') /\ SwTimers' = SwTimers /\ Chips' = Chips
    \/ Counted(SwTimers, SwTimers', heap, heap') /\ LiveI2c' = LiveI2c /\ Chips' = Chips
    \/ Counted(Chips, Chips', heap, heap') /\ LiveI2c' = LiveI2c /\ SwTimers' = SwTimers

LEMMA HeapFollows ==
    ASSUME HeapInv, HeapMoves
    PROVE  HeapInv'
<1>1. heap \in Int
  BY HeapNat
<1>2. /\ IsFiniteSet(LiveI2c) /\ IsFiniteSet(SwTimers) /\ IsFiniteSet(Chips)
      /\ Cardinality(LiveI2c) \in Int /\ Cardinality(SwTimers) \in Int /\ Cardinality(Chips) \in Int
  BY PoolsFinite, FS_CardinalityType
<1>3. PICK a, b, c : a = LiveI2c' /\ b = SwTimers' /\ c = Chips'
  OBVIOUS
<1>4. PICK k : k = heap'
  OBVIOUS
<1>5. heap = Cardinality(LiveI2c) + Cardinality(SwTimers) + Cardinality(Chips)
  BY DEF HeapInv
<1>6. CASE Counted(LiveI2c, a, heap, k) /\ b = SwTimers /\ c = Chips
  <2>1. Cardinality(a) - Cardinality(LiveI2c) = k - heap /\ Cardinality(a) \in Int
    BY <1>1, <1>2, <1>6, CountedCards
  <2>2. k \in Int
    BY <1>1, <1>6 DEF Counted
  <2>3. k = Cardinality(a) + Cardinality(b) + Cardinality(c)
    BY <1>1, <1>2, <1>5, <1>6, <2>1, <2>2
  <2> QED BY <1>3, <1>4, <2>3 DEF HeapInv
<1>7. CASE Counted(SwTimers, b, heap, k) /\ a = LiveI2c /\ c = Chips
  <2>1. Cardinality(b) - Cardinality(SwTimers) = k - heap /\ Cardinality(b) \in Int
    BY <1>1, <1>2, <1>7, CountedCards
  <2>2. k \in Int
    BY <1>1, <1>7 DEF Counted
  <2>3. k = Cardinality(a) + Cardinality(b) + Cardinality(c)
    BY <1>1, <1>2, <1>5, <1>7, <2>1, <2>2
  <2> QED BY <1>3, <1>4, <2>3 DEF HeapInv
<1>8. CASE Counted(Chips, c, heap, k) /\ a = LiveI2c /\ b = SwTimers
  <2>1. Cardinality(c) - Cardinality(Chips) = k - heap /\ Cardinality(c) \in Int
    BY <1>1, <1>2, <1>8, CountedCards
  <2>2. k \in Int
    BY <1>1, <1>8 DEF Counted
  <2>3. k = Cardinality(a) + Cardinality(b) + Cardinality(c)
    BY <1>1, <1>2, <1>5, <1>8, <2>1, <2>2
  <2> QED BY <1>3, <1>4, <2>3 DEF HeapInv
<1> QED BY <1>3, <1>4, <1>6, <1>7, <1>8, Zenon DEF HeapMoves

\* The five backends' live sensors, and one of them more or less.
OthersThan(p) ==
    /\ p # "I2C" => LiveI2c' = LiveI2c
    /\ p # "DIGITAL_OUT" => LiveDout' = LiveDout
    /\ p # "PWM" => LivePwm' = LivePwm
    /\ p # "DAC" => LiveDac' = LiveDac
    /\ p # "SPI" => LiveSpi' = LiveSpi

Grew(p, n) ==
    /\ OthersThan(p)
    /\ \/ p = "I2C" /\ n \in I2cIndex \ LiveI2c /\ LiveI2c' = LiveI2c \cup {n}
       \/ p = "DIGITAL_OUT" /\ n \in DoutIndex \ LiveDout /\ LiveDout' = LiveDout \cup {n}
       \/ p = "PWM" /\ n \in PwmIndex \ LivePwm /\ LivePwm' = LivePwm \cup {n}
       \/ p = "DAC" /\ n \in DacIndex \ LiveDac /\ LiveDac' = LiveDac \cup {n}
       \/ p = "SPI" /\ n \in SpiPeriphs \ LiveSpi /\ LiveSpi' = LiveSpi \cup {n}

Shrank(p, n) ==
    /\ OthersThan(p)
    /\ \/ p = "I2C" /\ LiveI2c' = LiveI2c \ {n}
       \/ p = "DIGITAL_OUT" /\ LiveDout' = LiveDout \ {n}
       \/ p = "PWM" /\ LivePwm' = LivePwm \ {n}
       \/ p = "DAC" /\ LiveDac' = LiveDac \ {n}
       \/ p = "SPI" /\ LiveSpi' = LiveSpi \ {n}

Tagged(p, S) == {<<p, i>> : i \in S}

LEMMA TaggedUp == \A p, S, n : Tagged(p, S \cup {n}) = Tagged(p, S) \cup {<<p, n>>}
BY DEF Tagged

LEMMA TaggedDown == \A p, S, n : Tagged(p, S \ {n}) = Tagged(p, S) \ {<<p, n>>}
BY DEF Tagged

LEMMA TaggedApart == \A p, q, S, n : <<p, n>> \in Tagged(q, S) => p = q
BY DEF Tagged

LEMMA SensorsTagged ==
    /\ BackendSensors = Tagged("I2C", LiveI2c) \cup Tagged("DIGITAL_OUT", LiveDout)
                        \cup Tagged("PWM", LivePwm) \cup Tagged("DAC", LiveDac) \cup Tagged("SPI", LiveSpi)
    /\ BackendSensors' = Tagged("I2C", LiveI2c') \cup Tagged("DIGITAL_OUT", LiveDout')
                        \cup Tagged("PWM", LivePwm') \cup Tagged("DAC", LiveDac') \cup Tagged("SPI", LiveSpi')
BY DEF BackendSensors, Tagged, LiveI2c, LiveDout, LivePwm, LiveDac, LiveSpi

LEMMA SensorsGrow ==
    ASSUME NEW p, NEW n, Grew(p, n)
    PROVE  BackendSensors' = BackendSensors \cup {<<p, n>>}
<1>1. CASE p = "I2C"
  <2>1. LiveI2c' = LiveI2c \cup {n}
    BY <1>1 DEF Grew
  <2>2. LiveDout' = LiveDout /\ LivePwm' = LivePwm /\ LiveDac' = LiveDac /\ LiveSpi' = LiveSpi
    BY <1>1 DEF Grew, OthersThan
  <2>3. Tagged("I2C", LiveI2c') = Tagged("I2C", LiveI2c) \cup {<<p, n>>}
    BY <1>1, <2>1, TaggedUp
  <2> QED BY <2>2, <2>3, SensorsTagged
<1>2. CASE p = "DIGITAL_OUT"
  <2>1. LiveDout' = LiveDout \cup {n}
    BY <1>2 DEF Grew
  <2>2. LiveI2c' = LiveI2c /\ LivePwm' = LivePwm /\ LiveDac' = LiveDac /\ LiveSpi' = LiveSpi
    BY <1>2 DEF Grew, OthersThan
  <2>3. Tagged("DIGITAL_OUT", LiveDout') = Tagged("DIGITAL_OUT", LiveDout) \cup {<<p, n>>}
    BY <1>2, <2>1, TaggedUp
  <2> QED BY <2>2, <2>3, SensorsTagged
<1>3. CASE p = "PWM"
  <2>1. LivePwm' = LivePwm \cup {n}
    BY <1>3 DEF Grew
  <2>2. LiveI2c' = LiveI2c /\ LiveDout' = LiveDout /\ LiveDac' = LiveDac /\ LiveSpi' = LiveSpi
    BY <1>3 DEF Grew, OthersThan
  <2>3. Tagged("PWM", LivePwm') = Tagged("PWM", LivePwm) \cup {<<p, n>>}
    BY <1>3, <2>1, TaggedUp
  <2> QED BY <2>2, <2>3, SensorsTagged
<1>4. CASE p = "DAC"
  <2>1. LiveDac' = LiveDac \cup {n}
    BY <1>4 DEF Grew
  <2>2. LiveI2c' = LiveI2c /\ LiveDout' = LiveDout /\ LivePwm' = LivePwm /\ LiveSpi' = LiveSpi
    BY <1>4 DEF Grew, OthersThan
  <2>3. Tagged("DAC", LiveDac') = Tagged("DAC", LiveDac) \cup {<<p, n>>}
    BY <1>4, <2>1, TaggedUp
  <2> QED BY <2>2, <2>3, SensorsTagged
<1>5. CASE p = "SPI"
  <2>1. LiveSpi' = LiveSpi \cup {n}
    BY <1>5 DEF Grew
  <2>2. LiveI2c' = LiveI2c /\ LiveDout' = LiveDout /\ LivePwm' = LivePwm /\ LiveDac' = LiveDac
    BY <1>5 DEF Grew, OthersThan
  <2>3. Tagged("SPI", LiveSpi') = Tagged("SPI", LiveSpi) \cup {<<p, n>>}
    BY <1>5, <2>1, TaggedUp
  <2> QED BY <2>2, <2>3, SensorsTagged
<1> QED BY <1>1, <1>2, <1>3, <1>4, <1>5 DEF Grew

LEMMA SensorsShrink ==
    ASSUME NEW p, NEW n, Shrank(p, n)
    PROVE  BackendSensors' = BackendSensors \ {<<p, n>>}
<1>1. CASE p = "I2C"
  <2>1. LiveI2c' = LiveI2c \ {n}
    BY <1>1 DEF Shrank
  <2>2. LiveDout' = LiveDout /\ LivePwm' = LivePwm /\ LiveDac' = LiveDac /\ LiveSpi' = LiveSpi
    BY <1>1 DEF Shrank, OthersThan
  <2>3. Tagged("I2C", LiveI2c') = Tagged("I2C", LiveI2c) \ {<<p, n>>}
    BY <1>1, <2>1, TaggedDown
  <2>4. /\ <<p, n>> \notin Tagged("DIGITAL_OUT", LiveDout)
        /\ <<p, n>> \notin Tagged("PWM", LivePwm)
        /\ <<p, n>> \notin Tagged("DAC", LiveDac)
        /\ <<p, n>> \notin Tagged("SPI", LiveSpi)
    BY <1>1, TaggedApart
  <2> QED BY <2>2, <2>3, <2>4, SensorsTagged
<1>2. CASE p = "DIGITAL_OUT"
  <2>1. LiveDout' = LiveDout \ {n}
    BY <1>2 DEF Shrank
  <2>2. LiveI2c' = LiveI2c /\ LivePwm' = LivePwm /\ LiveDac' = LiveDac /\ LiveSpi' = LiveSpi
    BY <1>2 DEF Shrank, OthersThan
  <2>3. Tagged("DIGITAL_OUT", LiveDout') = Tagged("DIGITAL_OUT", LiveDout) \ {<<p, n>>}
    BY <1>2, <2>1, TaggedDown
  <2>4. /\ <<p, n>> \notin Tagged("I2C", LiveI2c)
        /\ <<p, n>> \notin Tagged("PWM", LivePwm)
        /\ <<p, n>> \notin Tagged("DAC", LiveDac)
        /\ <<p, n>> \notin Tagged("SPI", LiveSpi)
    BY <1>2, TaggedApart
  <2> QED BY <2>2, <2>3, <2>4, SensorsTagged
<1>3. CASE p = "PWM"
  <2>1. LivePwm' = LivePwm \ {n}
    BY <1>3 DEF Shrank
  <2>2. LiveI2c' = LiveI2c /\ LiveDout' = LiveDout /\ LiveDac' = LiveDac /\ LiveSpi' = LiveSpi
    BY <1>3 DEF Shrank, OthersThan
  <2>3. Tagged("PWM", LivePwm') = Tagged("PWM", LivePwm) \ {<<p, n>>}
    BY <1>3, <2>1, TaggedDown
  <2>4. /\ <<p, n>> \notin Tagged("I2C", LiveI2c)
        /\ <<p, n>> \notin Tagged("DIGITAL_OUT", LiveDout)
        /\ <<p, n>> \notin Tagged("DAC", LiveDac)
        /\ <<p, n>> \notin Tagged("SPI", LiveSpi)
    BY <1>3, TaggedApart
  <2> QED BY <2>2, <2>3, <2>4, SensorsTagged
<1>4. CASE p = "DAC"
  <2>1. LiveDac' = LiveDac \ {n}
    BY <1>4 DEF Shrank
  <2>2. LiveI2c' = LiveI2c /\ LiveDout' = LiveDout /\ LivePwm' = LivePwm /\ LiveSpi' = LiveSpi
    BY <1>4 DEF Shrank, OthersThan
  <2>3. Tagged("DAC", LiveDac') = Tagged("DAC", LiveDac) \ {<<p, n>>}
    BY <1>4, <2>1, TaggedDown
  <2>4. /\ <<p, n>> \notin Tagged("I2C", LiveI2c)
        /\ <<p, n>> \notin Tagged("DIGITAL_OUT", LiveDout)
        /\ <<p, n>> \notin Tagged("PWM", LivePwm)
        /\ <<p, n>> \notin Tagged("SPI", LiveSpi)
    BY <1>4, TaggedApart
  <2> QED BY <2>2, <2>3, <2>4, SensorsTagged
<1>5. CASE p = "SPI"
  <2>1. LiveSpi' = LiveSpi \ {n}
    BY <1>5 DEF Shrank
  <2>2. LiveI2c' = LiveI2c /\ LiveDout' = LiveDout /\ LivePwm' = LivePwm /\ LiveDac' = LiveDac
    BY <1>5 DEF Shrank, OthersThan
  <2>3. Tagged("SPI", LiveSpi') = Tagged("SPI", LiveSpi) \ {<<p, n>>}
    BY <1>5, <2>1, TaggedDown
  <2>4. /\ <<p, n>> \notin Tagged("I2C", LiveI2c)
        /\ <<p, n>> \notin Tagged("DIGITAL_OUT", LiveDout)
        /\ <<p, n>> \notin Tagged("PWM", LivePwm)
        /\ <<p, n>> \notin Tagged("DAC", LiveDac)
    BY <1>5, TaggedApart
  <2> QED BY <2>2, <2>3, <2>4, SensorsTagged
<1> QED BY <1>1, <1>2, <1>3, <1>4, <1>5 DEF Shrank

\* A setup that was accepted: one new id, which the answer carries.
NewId ==
    \E id \in MaybeId :
        ret' = [err |-> "ERR_SUCCESS", id |-> id] /\ ~id_in_use(id) /\ id_in_use(id)'

LEMMA TableGrows ==
    ASSUME TableOK, TableMatches, NEW p, NEW n, Accepted(p, n), Grew(p, n)
    PROVE  TableOK' /\ TableMatches' /\ NewId
<1>1. p \in ProtocolIds /\ n \in InternalIds
  BY DispatcherAssumption DEF Grew
<1>2. <<p, n>> \notin BackendSensors
  BY BackendHas DEF Grew
<1>3. BackendSensors' = BackendSensors \cup {<<p, n>>}
  BY SensorsGrow
<1>4. PICK id \in MaybeId : /\ id # PROTO_SENSOR_ID_NONE
                            /\ sensor_manager_register(p, n, id)
                            /\ ret' = [err |-> "ERR_SUCCESS", id |-> id]
  BY DEF Accepted
<1>5. TableOK' /\ TableMatches' /\ ~id_in_use(id) /\ id_in_use(id)'
  BY <1>1, <1>2, <1>3, <1>4, MatchesGrow
<1> QED BY <1>4, <1>5 DEF NewId

LEMMA TableShrinks ==
    ASSUME TableOK, TableMatches, NEW id, NEW p, Routed(id, p), ret'.err = "ERR_SUCCESS",
           ReleaseIfStopped(id), Shrank(p, SlotOf(id).internal_id)
    PROVE  TableOK' /\ TableMatches'
<1>1. sensor_manager_release(id)
  BY DEF ReleaseIfStopped
<1>2. BackendSensors' = BackendSensors \ {<<p, SlotOf(id).internal_id>>}
  BY SensorsShrink
<1> QED BY <1>1, <1>2, MatchesShrink

LEMMA TableKept ==
    ASSUME TableOK, TableMatches, UNCHANGED managerVars, OthersThan("none")
    PROVE  TableOK' /\ TableMatches'
<1>1. BackendSensors' = BackendSensors
  BY SensorsOfLiveSets DEF OthersThan
<1> QED BY <1>1, MatchesKept

\* Each backend keeps its invariant while its variables are left alone.
LEMMA I2cUnchanged ==
    ASSUME I2cInv, UNCHANGED i2cVars
    PROVE  I2cInv' /\ LiveI2c' = LiveI2c
BY DEF I2cInv, i2cVars, I2cTypeOK, I2cOwned, LiveI2c

LEMMA DoutUnchanged ==
    ASSUME UNCHANGED doutVars
    PROVE  LiveDout' = LiveDout /\ SwTimers' = SwTimers
BY DEF doutVars, LiveDout, SwTimers

LEMMA TimersUnchanged ==
    ASSUME TimersOK, DoutInv, PwmInv, UNCHANGED timerVars
    PROVE  /\ TimersOK' /\ DoutInv' /\ PwmInv'
           /\ LiveDout' = LiveDout /\ SwTimers' = SwTimers /\ LivePwm' = LivePwm
<1>1. timers' = timers /\ UNCHANGED doutVars /\ UNCHANGED pwmVars
  BY DEF timerVars
<1>2. TimersOK' /\ PwmStep /\ PulseStep
  BY <1>1 DEF TimersOK, arr_max, PwmStep, PulseStep
<1>3. DoutInv'
  BY <1>1, <1>2, PwmKeepsDout
<1> QED BY <1>1, <1>2, <1>3, PulseKeepsPwm, DoutUnchanged

-----------------------------------------------------------------------------
(* The pins                                                                 *)

PinRec == [mode : PinMode, level : Level]
PinFile == [Pins -> PinRec]

\* From pin file g to h, only the pins of S have changed their mode; the pins
\* of S are floating inputs in h.
OnlyAt(g, h, S) == \A p \in Pins \ S : h[p].mode = g[p].mode
Floating(h, S) == \A p \in Pins \cap S : h[p].mode = "INPUT"

LEMMA PinOutput ==
    ASSUME NEW g \in PinFile, NEW pin \in Pins, NEW level \in Level
    PROVE  /\ gpio_configure_output(g, pin, level) \in PinFile
           /\ OnlyAt(g, gpio_configure_output(g, pin, level), {pin})
<1>1. PICK r \in PinRec : r = [mode |-> "OUTPUT", level |-> level]
  BY DEF PinRec, PinMode
<1>2. gpio_configure_output(g, pin, level) = [g EXCEPT ![pin] = r]
  BY <1>1 DEF gpio_configure_output
<1> QED BY <1>2 DEF PinFile, OnlyAt

\* A pin's mode or level alone.
LEMMA PinField ==
    ASSUME NEW x \in PinRec, NEW m \in PinMode, NEW l \in Level
    PROVE  /\ [x EXCEPT !.mode = m] \in PinRec /\ [x EXCEPT !.mode = m].mode = m
           /\ [x EXCEPT !.level = l] \in PinRec /\ [x EXCEPT !.level = l].mode = x.mode
BY DEF PinRec

LEMMA PinModes ==
    ASSUME NEW g \in PinFile, NEW S, NEW m \in PinMode, NEW h,
           h = [p \in Pins |-> IF p \in S THEN [g[p] EXCEPT !.mode = m] ELSE g[p]]
    PROVE  h \in PinFile /\ OnlyAt(g, h, S) /\ \A p \in Pins \cap S : h[p].mode = m
<1>1. ASSUME NEW p \in Pins
      PROVE  /\ h[p] \in PinRec /\ (p \in S => h[p].mode = m) /\ (p \notin S => h[p] = g[p])
  <2>1. PICK x \in PinRec : x = g[p]
    BY DEF PinFile
  <2>2. h[p] = IF p \in S THEN [x EXCEPT !.mode = m] ELSE x
    BY <2>1
  <2> QED BY <2>1, <2>2, PinField, "LOW" \in Level DEF Level
<1>2. h \in [Pins -> PinRec]
  <2>1. h = [p \in Pins |-> h[p]]
    OBVIOUS
  <2> QED BY <1>1, <2>1
<1> QED BY <1>1, <1>2 DEF PinFile, OnlyAt

LEMMA PinAf ==
    ASSUME NEW g \in PinFile, NEW S
    PROVE  gpio_configure_af(g, S) \in PinFile /\ OnlyAt(g, gpio_configure_af(g, S), S)
<1>1. PICK h : h = gpio_configure_af(g, S)
  OBVIOUS
<1>2. h = [p \in Pins |-> IF p \in S THEN [g[p] EXCEPT !.mode = "AF"] ELSE g[p]] /\ "AF" \in PinMode
  BY <1>1 DEF gpio_configure_af, PinMode
<1> QED BY <1>1, <1>2, PinModes

LEMMA PinReset ==
    ASSUME NEW g \in PinFile, NEW S
    PROVE  /\ gpio_reset_to_defaults(g, S) \in PinFile
           /\ OnlyAt(g, gpio_reset_to_defaults(g, S), S) /\ Floating(gpio_reset_to_defaults(g, S), S)
<1>1. PICK h : h = gpio_reset_to_defaults(g, S)
  OBVIOUS
<1>2. h = [p \in Pins |-> IF p \in S THEN [g[p] EXCEPT !.mode = "INPUT"] ELSE g[p]] /\ "INPUT" \in PinMode
  BY <1>1 DEF gpio_reset_to_defaults, PinMode
<1> QED BY <1>1, <1>2, PinModes DEF Floating

LEMMA PinDrive ==
    ASSUME NEW g \in PinFile, NEW pin \in Pins, NEW level \in Level
    PROVE  drive_level(g, pin, level) \in PinFile /\ OnlyAt(g, drive_level(g, pin, level), {})
<1>1. PICK x \in PinRec : x = g[pin]
  BY DEF PinFile
<1>2. [x EXCEPT !.level = level] \in PinRec /\ [x EXCEPT !.level = level].mode = x.mode
  BY PinField, "INPUT" \in PinMode DEF PinMode
<1>3. PICK r \in PinRec : r = [x EXCEPT !.level = level] /\ r.mode = g[pin].mode
  BY <1>1, <1>2
<1>4. drive_level(g, pin, level) = [g EXCEPT ![pin] = r]
  BY <1>1, <1>3 DEF drive_level
<1>5. PICK h : h = [g EXCEPT ![pin] = r]
  OBVIOUS
<1>6. h \in PinFile /\ h[pin] = r /\ \A p \in Pins : p # pin => h[p] = g[p]
  BY <1>5 DEF PinFile
<1>7. OnlyAt(g, h, {})
  BY <1>3, <1>6 DEF OnlyAt
<1> QED BY <1>4, <1>5, <1>6, <1>7

LEMMA PinFrame ==
    ASSUME NEW g \in PinFile, NEW c
    PROVE  FrameDone(g, c) \in PinFile /\ OnlyAt(g, FrameDone(g, c), {})
<1>1. PICK S : S = {c.cs} \cup LdacPins(c)
  OBVIOUS
<1>2. PICK h : h = FrameDone(g, c) /\ h = [p \in Pins |-> IF p \in S THEN [g[p] EXCEPT !.level = "HIGH"] ELSE g[p]]
  BY <1>1 DEF FrameDone
<1>3. ASSUME NEW p \in Pins PROVE h[p] \in PinRec /\ h[p].mode = g[p].mode
  <2>1. PICK x \in PinRec : x = g[p]
    BY DEF PinFile
  <2>2. h[p] = IF p \in S THEN [x EXCEPT !.level = "HIGH"] ELSE x
    BY <1>2, <2>1
  <2>3. "INPUT" \in PinMode /\ "HIGH" \in Level
    BY DEF PinMode, Level
  <2>4. [x EXCEPT !.level = "HIGH"] \in PinRec /\ [x EXCEPT !.level = "HIGH"].mode = x.mode
    BY <2>3, PinField
  <2>5. CASE p \in S
    BY <2>1, <2>2, <2>4, <2>5
  <2>6. CASE p \notin S
    BY <2>1, <2>2, <2>6
  <2> QED BY <2>5, <2>6
<1>4. h \in [Pins -> PinRec]
  <2>1. h = [p \in Pins |-> h[p]]
    BY <1>2
  <2> QED BY <1>3, <2>1
<1> QED BY <1>2, <1>3, <1>4 DEF PinFile, OnlyAt

LEMMA OnlyAtChain ==
    ASSUME NEW g, NEW h, NEW k, NEW S, NEW T, OnlyAt(g, h, S), OnlyAt(h, k, T)
    PROVE  OnlyAt(g, k, S \cup T)
BY DEF OnlyAt

\* What a step of one backend does to the pins, when its sensors used the pins
\* of U and use those of V: a pin it no longer uses floats.
PinsStep(U, V) ==
    /\ GpioTypeOK'
    /\ \A p \in Pins : \/ gpio'[p].mode = "INPUT"
                       \/ p \in V
                       \/ p \notin U /\ gpio'[p].mode = gpio[p].mode

LEMMA PinsTaken ==
    ASSUME gpio' \in PinFile, NEW U, NEW V, NEW S, OnlyAt(gpio, gpio', S), S \subseteq V, U \ S \subseteq V
    PROVE  PinsStep(U, V)
BY DEF PinsStep, GpioTypeOK, PinFile, PinRec, OnlyAt

LEMMA PinsGivenBack ==
    ASSUME gpio' \in PinFile, NEW U, NEW V, NEW S, OnlyAt(gpio, gpio', S), Floating(gpio', S), U \ S \subseteq V
    PROVE  PinsStep(U, V)
BY DEF PinsStep, GpioTypeOK, PinFile, PinRec, OnlyAt, Floating

LEMMA PinsKept ==
    ASSUME GpioTypeOK, UNCHANGED gpio, NEW U, NEW V, U \subseteq V
    PROVE  PinsStep(U, V)
BY DEF PinsStep, GpioTypeOK

LEMMA PinsTyped == GpioTypeOK <=> gpio \in PinFile
BY DEF GpioTypeOK, PinFile, PinRec

\* A setup that failed behind its pin configuration: configured and reset.
LEMMA ConfiguredAndReset ==
    ASSUME NEW g \in PinFile, NEW h \in PinFile, NEW S, OnlyAt(g, h, S)
    PROVE  /\ gpio_reset_to_defaults(h, S) \in PinFile
           /\ OnlyAt(g, gpio_reset_to_defaults(h, S), S) /\ Floating(gpio_reset_to_defaults(h, S), S)
<1>1. /\ gpio_reset_to_defaults(h, S) \in PinFile /\ OnlyAt(h, gpio_reset_to_defaults(h, S), S)
      /\ Floating(gpio_reset_to_defaults(h, S), S)
  BY PinReset
<1> QED BY <1>1 DEF OnlyAt

\* Digital outputs: the pins in use are the reservation bits.
LEMMA DoutSetupPins ==
    ASSUME DoutInv, GpioTypeOK, NEW cfg \in DoutCfgs, digital_out_sensor_setup(cfg)
    PROVE  PinsStep(dout_pins, dout_pins')
<1>1. PICK pin \in Pins, level \in Level : pin = cfg.pin /\ level = cfg.initial_level
  BY DoutAssumption
<1>2. gpio \in PinFile
  BY PinsTyped
<1>3. PICK g \in PinFile : g = gpio_configure_output(gpio, pin, level) /\ OnlyAt(gpio, g, {pin})
  BY <1>2, PinOutput
<1>4. CASE UNCHANGED <<gpio, dout_pins>>
  BY <1>4, PinsKept
<1>5. CASE gpio' = gpio_reset_to_defaults(g, {pin}) /\ dout_pins' = dout_pins
  BY <1>2, <1>3, <1>5, ConfiguredAndReset, PinsGivenBack
<1>6. CASE gpio' = g /\ dout_pins' = dout_pins \cup {pin}
  BY <1>3, <1>6, PinsTaken
<1>7. \/ UNCHANGED <<gpio, dout_pins>>
      \/ gpio' = gpio_reset_to_defaults(g, {pin}) /\ dout_pins' = dout_pins
      \/ gpio' = g /\ dout_pins' = dout_pins \cup {pin}
  BY <1>1, <1>3 DEF digital_out_sensor_setup, DoutReject, DoutLeakTimer, DoutInstall, backendVars, doutVars
<1> QED BY <1>4, <1>5, <1>6, <1>7

LEMMA DoutSetPins ==
    ASSUME DoutInv, GpioTypeOK, NEW idx \in LiveDout, NEW v \in DoutValues, digital_out_sensor_set_output(idx, v)
    PROVE  PinsStep(dout_pins, dout_pins')
<1>1. PICK pin \in Pins, level \in Level : pin = dout[idx].pin /\ level = v.level
  <2>1. dout[idx] \in DoutState
    BY DEF DoutInv, DoutTypeOK, LiveDout
  <2> QED BY <2>1, DoutAssumption DEF DoutState
<1>2. gpio \in PinFile
  BY PinsTyped
<1>3. dout_pins' = dout_pins /\ (UNCHANGED gpio \/ gpio' = drive_level(gpio, pin, level))
  BY <1>1 DEF digital_out_sensor_set_output, DoutReject, DoutHold, DoutHwPulse, DoutSwPulse, backendVars, doutVars
<1>4. CASE UNCHANGED gpio
  BY <1>3, <1>4, PinsKept
<1>5. CASE gpio' = drive_level(gpio, pin, level)
  BY <1>2, <1>3, <1>5, PinDrive, PinsTaken
<1> QED BY <1>3, <1>4, <1>5

LEMMA DoutStopPins ==
    ASSUME DoutInv, GpioTypeOK, NEW idx \in LiveDout, digital_out_sensor_stop(idx)
    PROVE  PinsStep(dout_pins, dout_pins')
<1>1. gpio \in PinFile
  BY PinsTyped
<1>2. PICK S : S = {dout[idx].pin}
  OBVIOUS
<1>3. gpio' = gpio_reset_to_defaults(gpio, S) /\ dout_pins' = dout_pins \ S
  BY <1>2 DEF digital_out_sensor_stop, LiveDout
<1> QED BY <1>1, <1>3, PinReset, PinsGivenBack

\* The end of a pulse drives a pin its sensor still has.
LEMMA RevertPins ==
    ASSUME DoutInv, GpioTypeOK, NEW idx \in DoutIndex, revert_to_idle_level(idx), UNCHANGED dout_pins
    PROVE  PinsStep(dout_pins, dout_pins')
<1>1. PICK pin \in Pins, level \in Level : pin = dout[idx].pin /\ level = dout[idx].revert
  BY DEF DoutInv, DoutTypeOK, DoutState
<1>2. gpio \in PinFile
  BY PinsTyped
<1>3. UNCHANGED gpio \/ gpio' = drive_level(gpio, pin, level)
  BY <1>1 DEF revert_to_idle_level
<1>4. CASE UNCHANGED gpio
  BY <1>4, PinsKept
<1>5. CASE gpio' = drive_level(gpio, pin, level)
  BY <1>2, <1>5, PinDrive, PinsTaken
<1> QED BY <1>3, <1>4, <1>5

LEMMA PwmSetupPins ==
    ASSUME GpioTypeOK, NEW cfg \in PwmCfgs, pwm_sensor_setup(cfg)
    PROVE  PinsStep(pwm_pins, pwm_pins')
<1>1. PICK S : S = {cfg.pin}
  OBVIOUS
<1>2. gpio \in PinFile
  BY PinsTyped
<1>3. PICK g \in PinFile : g = gpio_configure_af(gpio, S) /\ OnlyAt(gpio, g, S)
  BY <1>2, PinAf
<1>4. CASE UNCHANGED <<gpio, pwm_pins>>
  BY <1>4, PinsKept
<1>5. CASE gpio' = gpio_reset_to_defaults(g, S) /\ pwm_pins' = pwm_pins
  BY <1>2, <1>3, <1>5, ConfiguredAndReset, PinsGivenBack
<1>6. CASE gpio' = g /\ pwm_pins' = pwm_pins \cup S
  BY <1>3, <1>6, PinsTaken
<1>7. \/ UNCHANGED <<gpio, pwm_pins>>
      \/ gpio' = gpio_reset_to_defaults(g, S) /\ pwm_pins' = pwm_pins
      \/ gpio' = g /\ pwm_pins' = pwm_pins \cup S
  BY <1>1, <1>3 DEF pwm_sensor_setup, PwmReject, PwmInstall, backendVars, pwmVars
<1> QED BY <1>4, <1>5, <1>6, <1>7

LEMMA PwmSetPins ==
    ASSUME GpioTypeOK, NEW idx, NEW v, pwm_sensor_set_output(idx, v)
    PROVE  PinsStep(pwm_pins, pwm_pins')
<1>1. UNCHANGED gpio /\ pwm_pins' = pwm_pins
  BY DEF pwm_sensor_set_output, PwmReject, backendVars, pwmVars
<1> QED BY <1>1, PinsKept

LEMMA PwmStopPins ==
    ASSUME GpioTypeOK, NEW idx \in LivePwm, pwm_sensor_stop(idx)
    PROVE  PinsStep(pwm_pins, pwm_pins')
<1>1. gpio \in PinFile
  BY PinsTyped
<1>2. PICK S : S = {pwm[idx].pin}
  OBVIOUS
<1>3. gpio' = gpio_reset_to_defaults(gpio, S) /\ pwm_pins' = pwm_pins \ S
  BY <1>2 DEF pwm_sensor_stop, LivePwm
<1> QED BY <1>1, <1>3, PinReset, PinsGivenBack

\* The pins of the live bus sensors.
I2cUsed == UNION {i2c[i].pins : i \in LiveI2c}
SlaveUsed == UNION {spi_slaves[p].pins : p \in LiveSpi}
ChipUsed == UNION {ChipPins(chips[p]) : p \in Chips}

LEMMA I2cSetupPins ==
    ASSUME I2cInv, TableOK, GpioTypeOK, NEW cfg \in I2cCfgs, i2c_sensor_setup(cfg)
    PROVE  PinsStep(I2cUsed, I2cUsed')
<1>1. gpio \in PinFile
  BY PinsTyped
<1>2. PICK S : S = cfg.pins
  OBVIOUS
<1>3. CASE UNCHANGED i2cVars /\ (UNCHANGED gpio \/ gpio' = gpio_reset_to_defaults(gpio, S))
  <2>1. I2cUsed' = I2cUsed
    BY <1>3 DEF I2cUsed, LiveI2c, i2cVars
  <2>2. CASE UNCHANGED gpio
    BY <2>1, <2>2, PinsKept
  <2>3. CASE gpio' = gpio_reset_to_defaults(gpio, S)
    BY <1>1, <2>1, <2>3, PinReset, PinsGivenBack
  <2> QED BY <1>3, <2>2, <2>3
<1>4. ASSUME NEW idx \in I2cIndex, ~i2c[idx].in_use, NEW r, r.in_use, r.pins = S,
             i2c' = [i2c EXCEPT ![idx] = r], gpio' = gpio_configure_af(gpio, S)
      PROVE  PinsStep(I2cUsed, I2cUsed')
  <2>1. \A i \in I2cIndex : i2c'[i] = IF i = idx THEN r ELSE i2c[i]
    BY <1>4 DEF I2cInv, I2cTypeOK
  <2>2. I2cUsed \subseteq I2cUsed' /\ S \subseteq I2cUsed'
    BY <1>4, <2>1 DEF I2cUsed, LiveI2c
  <2> QED BY <1>1, <1>4, <2>2, PinAf, PinsTaken
<1>5. CASE \E err : I2cReject(err)
  BY <1>3, <1>5 DEF I2cReject, backendVars
<1>6. ASSUME NEW idx \in i2c_alloc_slot
      PROVE  idx \in I2cIndex /\ ~i2c[idx].in_use /\ i2c[idx] = I2cFree /\ ~i2c_slave[idx].initialized
             /\ i2c_slave[idx] = I2cOff
  <2>1. idx \in I2cIndex /\ ~i2c[idx].in_use
    BY DEF i2c_alloc_slot
  <2>2. I2cOwned(idx) /\ i2c_slave[idx] \in [initialized : BOOLEAN, bound : BOOLEAN]
    BY <2>1 DEF I2cInv, I2cTypeOK
  <2>3. i2c[idx] = I2cFree /\ ~i2c_slave[idx].initialized /\ ~i2c_slave[idx].bound
    BY <2>1, <2>2 DEF I2cOwned
  <2> QED BY <2>1, <2>2, <2>3 DEF I2cOff
<1>7. ASSUME NEW idx \in i2c_alloc_slot, I2cInstall(cfg, idx)
      PROVE  PinsStep(I2cUsed, I2cUsed')
  <2>1. PICK id, r : /\ r = [in_use |-> TRUE, pins |-> cfg.pins,
                             regmap |-> Patch([k \in 1 .. cfg.register_count |-> 0], cfg.preset_start, cfg.preset)]
                     /\ IF id = PROTO_SENSOR_ID_NONE
                        THEN /\ gpio' = gpio_reset_to_defaults(gpio, S)
                             /\ i2c' = [i2c EXCEPT ![idx] = I2cFree]
                             /\ i2c_slave' = [i2c_slave EXCEPT ![idx] = I2cOff]
                        ELSE gpio' = gpio_configure_af(gpio, S) /\ i2c' = [i2c EXCEPT ![idx] = r]
    BY <1>2, <1>7, Zenon DEF I2cInstall
  <2>2. CASE id = PROTO_SENSOR_ID_NONE
    <3>1. UNCHANGED i2cVars
      BY <1>6, <2>1, <2>2 DEF i2cVars, I2cInv, I2cTypeOK
    <3> QED BY <1>3, <2>1, <2>2, <3>1
  <2>3. CASE id # PROTO_SENSOR_ID_NONE
    <3>1. r.in_use /\ r.pins = S
      BY <1>2, <2>1
    <3> QED BY <1>4, <1>6, <2>1, <2>3, <3>1
  <2> QED BY <2>2, <2>3
<1> QED BY <1>5, <1>6, <1>7 DEF i2c_sensor_setup

LEMMA I2cSetPins ==
    ASSUME I2cInv, GpioTypeOK, NEW idx \in I2cIndex, NEW v, i2c_sensor_set_output(idx, v)
    PROVE  PinsStep(I2cUsed, I2cUsed')
<1>1. UNCHANGED gpio
  BY DEF i2c_sensor_set_output, I2cReject, backendVars
<1>2. CASE i2c' = i2c
  BY <1>1, <1>2, PinsKept DEF I2cUsed, LiveI2c
<1>3. CASE i2c' = [i2c EXCEPT ![idx].regmap = Patch(@, v.reg_start, v.values)]
  <2>1. PICK m : m = Patch(i2c[idx].regmap, v.reg_start, v.values)
    OBVIOUS
  <2>2. i2c' = [i2c EXCEPT ![idx] = [i2c[idx] EXCEPT !.regmap = m]]
    BY <1>3, <2>1
  <2>3. PICK x \in [in_use : BOOLEAN, pins : SUBSET Pins, regmap : Seq(Nat)] : x = i2c[idx]
    BY DEF I2cInv, I2cTypeOK
  <2>4. PICK y : y = [x EXCEPT !.regmap = m] /\ y.pins = x.pins /\ y.in_use = x.in_use
    <3>1. PICK y : y = [x EXCEPT !.regmap = m]
      OBVIOUS
    <3> QED BY <2>3, <3>1
  <2>5. \A i \in I2cIndex : i2c'[i].pins = i2c[i].pins /\ i2c'[i].in_use = i2c[i].in_use
    BY <2>2, <2>3, <2>4 DEF I2cInv, I2cTypeOK
  <2>6. I2cUsed \subseteq I2cUsed'
    BY <2>5 DEF I2cUsed, LiveI2c
  <2> QED BY <1>1, <2>6, PinsKept
<1> QED BY <1>2, <1>3 DEF i2c_sensor_set_output, I2cReject, i2cVars

LEMMA I2cStopPins ==
    ASSUME I2cInv, GpioTypeOK, NEW idx \in LiveI2c, i2c_sensor_stop(idx)
    PROVE  PinsStep(I2cUsed, I2cUsed')
<1>1. gpio \in PinFile
  BY PinsTyped
<1>2. PICK S : S = i2c[idx].pins
  OBVIOUS
<1>3. gpio' = gpio_reset_to_defaults(gpio, S) /\ i2c' = [i2c EXCEPT ![idx] = I2cFree]
  BY <1>2 DEF i2c_sensor_stop, LiveI2c
<1>4. \A i \in I2cIndex : i # idx => i2c'[i] = i2c[i]
  BY <1>3 DEF I2cInv, I2cTypeOK
<1>5. I2cUsed \ S \subseteq I2cUsed'
  BY <1>2, <1>4 DEF I2cUsed, LiveI2c
<1> QED BY <1>1, <1>3, <1>5, PinReset, PinsGivenBack

LEMMA SlaveSetupPins ==
    ASSUME SpiInv, GpioTypeOK, NEW cfg \in SpiSlaveCfgs, spi_slave_sensor_setup(cfg)
    PROVE  PinsStep(SlaveUsed, SlaveUsed')
<1>1. gpio \in PinFile
  BY PinsTyped
<1>2. PICK S, p : p \in SpiPeriphs /\ S = cfg.pins /\ p = cfg.periph
  BY SpiSlaveAssumption
<1>3. CASE UNCHANGED spi_slaves /\ (UNCHANGED gpio \/ gpio' = gpio_reset_to_defaults(gpio, S))
  <2>1. SlaveUsed' = SlaveUsed
    BY <1>3 DEF SlaveUsed, LiveSpi
  <2>2. CASE UNCHANGED gpio
    BY <2>1, <2>2, PinsKept
  <2>3. CASE gpio' = gpio_reset_to_defaults(gpio, S)
    BY <1>1, <2>1, <2>3, PinReset, PinsGivenBack
  <2> QED BY <1>3, <2>2, <2>3
<1>4. CASE /\ ~spi_slaves[p].in_use /\ gpio' = gpio_configure_af(gpio, S)
           /\ spi_slaves' = [spi_slaves EXCEPT ![p] = [in_use |-> TRUE, pins |-> S]]
  <2>1. PICK r : r = [in_use |-> TRUE, pins |-> S] /\ r.in_use /\ r.pins = S
    <3>1. PICK r : r = [in_use |-> TRUE, pins |-> S]
      OBVIOUS
    <3> QED BY <3>1
  <2>2. \A q \in SpiPeriphs : spi_slaves'[q] = IF q = p THEN r ELSE spi_slaves[q]
    BY <1>2, <1>4, <2>1 DEF SpiInv, SpiTyped
  <2>3. SlaveUsed \subseteq SlaveUsed' /\ S \subseteq SlaveUsed'
    BY <1>2, <1>4, <2>1, <2>2 DEF SlaveUsed, LiveSpi
  <2> QED BY <1>1, <1>4, <2>3, PinAf, PinsTaken
<1>5. \/ UNCHANGED spi_slaves /\ (UNCHANGED gpio \/ gpio' = gpio_reset_to_defaults(gpio, S))
      \/ /\ ~spi_slaves[p].in_use /\ gpio' = gpio_configure_af(gpio, S)
         /\ spi_slaves' = [spi_slaves EXCEPT ![p] = [in_use |-> TRUE, pins |-> S]]
  BY <1>2 DEF spi_slave_sensor_setup, SpiSlaveReject, SpiSlaveInstall, backendVars
<1> QED BY <1>3, <1>4, <1>5

LEMMA SlaveSetPins ==
    ASSUME GpioTypeOK, NEW idx, NEW v, spi_slave_sensor_set_output(idx, v)
    PROVE  PinsStep(SlaveUsed, SlaveUsed')
<1>1. UNCHANGED gpio /\ spi_slaves' = spi_slaves
  BY DEF spi_slave_sensor_set_output, SpiSlaveReject, backendVars
<1> QED BY <1>1, PinsKept DEF SlaveUsed, LiveSpi

LEMMA SlaveStopPins ==
    ASSUME SpiInv, GpioTypeOK, NEW idx \in LiveSpi, spi_slave_sensor_stop(idx)
    PROVE  PinsStep(SlaveUsed, SlaveUsed')
<1>1. gpio \in PinFile
  BY PinsTyped
<1>2. PICK S : S = spi_slaves[idx].pins
  OBVIOUS
<1>3. gpio' = gpio_reset_to_defaults(gpio, S) /\ spi_slaves' = [spi_slaves EXCEPT ![idx] = SpiSlaveFree]
  BY <1>2 DEF spi_slave_sensor_stop, LiveSpi
<1>4. \A p \in SpiPeriphs : p # idx => spi_slaves'[p] = spi_slaves[p]
  BY <1>3 DEF SpiInv, SpiTyped
<1>5. SlaveUsed \ S \subseteq SlaveUsed'
  BY <1>2, <1>4 DEF SlaveUsed, LiveSpi
<1> QED BY <1>1, <1>3, <1>5, PinReset, PinsGivenBack

\* A chip record's pins are those of its four pin fields.
LEMMA ChipPinsOf ==
    ASSUME NEW c, NEW d, d.mosi = c.mosi, d.sck = c.sck, d.cs = c.cs, d.ldac = c.ldac
    PROVE  ChipPins(d) = ChipPins(c)
BY DEF ChipPins, LdacPins, LdacEnabled

LEMMA MaskPins ==
    ASSUME NEW c \in ChipRec, NEW X
    PROVE  ChipPins([c EXCEPT !.channels_active = X]) = ChipPins(c)
<1>1. PICK d : d = [c EXCEPT !.channels_active = X]
  OBVIOUS
<1>2. d.mosi = c.mosi /\ d.sck = c.sck /\ d.cs = c.cs /\ d.ldac = c.ldac
  BY <1>1 DEF ChipRec
<1> QED BY <1>1, <1>2, ChipPinsOf

\* A transfer moves levels, never modes.
LEMMA ChipWritePins ==
    ASSUME NEW s, NEW c \in ChipRec, NEW g \in PinFile, NEW w \in chip_write(s, c, g)
    PROVE  w.g \in PinFile /\ OnlyAt(g, w.g, {})
<1>1. PICK cs \in Pins : cs = c.cs
  BY DEF ChipRec
<1>2. PICK high, low, done :
        /\ high = drive_level(g, cs, "HIGH") /\ low = drive_level(g, cs, "LOW") /\ done = FrameDone(g, c)
  OBVIOUS
<1>3. "HIGH" \in Level /\ "LOW" \in Level
  BY DEF Level
<1>4. /\ high \in PinFile /\ OnlyAt(g, high, {}) /\ low \in PinFile /\ OnlyAt(g, low, {})
      /\ done \in PinFile /\ OnlyAt(g, done, {})
  BY <1>2, <1>3, PinDrive, PinFrame
<1>5. w.g = high \/ w.g = low \/ w.g = done
  <2>1. CASE spi_master_write_err(s) # "ERR_SUCCESS" /\ w \notin LateWithinWrite(s, c, g)
    <3>1. w = [err |-> "ERR_INTERNAL", s |-> s, c |-> c, g |-> high]
      BY <1>1, <1>2, <2>1 DEF chip_write
    <3> QED BY <3>1
  <2>3. CASE w \in LateWithinWrite(s, c, g)
    <3>1. PICK a, b : w = [err |-> "ERR_SUCCESS", s |-> a, c |-> b, g |-> done]
      BY <1>2, <2>3, Zenon DEF LateWithinWrite
    <3> QED BY <3>1
  <2>2. CASE spi_master_write_err(s) = "ERR_SUCCESS"
    <3>1. PICK a, b, e : \/ w = [err |-> "ERR_SUCCESS", s |-> s, c |-> b, g |-> done]
                         \/ w = [err |-> e, s |-> a, c |-> b, g |-> low]
      BY <1>1, <1>2, <2>2, Zenon DEF chip_write
    <3>2. CASE w = [err |-> "ERR_SUCCESS", s |-> s, c |-> b, g |-> done]
      BY <3>2
    <3>3. CASE w = [err |-> e, s |-> a, c |-> b, g |-> low]
      BY <3>3
    <3> QED BY <3>1, <3>2, <3>3
  <2> QED BY <2>1, <2>2, <2>3
<1> QED BY <1>4, <1>5

\* The chip at a port becomes c, or is torn down and its pins float.
LEMMA SettlePins ==
    ASSUME SpiInv, GpioTypeOK, NEW p \in SpiPeriphs, NEW s, NEW c \in ChipRec, NEW g \in PinFile,
           c.initialized, OnlyAt(gpio, g, ChipPins(c)),
           chips[p].initialized => ChipPins(chips[p]) \subseteq ChipPins(c), DacSettle(p, s, c, g)
    PROVE  PinsStep(ChipUsed, ChipUsed')
<1>1. gpio \in PinFile /\ chips \in [SpiPeriphs -> ChipRec]
  BY PinsTyped DEF SpiInv, SpiTyped
<1>2. PICK S : S = ChipPins(c)
  OBVIOUS
<1>3. ASSUME NEW x, chips' = [chips EXCEPT ![p] = x]
      PROVE  /\ ChipUsed \ S \subseteq ChipUsed'
             /\ x.initialized => ChipPins(x) \subseteq ChipUsed'
  <2>1. \A q \in SpiPeriphs : chips'[q] = IF q = p THEN x ELSE chips[q]
    BY <1>1, <1>3
  <2> QED BY <1>2, <2>1 DEF ChipUsed, Chips
<1>4. CASE c.channels_active = {}
  <2>1. chips' = [chips EXCEPT ![p] = ChipFree] /\ gpio' = gpio_reset_to_defaults(g, S)
    BY <1>2, <1>4 DEF DacSettle
  <2>2. gpio' \in PinFile /\ OnlyAt(gpio, gpio', S) /\ Floating(gpio', S)
    BY <1>1, <1>2, <2>1, ConfiguredAndReset
  <2> QED BY <1>3, <2>1, <2>2, PinsGivenBack
<1>5. CASE c.channels_active # {}
  <2>1. chips' = [chips EXCEPT ![p] = c] /\ gpio' = g
    BY <1>5 DEF DacSettle
  <2> QED BY <1>2, <1>3, <2>1, PinsTaken
<1> QED BY <1>4, <1>5

\* The second half of a setup, from the pins g of a chip that is up.
LEMMA DacAddPins ==
    ASSUME SpiInv, GpioTypeOK, NEW cfg \in DacCfgs, NEW s \in SpiRec, NEW c \in ChipRec, NEW g \in PinFile, NEW h,
           c.initialized, OnlyAt(gpio, g, ChipPins(c)),
           chips[cfg.periph].initialized => ChipPins(chips[cfg.periph]) \subseteq ChipPins(c),
           DacAddChannel(cfg, s, c, g, h)
    PROVE  PinsStep(ChipUsed, ChipUsed')
<1>1. PICK p \in SpiPeriphs : p = cfg.periph
  BY DacAssumption
<1>2. PICK ch \in DacChannels : ch = cfg.channel
  BY DacAssumption
<1>3. PICK w \in chip_write(s, c, g) :
        \/ DacSettle(p, w.s, w.c, w.g)
        \/ DacSettle(p, w.s, [w.c EXCEPT !.channels_active = @ \cup {ch}], w.g)
  BY <1>1, <1>2, Zenon DEF DacAddChannel
<1>4. w.c \in ChipRec /\ SameButDone(c, w.c) /\ w.g \in PinFile /\ OnlyAt(g, w.g, {})
  BY <1>3, ChipWrite, ChipWritePins
<1>5. ChipPins(w.c) = ChipPins(c) /\ w.c.initialized
  BY <1>4, ChipPinsOf DEF SameButDone
<1>6. OnlyAt(gpio, w.g, ChipPins(c))
  BY <1>4 DEF OnlyAt
<1>7. CASE DacSettle(p, w.s, w.c, w.g)
  BY <1>1, <1>4, <1>5, <1>6, <1>7, SettlePins
<1>8. CASE DacSettle(p, w.s, [w.c EXCEPT !.channels_active = @ \cup {ch}], w.g)
  <2>1. PICK x \in ChipRec : x = w.c /\ x.initialized
    BY <1>4, <1>5
  <2>2. /\ [x EXCEPT !.channels_active = @ \cup {ch}] \in ChipRec
        /\ [x EXCEPT !.channels_active = @ \cup {ch}].initialized
        /\ ChipPins([x EXCEPT !.channels_active = @ \cup {ch}]) = ChipPins(x)
    BY <2>1, DacEntryAdded, MaskPins
  <2>3. PICK d \in ChipRec : /\ d = [x EXCEPT !.channels_active = @ \cup {ch}] /\ d.initialized
                             /\ ChipPins(d) = ChipPins(c)
    BY <1>5, <2>1, <2>2
  <2>4. DacSettle(p, w.s, d, w.g)
    BY <1>8, <2>1, <2>3
  <2> QED BY <1>1, <1>4, <1>6, <2>3, <2>4, SettlePins
<1> QED BY <1>3, <1>7, <1>8

\* The bring-up configures the chip's pins and no other.
LEMMA BringUpPins ==
    ASSUME NEW cfg \in DacCfgs, NEW g0 \in PinFile
    PROVE  LET a == gpio_configure_output(gpio_configure_af(g0, {cfg.mosi, cfg.sck}), cfg.cs, "HIGH")
               g == IF LdacEnabled(cfg) THEN gpio_configure_output(a, cfg.ldac, "HIGH") ELSE a
           IN  g \in PinFile /\ OnlyAt(g0, g, ChipPins(cfg))
<1>1. PICK cs \in Pins : cs = cfg.cs
  BY DacAssumption
<1>2. "HIGH" \in Level
  BY DEF Level
<1>3. PICK M : M = {cfg.mosi, cfg.sck}
  OBVIOUS
<1>4. PICK b \in PinFile : b = gpio_configure_af(g0, M) /\ OnlyAt(g0, b, M)
  BY PinAf
<1>5. PICK a \in PinFile : a = gpio_configure_output(b, cs, "HIGH") /\ OnlyAt(b, a, {cs})
  BY <1>2, PinOutput
<1>6. OnlyAt(g0, a, M \cup {cs})
  BY <1>4, <1>5, OnlyAtChain
<1>7. PICK g \in PinFile : /\ g = IF LdacEnabled(cfg) THEN gpio_configure_output(a, cfg.ldac, "HIGH") ELSE a
                           /\ OnlyAt(a, g, LdacPins(cfg))
  <2>1. CASE LdacEnabled(cfg)
    <3>1. PICK l \in Pins : l = cfg.ldac /\ LdacPins(cfg) = {l}
      BY <2>1, DacAssumption DEF LdacEnabled, LdacPins
    <3>2. gpio_configure_output(a, l, "HIGH") \in PinFile /\ OnlyAt(a, gpio_configure_output(a, l, "HIGH"), {l})
      BY <1>2, PinOutput
    <3> QED BY <2>1, <3>1, <3>2
  <2>2. CASE ~LdacEnabled(cfg)
    BY <2>2 DEF OnlyAt
  <2> QED BY <2>1, <2>2
<1>8. OnlyAt(g0, g, M \cup {cs} \cup LdacPins(cfg))
  BY <1>6, <1>7, OnlyAtChain
<1>9. M \cup {cs} \cup LdacPins(cfg) = ChipPins(cfg)
  BY <1>1, <1>3 DEF ChipPins
<1> QED BY <1>1, <1>3, <1>4, <1>5, <1>7, <1>8, <1>9

LEMMA DacBringsUpPins ==
    ASSUME SpiInv, GpioTypeOK, NEW cfg \in DacCfgs, ~chips[cfg.periph].initialized, DacBringUp(cfg)
    PROVE  PinsStep(ChipUsed, ChipUsed')
<1>1. PICK p \in SpiPeriphs : p = cfg.periph
  BY DacAssumption
<1>2. gpio \in PinFile
  BY PinsTyped
<1>3. PICK a, g1, c1, s1 :
        /\ a = gpio_configure_output(gpio_configure_af(gpio, {cfg.mosi, cfg.sck}), cfg.cs, "HIGH")
        /\ g1 = IF LdacEnabled(cfg) THEN gpio_configure_output(a, cfg.ldac, "HIGH") ELSE a
        /\ s1 = spi_master_init(spi[p])
        /\ c1 = [initialized |-> TRUE, clock |-> cfg.clock, mosi |-> cfg.mosi, sck |-> cfg.sck,
                 cs |-> cfg.cs, ldac |-> IF LdacEnabled(cfg) THEN cfg.ldac ELSE <<"NULL", 0>>,
                 channels_active |-> {}, tx_done |-> FALSE]
        /\ \/ /\ gpio' = gpio_reset_to_defaults(g1, ChipPins(cfg))
              /\ UNCHANGED <<managerVars, heap, spi, dacVars>>
           \/ DacAddChannel(cfg, s1, c1, g1, heap + 1)
           \/ \E w \in chip_write(s1, c1, g1) :
                 \/ DacAddChannel(cfg, w.s, w.c, w.g, heap + 1)
                 \/ DacSettle(p, w.s, w.c, w.g)
  BY <1>1, Zenon DEF DacBringUp
<1>4. g1 \in PinFile /\ OnlyAt(gpio, g1, ChipPins(cfg))
  BY <1>2, <1>3, BringUpPins
<1>5. s1 \in SpiRec
  <2>1. spi[p] \in SpiRec
    BY DEF SpiInv, SpiTyped
  <2> QED BY <1>3, <2>1 DEF spi_master_init, spi_claim, SpiRec
<1>6. c1 \in ChipRec /\ c1.initialized /\ ChipPins(c1) = ChipPins(cfg)
  <2>1. PICK l \in Pins \cup {<<"NULL", 0>>} : l = IF LdacEnabled(cfg) THEN cfg.ldac ELSE <<"NULL", 0>>
    BY DacAssumption DEF LdacEnabled
  <2>2. cfg.clock \in Nat /\ cfg.mosi \in Pins /\ cfg.sck \in Pins /\ cfg.cs \in Pins
    BY DacAssumption
  <2>3. c1 = [initialized |-> TRUE, clock |-> cfg.clock, mosi |-> cfg.mosi, sck |-> cfg.sck,
              cs |-> cfg.cs, ldac |-> l, channels_active |-> {}, tx_done |-> FALSE]
    BY <1>3, <2>1
  <2>4. /\ c1 \in ChipRec /\ c1.initialized /\ c1.mosi = cfg.mosi /\ c1.sck = cfg.sck /\ c1.cs = cfg.cs
        /\ c1.ldac = l
    BY <2>2, <2>3 DEF ChipRec
  <2>5. LdacPins(c1) = LdacPins(cfg)
    BY <2>1, <2>4 DEF LdacPins, LdacEnabled
  <2> QED BY <2>4, <2>5 DEF ChipPins
<1>7. CASE gpio' = gpio_reset_to_defaults(g1, ChipPins(cfg)) /\ UNCHANGED <<managerVars, heap, spi, dacVars>>
  <2>1. ChipUsed' = ChipUsed
    BY <1>7 DEF ChipUsed, Chips, dacVars
  <2> QED BY <1>2, <1>4, <1>7, <2>1, ConfiguredAndReset, PinsGivenBack
<1>8. CASE DacAddChannel(cfg, s1, c1, g1, heap + 1)
  BY <1>4, <1>5, <1>6, <1>8, DacAddPins
<1>9. ASSUME NEW w \in chip_write(s1, c1, g1)
      PROVE  /\ w.s \in SpiRec /\ w.c \in ChipRec /\ w.g \in PinFile /\ w.c.initialized
             /\ OnlyAt(gpio, w.g, ChipPins(w.c))
  <2>1. /\ w.s \in SpiRec /\ w.c \in ChipRec /\ SameButDone(c1, w.c)
        /\ w.g \in PinFile /\ OnlyAt(g1, w.g, {})
    BY <1>4, <1>5, <1>6, ChipWrite, ChipWritePins
  <2>2. ChipPins(w.c) = ChipPins(cfg) /\ w.c.initialized
    BY <1>6, <2>1, ChipPinsOf DEF SameButDone
  <2> QED BY <1>4, <2>1, <2>2 DEF OnlyAt
<1>10. ASSUME NEW w \in chip_write(s1, c1, g1), DacAddChannel(cfg, w.s, w.c, w.g, heap + 1)
       PROVE  PinsStep(ChipUsed, ChipUsed')
  BY <1>9, <1>10, DacAddPins
<1>11. ASSUME NEW w \in chip_write(s1, c1, g1), DacSettle(p, w.s, w.c, w.g)
       PROVE  PinsStep(ChipUsed, ChipUsed')
  BY <1>1, <1>9, <1>11, SettlePins
<1> QED BY <1>3, <1>7, <1>8, <1>10, <1>11

LEMMA DacSetupPins ==
    ASSUME SpiInv, GpioTypeOK, NEW cfg \in DacCfgs, dac_sensor_setup(cfg)
    PROVE  PinsStep(ChipUsed, ChipUsed')
<1>1. CASE \E err : DacReject(err)
  <2>1. UNCHANGED gpio /\ chips' = chips
    BY <1>1 DEF DacReject, backendVars, dacVars
  <2> QED BY <2>1, PinsKept DEF ChipUsed, Chips
<1>2. CASE chips[cfg.periph].initialized /\ DacAddChannel(cfg, spi[cfg.periph], chips[cfg.periph], gpio, heap)
  <2>1. PICK s \in SpiRec, c \in ChipRec : s = spi[cfg.periph] /\ c = chips[cfg.periph]
    BY DacAssumption DEF SpiInv, SpiTyped
  <2>2. gpio \in PinFile /\ OnlyAt(gpio, gpio, ChipPins(c))
    BY PinsTyped DEF OnlyAt
  <2>3. DacAddChannel(cfg, s, c, gpio, heap)
    BY <1>2, <2>1
  <2> QED BY <1>2, <2>1, <2>2, <2>3, DacAddPins
<1>3. CASE ~chips[cfg.periph].initialized /\ DacBringUp(cfg)
  BY <1>3, DacBringsUpPins
<1> QED BY <1>1, <1>2, <1>3 DEF dac_sensor_setup

\* A write or a late completion at a port whose chip keeps its pins.
LEMMA ChipTouchedPins ==
    ASSUME SpiInv, GpioTypeOK, NEW p \in SpiPeriphs, NEW c, SameButDone(chips[p], c),
           chips' = [chips EXCEPT ![p] = c], gpio' \in PinFile, OnlyAt(gpio, gpio', {})
    PROVE  PinsStep(ChipUsed, ChipUsed')
<1>1. ChipPins(c) = ChipPins(chips[p]) /\ c.initialized = chips[p].initialized
  BY ChipPinsOf DEF SameButDone
<1>2. \A q \in SpiPeriphs : chips'[q] = IF q = p THEN c ELSE chips[q]
  BY DEF SpiInv, SpiTyped
<1>3. ChipUsed \subseteq ChipUsed'
  BY <1>1, <1>2 DEF ChipUsed, Chips
<1> QED BY <1>3, PinsTaken

LEMMA DacSetPins ==
    ASSUME SpiInv, GpioTypeOK, NEW idx \in LiveDac, NEW v, dac_sensor_set_output(idx, v)
    PROVE  PinsStep(ChipUsed, ChipUsed')
<1>1. CASE \E err : DacReject(err)
  <2>1. UNCHANGED gpio /\ chips' = chips
    BY <1>1 DEF DacReject, backendVars, dacVars
  <2> QED BY <2>1, PinsKept DEF ChipUsed, Chips
<1>2. CASE dac_values_err(idx, v) = "ERR_SUCCESS"
  <2>1. PICK p \in SpiPeriphs : p = dac[idx].periph
    BY DEF LiveDac, SpiInv, DacPlaced, DacRec
  <2>2. PICK w \in chip_write(spi[p], chips[p], gpio) : chips' = [chips EXCEPT ![p] = w.c] /\ gpio' = w.g
    BY <1>2, <2>1 DEF dac_sensor_set_output
  <2>3. spi[p] \in SpiRec /\ chips[p] \in ChipRec /\ gpio \in PinFile
    BY PinsTyped DEF SpiInv, SpiTyped
  <2>4. SameButDone(chips[p], w.c) /\ w.g \in PinFile /\ OnlyAt(gpio, w.g, {})
    BY <2>2, <2>3, ChipWrite, ChipWritePins
  <2> QED BY <2>2, <2>4, ChipTouchedPins
<1> QED BY <1>1, <1>2 DEF dac_sensor_set_output

LEMMA DacStopPins ==
    ASSUME SpiInv, GpioTypeOK, NEW idx \in LiveDac, dac_sensor_stop(idx)
    PROVE  PinsStep(ChipUsed, ChipUsed')
<1>1. idx \in DacIndex /\ dac[idx].in_use /\ dac[idx] \in DacRec
  BY DEF LiveDac, SpiInv, DacPlaced
<1>2. PICK p \in SpiPeriphs, ch \in DacChannels : p = dac[idx].periph /\ ch = dac[idx].channel
  BY <1>1 DEF DacRec
<1>3. idx = dac_slot_for(p, ch)
  BY <1>1, <1>2 DEF SpiInv, DacPlaced
<1>4. chips[p].initialized /\ chips[p] \in ChipRec
  BY <1>1, <1>3 DEF SpiInv, SpiTyped, PortOK, ActiveChannels
<1>5. PICK x \in ChipRec : x = chips[p] /\ x.initialized
  BY <1>4
<1>6. /\ [x EXCEPT !.channels_active = @ \ {ch}] \in ChipRec
      /\ [x EXCEPT !.channels_active = @ \ {ch}].initialized
      /\ ChipPins([x EXCEPT !.channels_active = @ \ {ch}]) = ChipPins(x)
  BY <1>5, DacEntryRemoved, MaskPins
<1>7. PICK c \in ChipRec : /\ c = [x EXCEPT !.channels_active = @ \ {ch}] /\ c.initialized
                           /\ ChipPins(c) = ChipPins(x)
  BY <1>6
<1>8. DacSettle(p, spi[p], c, gpio)
  BY <1>1, <1>2, <1>5, <1>7 DEF dac_sensor_stop
<1>9. gpio \in PinFile /\ OnlyAt(gpio, gpio, ChipPins(c))
  BY PinsTyped DEF OnlyAt
<1> QED BY <1>5, <1>7, <1>8, <1>9, SettlePins

LEMMA DacLatePins ==
    ASSUME SpiInv, GpioTypeOK, NEW p \in SpiPeriphs, spi_done_callback(p)
    PROVE  PinsStep(ChipUsed, ChipUsed')
<1>1. chips[p] \in ChipRec /\ gpio \in PinFile
  BY PinsTyped DEF SpiInv, SpiTyped
<1>2. PICK c : c = [chips[p] EXCEPT !.tx_done = TRUE]
  OBVIOUS
<1>3. SameButDone(chips[p], c)
  BY <1>1, <1>2 DEF ChipRec, SameButDone
<1>4. chips' = [chips EXCEPT ![p] = c] /\ gpio' = FrameDone(gpio, chips[p])
  BY <1>2 DEF spi_done_callback
<1> QED BY <1>1, <1>3, <1>4, PinFrame, ChipTouchedPins

-----------------------------------------------------------------------------
(* The inductive invariant of the dispatcher                                *)

PinsIdle ==
    \A p \in Pins : \/ gpio[p].mode = "INPUT"
                    \/ p \in dout_pins \/ p \in pwm_pins
                    \/ p \in ChipUsed \/ p \in SlaveUsed \/ p \in I2cUsed

\* The table names the backends' sensors, every backend is in order by itself,
\* the heap counts their blocks, and a pin that no backend uses floats.
DispInv ==
    /\ TableOK /\ TableMatches
    /\ TimersOK /\ DoutInv /\ PwmInv /\ SpiInv /\ I2cInv
    /\ HeapInv /\ GpioTypeOK /\ PinsIdle

Backends == {"I2C", "DIGITAL_OUT", "PWM", "DAC", "SPI"}

\* The pins move with the sensors of backend p, the other backends keep theirs.
PinsMove(p) ==
    /\ IF p = "I2C" THEN PinsStep(I2cUsed, I2cUsed') ELSE I2cUsed' = I2cUsed
    /\ IF p = "DIGITAL_OUT" THEN PinsStep(dout_pins, dout_pins') ELSE dout_pins' = dout_pins
    /\ IF p = "PWM" THEN PinsStep(pwm_pins, pwm_pins') ELSE pwm_pins' = pwm_pins
    /\ IF p = "DAC" THEN PinsStep(ChipUsed, ChipUsed') ELSE ChipUsed' = ChipUsed
    /\ IF p = "SPI" THEN PinsStep(SlaveUsed, SlaveUsed') ELSE SlaveUsed' = SlaveUsed

LEMMA PinsFollow ==
    ASSUME PinsIdle, NEW p \in Backends, PinsMove(p)
    PROVE  GpioTypeOK' /\ PinsIdle'
<1>1. CASE p = "I2C"
  BY <1>1 DEF PinsMove, PinsStep, PinsIdle
<1>2. CASE p = "DIGITAL_OUT"
  BY <1>2 DEF PinsMove, PinsStep, PinsIdle
<1>3. CASE p = "PWM"
  BY <1>3 DEF PinsMove, PinsStep, PinsIdle
<1>4. CASE p = "DAC"
  BY <1>4 DEF PinsMove, PinsStep, PinsIdle
<1>5. CASE p = "SPI"
  BY <1>5 DEF PinsMove, PinsStep, PinsIdle
<1> QED BY <1>1, <1>2, <1>3, <1>4, <1>5 DEF Backends

\* What a step establishes piece by piece.
LEMMA DispStep ==
    ASSUME DispInv, TableOK', TableMatches', TimersOK', DoutInv', PwmInv', SpiInv', I2cInv',
           HeapMoves, NEW p \in Backends, PinsMove(p)
    PROVE  DispInv'
<1>1. HeapInv'
  BY HeapFollows DEF DispInv
<1>2. GpioTypeOK' /\ PinsIdle'
  BY PinsFollow DEF DispInv
<1> QED BY <1>1, <1>2 DEF DispInv

\* The live sets and pins of the backends a step does not call.
LEMMA BusesQuiet ==
    ASSUME SpiInv, I2cInv, UNCHANGED busVars
    PROVE  /\ SpiInv' /\ I2cInv' /\ LiveI2c' = LiveI2c /\ LiveDac' = LiveDac /\ LiveSpi' = LiveSpi
           /\ Chips' = Chips /\ I2cUsed' = I2cUsed /\ ChipUsed' = ChipUsed /\ SlaveUsed' = SlaveUsed
<1>1. UNCHANGED <<spi, dacVars, spi_slaves>> /\ UNCHANGED i2cVars
  BY DEF busVars
<1>2. SpiInv' /\ Chips' = Chips /\ LiveDac' = LiveDac /\ LiveSpi' = LiveSpi
  BY <1>1, PortsUnchanged
<1>3. I2cInv' /\ LiveI2c' = LiveI2c
  BY <1>1, I2cUnchanged
<1>4. I2cUsed' = I2cUsed /\ ChipUsed' = ChipUsed /\ SlaveUsed' = SlaveUsed
  BY <1>1, <1>2, <1>3 DEF I2cUsed, ChipUsed, SlaveUsed, dacVars, i2cVars
<1> QED BY <1>2, <1>3, <1>4

LEMMA TimersQuiet ==
    ASSUME TimersOK, DoutInv, PwmInv, UNCHANGED timerVars
    PROVE  /\ TimersOK' /\ DoutInv' /\ PwmInv'
           /\ LiveDout' = LiveDout /\ SwTimers' = SwTimers /\ LivePwm' = LivePwm
           /\ dout_pins' = dout_pins /\ pwm_pins' = pwm_pins
<1>1. dout_pins' = dout_pins /\ pwm_pins' = pwm_pins
  BY DEF timerVars, doutVars, pwmVars
<1> QED BY <1>1, TimersUnchanged

LEMMA OnlyI2c ==
    ASSUME DispInv, UNCHANGED <<timerVars, spi, dacVars, spi_slaves>>, PinsStep(I2cUsed, I2cUsed')
    PROVE  /\ TimersOK' /\ DoutInv' /\ PwmInv' /\ SpiInv' /\ OthersThan("I2C") /\ PinsMove("I2C")
           /\ SwTimers' = SwTimers /\ Chips' = Chips
<1>1. UNCHANGED timerVars /\ UNCHANGED <<spi, spi_slaves, dacVars>>
  OBVIOUS
<1>2. /\ TimersOK' /\ DoutInv' /\ PwmInv' /\ LiveDout' = LiveDout /\ SwTimers' = SwTimers
      /\ LivePwm' = LivePwm /\ dout_pins' = dout_pins /\ pwm_pins' = pwm_pins
  BY <1>1, TimersQuiet DEF DispInv
<1>3. SpiInv' /\ Chips' = Chips /\ LiveDac' = LiveDac /\ LiveSpi' = LiveSpi
  BY <1>1, PortsUnchanged DEF DispInv
<1>4. ChipUsed' = ChipUsed /\ SlaveUsed' = SlaveUsed
  BY <1>1, <1>3 DEF ChipUsed, SlaveUsed, dacVars
<1> QED BY <1>2, <1>3, <1>4 DEF OthersThan, PinsMove

LEMMA OnlyDout ==
    ASSUME DispInv, UNCHANGED <<pwmVars, busVars>>, PulseStep, PinsStep(dout_pins, dout_pins')
    PROVE  /\ PwmInv' /\ SpiInv' /\ I2cInv' /\ OthersThan("DIGITAL_OUT") /\ PinsMove("DIGITAL_OUT")
           /\ LiveI2c' = LiveI2c /\ Chips' = Chips
<1>1. /\ SpiInv' /\ I2cInv' /\ LiveI2c' = LiveI2c /\ LiveDac' = LiveDac /\ LiveSpi' = LiveSpi
      /\ Chips' = Chips /\ I2cUsed' = I2cUsed /\ ChipUsed' = ChipUsed /\ SlaveUsed' = SlaveUsed
  BY BusesQuiet DEF DispInv
<1>2. PwmInv' /\ LivePwm' = LivePwm
  BY PulseKeepsPwm DEF DispInv
<1>3. pwm_pins' = pwm_pins
  BY DEF pwmVars
<1> QED BY <1>1, <1>2, <1>3 DEF OthersThan, PinsMove

LEMMA OnlyPwm ==
    ASSUME DispInv, UNCHANGED <<doutVars, busVars>>, PwmStep, TimersOK', PinsStep(pwm_pins, pwm_pins')
    PROVE  /\ DoutInv' /\ SpiInv' /\ I2cInv' /\ OthersThan("PWM") /\ PinsMove("PWM")
           /\ LiveI2c' = LiveI2c /\ SwTimers' = SwTimers /\ Chips' = Chips
<1>1. /\ SpiInv' /\ I2cInv' /\ LiveI2c' = LiveI2c /\ LiveDac' = LiveDac /\ LiveSpi' = LiveSpi
      /\ Chips' = Chips /\ I2cUsed' = I2cUsed /\ ChipUsed' = ChipUsed /\ SlaveUsed' = SlaveUsed
  BY BusesQuiet DEF DispInv
<1>2. DoutInv' /\ LiveDout' = LiveDout /\ SwTimers' = SwTimers
  BY PwmKeepsDout, DoutUnchanged DEF DispInv
<1>3. dout_pins' = dout_pins
  BY DEF doutVars
<1> QED BY <1>1, <1>2, <1>3 DEF OthersThan, PinsMove

LEMMA OnlyDac ==
    ASSUME DispInv, UNCHANGED <<timerVars, spi_slaves, i2cVars>>, PinsStep(ChipUsed, ChipUsed')
    PROVE  /\ TimersOK' /\ DoutInv' /\ PwmInv' /\ I2cInv' /\ OthersThan("DAC") /\ PinsMove("DAC")
           /\ LiveI2c' = LiveI2c /\ SwTimers' = SwTimers
<1>1. UNCHANGED timerVars /\ UNCHANGED spi_slaves /\ UNCHANGED i2cVars
  OBVIOUS
<1>2. /\ TimersOK' /\ DoutInv' /\ PwmInv' /\ LiveDout' = LiveDout /\ SwTimers' = SwTimers
      /\ LivePwm' = LivePwm /\ dout_pins' = dout_pins /\ pwm_pins' = pwm_pins
  BY <1>1, TimersQuiet DEF DispInv
<1>3. I2cInv' /\ LiveI2c' = LiveI2c
  BY <1>1, I2cUnchanged DEF DispInv
<1>4. LiveSpi' = LiveSpi /\ SlaveUsed' = SlaveUsed /\ I2cUsed' = I2cUsed
  BY <1>1, <1>3 DEF LiveSpi, SlaveUsed, I2cUsed, i2cVars
<1> QED BY <1>2, <1>3, <1>4 DEF OthersThan, PinsMove

LEMMA OnlySlave ==
    ASSUME DispInv, UNCHANGED <<timerVars, dacVars, i2cVars>>, PinsStep(SlaveUsed, SlaveUsed'),
           Chips' = Chips, LiveDac' = LiveDac
    PROVE  /\ TimersOK' /\ DoutInv' /\ PwmInv' /\ I2cInv' /\ OthersThan("SPI") /\ PinsMove("SPI")
           /\ LiveI2c' = LiveI2c /\ SwTimers' = SwTimers
<1>1. UNCHANGED timerVars /\ UNCHANGED dacVars /\ UNCHANGED i2cVars
  OBVIOUS
<1>2. /\ TimersOK' /\ DoutInv' /\ PwmInv' /\ LiveDout' = LiveDout /\ SwTimers' = SwTimers
      /\ LivePwm' = LivePwm /\ dout_pins' = dout_pins /\ pwm_pins' = pwm_pins
  BY <1>1, TimersQuiet DEF DispInv
<1>3. I2cInv' /\ LiveI2c' = LiveI2c
  BY <1>1, I2cUnchanged DEF DispInv
<1>4. ChipUsed' = ChipUsed /\ I2cUsed' = I2cUsed
  BY <1>1, <1>3 DEF ChipUsed, I2cUsed, i2cVars, dacVars
<1> QED BY <1>2, <1>3, <1>4 DEF OthersThan, PinsMove

\* What handle_setup has to show: the invariant, and all or nothing.
SetupOutcome == (Refused /\ UNCHANGED SensorState) \/ NewId

LEMMA SetupI2cStep ==
    ASSUME DispInv, NEW cfg \in I2cCfgs, i2c_sensor_setup(cfg), UNCHANGED <<timerVars, spi, dacVars, spi_slaves>>
    PROVE  DispInv' /\ SetupOutcome
<1>1. PinsStep(I2cUsed, I2cUsed')
  BY I2cSetupPins DEF DispInv
<1>2. /\ TimersOK' /\ DoutInv' /\ PwmInv' /\ SpiInv' /\ OthersThan("I2C") /\ PinsMove("I2C")
      /\ SwTimers' = SwTimers /\ Chips' = Chips
  BY <1>1, OnlyI2c
<1>3. /\ I2cInv'
      /\ \/ Refused /\ UNCHANGED i2cVars
         \/ \E n \in I2cIndex \ LiveI2c :
               Accepted("I2C", n) /\ LiveI2c' = LiveI2c \cup {n} /\ heap' = heap + 1
  BY I2cSetup DEF DispInv
<1>4. "I2C" \in Backends
  BY DEF Backends
<1>5. CASE Refused /\ UNCHANGED i2cVars
  <2>1. LiveI2c' = LiveI2c /\ heap' = heap /\ UNCHANGED managerVars
    BY <1>5, I2cUnchanged DEF DispInv, Refused
  <2>2. TableOK' /\ TableMatches'
    BY <1>2, <2>1, TableKept DEF DispInv, OthersThan
  <2>3. HeapMoves
    BY <1>2, <2>1 DEF HeapMoves, Counted
  <2>4. UNCHANGED SensorState
    BY <1>5, <2>1 DEF SensorState, timerVars, doutVars, pwmVars, dacVars, i2cVars
  <2> QED BY <1>2, <1>3, <1>4, <1>5, <2>2, <2>3, <2>4, DispStep DEF SetupOutcome
<1>6. ASSUME NEW n \in I2cIndex \ LiveI2c, Accepted("I2C", n), LiveI2c' = LiveI2c \cup {n}, heap' = heap + 1
      PROVE  DispInv' /\ NewId
  <2>1. Grew("I2C", n)
    BY <1>2, <1>6 DEF Grew
  <2>2. TableOK' /\ TableMatches' /\ NewId
    BY <1>6, <2>1, TableGrows DEF DispInv
  <2>3. HeapMoves
    BY <1>2, <1>6 DEF HeapMoves, Counted
  <2> QED BY <1>2, <1>3, <1>4, <2>2, <2>3, DispStep
<1> QED BY <1>3, <1>5, <1>6 DEF SetupOutcome

LEMMA SetupDoutStep ==
    ASSUME DispInv, NEW cfg \in DoutCfgs, digital_out_sensor_setup(cfg), UNCHANGED <<pwmVars, busVars>>
    PROVE  DispInv' /\ SetupOutcome
<1>1. PinsStep(dout_pins, dout_pins')
  BY DoutSetupPins DEF DispInv
<1>2. /\ DoutInv' /\ TimersOK' /\ PulseStep
      /\ \/ Refused /\ UNCHANGED doutVars
         \/ \E n \in DoutIndex \ LiveDout :
               /\ Accepted("DIGITAL_OUT", n) /\ LiveDout' = LiveDout \cup {n}
               /\ heap' = heap /\ SwTimers' = SwTimers
  BY DoutSetup DEF DispInv
<1>3. /\ PwmInv' /\ SpiInv' /\ I2cInv' /\ OthersThan("DIGITAL_OUT") /\ PinsMove("DIGITAL_OUT")
      /\ LiveI2c' = LiveI2c /\ Chips' = Chips
  BY <1>1, <1>2, OnlyDout
<1>4. "DIGITAL_OUT" \in Backends
  BY DEF Backends
<1>5. CASE Refused /\ UNCHANGED doutVars
  <2>1. LiveDout' = LiveDout /\ SwTimers' = SwTimers /\ heap' = heap /\ UNCHANGED managerVars
    BY <1>5, DoutUnchanged DEF Refused
  <2>2. TableOK' /\ TableMatches'
    BY <1>3, <2>1, TableKept DEF DispInv, OthersThan
  <2>3. HeapMoves
    BY <1>3, <2>1 DEF HeapMoves, Counted
  <2>4. UNCHANGED SensorState
    BY <1>5, <2>1 DEF SensorState, doutVars, pwmVars, busVars, dacVars, i2cVars
  <2> QED BY <1>2, <1>3, <1>4, <1>5, <2>2, <2>3, <2>4, DispStep DEF SetupOutcome
<1>6. ASSUME NEW n \in DoutIndex \ LiveDout, Accepted("DIGITAL_OUT", n), LiveDout' = LiveDout \cup {n},
             heap' = heap, SwTimers' = SwTimers
      PROVE  DispInv' /\ NewId
  <2>1. Grew("DIGITAL_OUT", n)
    BY <1>3, <1>6 DEF Grew
  <2>2. TableOK' /\ TableMatches' /\ NewId
    BY <1>6, <2>1, TableGrows DEF DispInv
  <2>3. HeapMoves
    BY <1>3, <1>6 DEF HeapMoves, Counted
  <2> QED BY <1>2, <1>3, <1>4, <2>2, <2>3, DispStep
<1> QED BY <1>2, <1>5, <1>6 DEF SetupOutcome

LEMMA SetupPwmStep ==
    ASSUME DispInv, NEW cfg \in PwmCfgs, pwm_sensor_setup(cfg), UNCHANGED <<doutVars, busVars>>
    PROVE  DispInv' /\ SetupOutcome
<1>1. PinsStep(pwm_pins, pwm_pins')
  BY PwmSetupPins DEF DispInv
<1>2. /\ PwmInv' /\ TimersOK' /\ PwmStep
      /\ \/ Refused /\ UNCHANGED pwmVars
         \/ \E n \in PwmIndex \ LivePwm :
               Accepted("PWM", n) /\ LivePwm' = LivePwm \cup {n} /\ heap' = heap
  BY PwmSetup DEF DispInv, DoutInv
<1>3. /\ DoutInv' /\ SpiInv' /\ I2cInv' /\ OthersThan("PWM") /\ PinsMove("PWM")
      /\ LiveI2c' = LiveI2c /\ SwTimers' = SwTimers /\ Chips' = Chips
  BY <1>1, <1>2, OnlyPwm
<1>4. "PWM" \in Backends
  BY DEF Backends
<1>5. CASE Refused /\ UNCHANGED pwmVars
  <2>1. LivePwm' = LivePwm /\ heap' = heap /\ UNCHANGED managerVars
    BY <1>5 DEF Refused, LivePwm, pwmVars
  <2>2. TableOK' /\ TableMatches'
    BY <1>3, <2>1, TableKept DEF DispInv, OthersThan
  <2>3. HeapMoves
    BY <1>3, <2>1 DEF HeapMoves, Counted
  <2>4. UNCHANGED SensorState
    BY <1>5, <2>1 DEF SensorState, doutVars, pwmVars, busVars, dacVars, i2cVars
  <2> QED BY <1>2, <1>3, <1>4, <1>5, <2>2, <2>3, <2>4, DispStep DEF SetupOutcome
<1>6. ASSUME NEW n \in PwmIndex \ LivePwm, Accepted("PWM", n), LivePwm' = LivePwm \cup {n}, heap' = heap
      PROVE  DispInv' /\ NewId
  <2>1. Grew("PWM", n)
    BY <1>3, <1>6 DEF Grew
  <2>2. TableOK' /\ TableMatches' /\ NewId
    BY <1>6, <2>1, TableGrows DEF DispInv
  <2>3. HeapMoves
    BY <1>3, <1>6 DEF HeapMoves, Counted
  <2> QED BY <1>2, <1>3, <1>4, <2>2, <2>3, DispStep
<1> QED BY <1>2, <1>5, <1>6 DEF SetupOutcome

\* The heap follows the chips.
LEMMA ChipsMove ==
    ASSUME ChipsBalanced, LiveI2c' = LiveI2c, SwTimers' = SwTimers
    PROVE  HeapMoves
BY DEF ChipsBalanced, HeapMoves, Counted

LEMMA SetupDacStep ==
    ASSUME DispInv, NEW cfg \in DacCfgs, dac_sensor_setup(cfg), UNCHANGED <<timerVars, spi_slaves, i2cVars>>
    PROVE  DispInv' /\ SetupOutcome
<1>1. PinsStep(ChipUsed, ChipUsed')
  BY DacSetupPins DEF DispInv
<1>2. /\ TimersOK' /\ DoutInv' /\ PwmInv' /\ I2cInv' /\ OthersThan("DAC") /\ PinsMove("DAC")
      /\ LiveI2c' = LiveI2c /\ SwTimers' = SwTimers
  BY <1>1, OnlyDac
<1>3. DacSetupDone
  BY HeapNat, DacSetup DEF DispInv
<1>4. SpiInv' /\ HeapMoves /\ "DAC" \in Backends
  BY <1>2, <1>3, ChipsMove DEF DacSetupDone, Backends
<1>5. CASE Refused /\ UNCHANGED dac
  <2>1. LiveDac' = LiveDac /\ heap' = heap /\ UNCHANGED managerVars
    BY <1>5 DEF Refused, LiveDac
  <2>2. TableOK' /\ TableMatches'
    BY <1>2, <2>1, TableKept DEF DispInv, OthersThan
  <2>3. UNCHANGED SensorState
    BY <1>5, <2>1 DEF SensorState, timerVars, doutVars, pwmVars, i2cVars
  <2> QED BY <1>2, <1>4, <1>5, <2>2, <2>3, DispStep DEF SetupOutcome
<1>6. ASSUME NEW n \in DacIndex \ LiveDac, Accepted("DAC", n), LiveDac' = LiveDac \cup {n}
      PROVE  DispInv' /\ NewId
  <2>1. Grew("DAC", n)
    BY <1>2, <1>6 DEF Grew
  <2>2. TableOK' /\ TableMatches' /\ NewId
    BY <1>6, <2>1, TableGrows DEF DispInv
  <2> QED BY <1>2, <1>4, <2>2, DispStep
<1> QED BY <1>3, <1>5, <1>6 DEF SetupOutcome, DacSetupDone

LEMMA SetupSpiStep ==
    ASSUME DispInv, NEW cfg \in SpiSlaveCfgs, spi_slave_sensor_setup(cfg), UNCHANGED <<timerVars, dacVars, i2cVars>>
    PROVE  DispInv' /\ SetupOutcome
<1>1. PinsStep(SlaveUsed, SlaveUsed')
  BY SlaveSetupPins DEF DispInv
<1>2. /\ SpiInv' /\ Chips' = Chips /\ LiveDac' = LiveDac
      /\ \/ Refused /\ UNCHANGED spi_slaves
         \/ \E n \in SpiPeriphs \ LiveSpi :
               Accepted("SPI", n) /\ LiveSpi' = LiveSpi \cup {n} /\ heap' = heap
  BY SlaveSetup DEF DispInv
<1>3. /\ TimersOK' /\ DoutInv' /\ PwmInv' /\ I2cInv' /\ OthersThan("SPI") /\ PinsMove("SPI")
      /\ LiveI2c' = LiveI2c /\ SwTimers' = SwTimers
  BY <1>1, <1>2, OnlySlave
<1>4. "SPI" \in Backends
  BY DEF Backends
<1>5. CASE Refused /\ UNCHANGED spi_slaves
  <2>1. LiveSpi' = LiveSpi /\ heap' = heap /\ UNCHANGED managerVars
    BY <1>5 DEF Refused, LiveSpi
  <2>2. TableOK' /\ TableMatches'
    BY <1>3, <2>1, TableKept DEF DispInv, OthersThan
  <2>3. HeapMoves
    BY <1>2, <1>3, <2>1 DEF HeapMoves, Counted
  <2>4. UNCHANGED SensorState
    BY <1>5, <2>1 DEF SensorState, timerVars, doutVars, pwmVars, dacVars, i2cVars
  <2> QED BY <1>2, <1>3, <1>4, <1>5, <2>2, <2>3, <2>4, DispStep DEF SetupOutcome
<1>6. ASSUME NEW n \in SpiPeriphs \ LiveSpi, Accepted("SPI", n), LiveSpi' = LiveSpi \cup {n}, heap' = heap
      PROVE  DispInv' /\ NewId
  <2>1. Grew("SPI", n)
    BY <1>3, <1>6 DEF Grew
  <2>2. TableOK' /\ TableMatches' /\ NewId
    BY <1>6, <2>1, TableGrows DEF DispInv
  <2>3. HeapMoves
    BY <1>2, <1>3, <1>6 DEF HeapMoves, Counted
  <2> QED BY <1>2, <1>3, <1>4, <2>2, <2>3, DispStep
<1> QED BY <1>2, <1>5, <1>6 DEF SetupOutcome

\* The sensor a routed command acts on is live in its backend.
LEMMA RoutedLive ==
    ASSUME DispInv, NEW id, NEW p, Routed(id, p)
    PROVE  /\ p = "I2C" => SlotOf(id).internal_id \in LiveI2c
           /\ p = "DIGITAL_OUT" => SlotOf(id).internal_id \in LiveDout
           /\ p = "PWM" => SlotOf(id).internal_id \in LivePwm
           /\ p = "DAC" => SlotOf(id).internal_id \in LiveDac
           /\ p = "SPI" => SlotOf(id).internal_id \in LiveSpi
<1>1. <<p, SlotOf(id).internal_id>> \in BackendSensors
  BY RoutedIsLive DEF DispInv
<1> QED BY <1>1, BackendHas

LEMMA SetI2cStep ==
    ASSUME DispInv, NEW id, NEW v \in I2cValues, SetOutputI2c(id, v)
    PROVE  DispInv'
<1>1. PICK idx \in LiveI2c : idx = SlotOf(id).internal_id
  BY RoutedLive DEF SetOutputI2c
<1>2. idx \in I2cIndex /\ i2c_sensor_set_output(idx, v) /\ UNCHANGED <<timerVars, spi, dacVars, spi_slaves>>
  BY <1>1 DEF SetOutputI2c, LiveI2c
<1>3. I2cInv' /\ LiveI2c' = LiveI2c /\ UNCHANGED <<managerVars, heap>>
  BY <1>2, I2cSet DEF DispInv, backendVars
<1>4. PinsStep(I2cUsed, I2cUsed')
  BY <1>2, I2cSetPins DEF DispInv
<1>5. /\ TimersOK' /\ DoutInv' /\ PwmInv' /\ SpiInv' /\ OthersThan("I2C") /\ PinsMove("I2C")
      /\ SwTimers' = SwTimers /\ Chips' = Chips
  BY <1>2, <1>4, OnlyI2c
<1>6. TableOK' /\ TableMatches'
  BY <1>3, <1>5, TableKept DEF DispInv, OthersThan
<1>7. HeapMoves /\ "I2C" \in Backends
  BY <1>3, <1>5 DEF HeapMoves, Counted, Backends
<1> QED BY <1>3, <1>5, <1>6, <1>7, DispStep

LEMMA SwMoves ==
    ASSUME SwBalanced, LiveI2c' = LiveI2c, Chips' = Chips
    PROVE  HeapMoves
BY DEF SwBalanced, HeapMoves, Counted

LEMMA SetDoutStep ==
    ASSUME DispInv, NEW id, NEW v \in DoutValues, SetOutputDigitalOut(id, v)
    PROVE  DispInv'
<1>1. PICK idx \in LiveDout : idx = SlotOf(id).internal_id
  BY RoutedLive DEF SetOutputDigitalOut
<1>2. digital_out_sensor_set_output(idx, v) /\ UNCHANGED <<pwmVars, busVars>>
  BY <1>1 DEF SetOutputDigitalOut
<1>3. DoutInv' /\ TimersOK' /\ PulseStep /\ SwBalanced /\ LiveDout' = LiveDout /\ UNCHANGED managerVars
  BY <1>2, DoutSet DEF DispInv
<1>4. PinsStep(dout_pins, dout_pins')
  BY <1>2, DoutSetPins DEF DispInv
<1>5. /\ PwmInv' /\ SpiInv' /\ I2cInv' /\ OthersThan("DIGITAL_OUT") /\ PinsMove("DIGITAL_OUT")
      /\ LiveI2c' = LiveI2c /\ Chips' = Chips
  BY <1>2, <1>3, <1>4, OnlyDout
<1>6. TableOK' /\ TableMatches'
  BY <1>3, <1>5, TableKept DEF DispInv, OthersThan
<1>7. HeapMoves /\ "DIGITAL_OUT" \in Backends
  BY <1>3, <1>5, SwMoves DEF Backends
<1> QED BY <1>3, <1>5, <1>6, <1>7, DispStep

LEMMA SetPwmStep ==
    ASSUME DispInv, NEW id, NEW v \in PwmValues, SetOutputPwm(id, v)
    PROVE  DispInv'
<1>1. PICK idx \in LivePwm : idx = SlotOf(id).internal_id
  BY RoutedLive DEF SetOutputPwm
<1>2. pwm_sensor_set_output(idx, v) /\ UNCHANGED <<doutVars, busVars>>
  BY <1>1 DEF SetOutputPwm
<1>3. PwmInv' /\ LivePwm' = LivePwm /\ UNCHANGED <<managerVars, heap, timers>>
  BY <1>2, PwmSet DEF DispInv
<1>4. TimersOK' /\ PwmStep
  BY <1>3 DEF DispInv, TimersOK, arr_max, PwmStep
<1>5. PinsStep(pwm_pins, pwm_pins')
  BY <1>2, PwmSetPins DEF DispInv
<1>6. /\ DoutInv' /\ SpiInv' /\ I2cInv' /\ OthersThan("PWM") /\ PinsMove("PWM")
      /\ LiveI2c' = LiveI2c /\ SwTimers' = SwTimers /\ Chips' = Chips
  BY <1>2, <1>4, <1>5, OnlyPwm
<1>7. TableOK' /\ TableMatches'
  BY <1>3, <1>6, TableKept DEF DispInv, OthersThan
<1>8. HeapMoves /\ "PWM" \in Backends
  BY <1>3, <1>6 DEF HeapMoves, Counted, Backends
<1> QED BY <1>3, <1>4, <1>6, <1>7, <1>8, DispStep

LEMMA SetDacStep ==
    ASSUME DispInv, NEW id, NEW v \in DacValues, SetOutputDac(id, v)
    PROVE  DispInv'
<1>1. PICK idx \in LiveDac : idx = SlotOf(id).internal_id
  BY RoutedLive DEF SetOutputDac
<1>2. dac_sensor_set_output(idx, v) /\ UNCHANGED <<timerVars, spi_slaves, i2cVars>>
  BY <1>1 DEF SetOutputDac
<1>3. SpiInv' /\ Chips' = Chips /\ LiveDac' = LiveDac /\ UNCHANGED <<managerVars, heap>>
  BY <1>2, DacSet DEF DispInv
<1>4. PinsStep(ChipUsed, ChipUsed')
  BY <1>2, DacSetPins DEF DispInv
<1>5. /\ TimersOK' /\ DoutInv' /\ PwmInv' /\ I2cInv' /\ OthersThan("DAC") /\ PinsMove("DAC")
      /\ LiveI2c' = LiveI2c /\ SwTimers' = SwTimers
  BY <1>2, <1>4, OnlyDac
<1>6. TableOK' /\ TableMatches'
  BY <1>3, <1>5, TableKept DEF DispInv, OthersThan
<1>7. HeapMoves /\ "DAC" \in Backends
  BY <1>3, <1>5 DEF HeapMoves, Counted, Backends
<1> QED BY <1>3, <1>5, <1>6, <1>7, DispStep

LEMMA SetSpiStep ==
    ASSUME DispInv, NEW id, NEW v \in SpiSlaveValues, SetOutputSpi(id, v)
    PROVE  DispInv'
<1>1. PICK idx \in LiveSpi : idx = SlotOf(id).internal_id
  BY RoutedLive DEF SetOutputSpi
<1>2. spi_slave_sensor_set_output(idx, v) /\ UNCHANGED <<timerVars, dacVars, i2cVars>>
  BY <1>1 DEF SetOutputSpi
<1>3. /\ SpiInv' /\ Chips' = Chips /\ LiveDac' = LiveDac /\ LiveSpi' = LiveSpi
      /\ UNCHANGED <<managerVars, heap>>
  BY <1>2, SlaveSet DEF DispInv
<1>4. PinsStep(SlaveUsed, SlaveUsed')
  BY <1>2, SlaveSetPins DEF DispInv
<1>5. /\ TimersOK' /\ DoutInv' /\ PwmInv' /\ I2cInv' /\ OthersThan("SPI") /\ PinsMove("SPI")
      /\ LiveI2c' = LiveI2c /\ SwTimers' = SwTimers
  BY <1>2, <1>3, <1>4, OnlySlave
<1>6. TableOK' /\ TableMatches'
  BY <1>3, <1>5, TableKept DEF DispInv, OthersThan
<1>7. HeapMoves /\ "SPI" \in Backends
  BY <1>3, <1>5 DEF HeapMoves, Counted, Backends
<1> QED BY <1>3, <1>5, <1>6, <1>7, DispStep

LEMMA StopI2cStep ==
    ASSUME DispInv, NEW id, StopI2c(id), ReleaseIfStopped(id)
    PROVE  DispInv'
<1>1. PICK idx \in LiveI2c : idx = SlotOf(id).internal_id
  BY RoutedLive DEF StopI2c
<1>2. Routed(id, "I2C") /\ i2c_sensor_stop(idx) /\ UNCHANGED <<timerVars, spi, dacVars, spi_slaves>>
  BY <1>1 DEF StopI2c
<1>3. I2cInv' /\ LiveI2c' = LiveI2c \ {idx} /\ heap' = heap - 1 /\ ret'.err = "ERR_SUCCESS"
  BY <1>2, I2cStop DEF DispInv
<1>4. PinsStep(I2cUsed, I2cUsed')
  BY <1>2, I2cStopPins DEF DispInv
<1>5. /\ TimersOK' /\ DoutInv' /\ PwmInv' /\ SpiInv' /\ OthersThan("I2C") /\ PinsMove("I2C")
      /\ SwTimers' = SwTimers /\ Chips' = Chips
  BY <1>2, <1>4, OnlyI2c
<1>6. Shrank("I2C", SlotOf(id).internal_id)
  BY <1>1, <1>3, <1>5 DEF Shrank
<1>7. TableOK' /\ TableMatches'
  BY <1>2, <1>3, <1>6, TableShrinks DEF DispInv
<1>8. HeapMoves /\ "I2C" \in Backends
  BY <1>3, <1>5 DEF HeapMoves, Counted, Backends
<1> QED BY <1>3, <1>5, <1>7, <1>8, DispStep

LEMMA StopDoutStep ==
    ASSUME DispInv, NEW id, StopDigitalOut(id), ReleaseIfStopped(id)
    PROVE  DispInv'
<1>1. PICK idx \in LiveDout : idx = SlotOf(id).internal_id
  BY RoutedLive DEF StopDigitalOut
<1>2. Routed(id, "DIGITAL_OUT") /\ digital_out_sensor_stop(idx) /\ UNCHANGED <<pwmVars, busVars>>
  BY <1>1 DEF StopDigitalOut
<1>3. /\ DoutInv' /\ TimersOK' /\ PulseStep /\ SwBalanced
      /\ LiveDout' = LiveDout \ {idx} /\ ret'.err = "ERR_SUCCESS"
  BY <1>2, DoutStop DEF DispInv
<1>4. PinsStep(dout_pins, dout_pins')
  BY <1>2, DoutStopPins DEF DispInv
<1>5. /\ PwmInv' /\ SpiInv' /\ I2cInv' /\ OthersThan("DIGITAL_OUT") /\ PinsMove("DIGITAL_OUT")
      /\ LiveI2c' = LiveI2c /\ Chips' = Chips
  BY <1>2, <1>3, <1>4, OnlyDout
<1>6. Shrank("DIGITAL_OUT", SlotOf(id).internal_id)
  BY <1>1, <1>3, <1>5 DEF Shrank
<1>7. TableOK' /\ TableMatches'
  BY <1>2, <1>3, <1>6, TableShrinks DEF DispInv
<1>8. HeapMoves /\ "DIGITAL_OUT" \in Backends
  BY <1>3, <1>5, SwMoves DEF Backends
<1> QED BY <1>3, <1>5, <1>7, <1>8, DispStep

LEMMA StopPwmStep ==
    ASSUME DispInv, NEW id, StopPwm(id), ReleaseIfStopped(id)
    PROVE  DispInv'
<1>1. PICK idx \in LivePwm : idx = SlotOf(id).internal_id
  BY RoutedLive DEF StopPwm
<1>2. Routed(id, "PWM") /\ pwm_sensor_stop(idx) /\ UNCHANGED <<doutVars, busVars>>
  BY <1>1 DEF StopPwm
<1>3. /\ PwmInv' /\ TimersOK' /\ PwmStep /\ LivePwm' = LivePwm \ {idx}
      /\ heap' = heap /\ ret'.err = "ERR_SUCCESS"
  BY <1>2, PwmStop DEF DispInv, DoutInv
<1>4. PinsStep(pwm_pins, pwm_pins')
  BY <1>2, PwmStopPins DEF DispInv
<1>5. /\ DoutInv' /\ SpiInv' /\ I2cInv' /\ OthersThan("PWM") /\ PinsMove("PWM")
      /\ LiveI2c' = LiveI2c /\ SwTimers' = SwTimers /\ Chips' = Chips
  BY <1>2, <1>3, <1>4, OnlyPwm
<1>6. Shrank("PWM", SlotOf(id).internal_id)
  BY <1>1, <1>3, <1>5 DEF Shrank
<1>7. TableOK' /\ TableMatches'
  BY <1>2, <1>3, <1>6, TableShrinks DEF DispInv
<1>8. HeapMoves /\ "PWM" \in Backends
  BY <1>3, <1>5 DEF HeapMoves, Counted, Backends
<1> QED BY <1>3, <1>5, <1>7, <1>8, DispStep

LEMMA StopDacStep ==
    ASSUME DispInv, NEW id, StopDac(id), ReleaseIfStopped(id)
    PROVE  DispInv'
<1>1. PICK idx \in LiveDac : idx = SlotOf(id).internal_id
  BY RoutedLive DEF StopDac
<1>2. Routed(id, "DAC") /\ dac_sensor_stop(idx) /\ UNCHANGED <<timerVars, spi_slaves, i2cVars>>
  BY <1>1 DEF StopDac
<1>3. SpiInv' /\ LiveDac' = LiveDac \ {idx} /\ ChipsBalanced /\ ret'.err = "ERR_SUCCESS"
  BY <1>2, HeapNat, DacStop DEF DispInv
<1>4. PinsStep(ChipUsed, ChipUsed')
  BY <1>2, DacStopPins DEF DispInv
<1>5. /\ TimersOK' /\ DoutInv' /\ PwmInv' /\ I2cInv' /\ OthersThan("DAC") /\ PinsMove("DAC")
      /\ LiveI2c' = LiveI2c /\ SwTimers' = SwTimers
  BY <1>2, <1>4, OnlyDac
<1>6. Shrank("DAC", SlotOf(id).internal_id)
  BY <1>1, <1>3, <1>5 DEF Shrank
<1>7. TableOK' /\ TableMatches'
  BY <1>2, <1>3, <1>6, TableShrinks DEF DispInv
<1>8. HeapMoves /\ "DAC" \in Backends
  BY <1>3, <1>5, ChipsMove DEF Backends
<1> QED BY <1>3, <1>5, <1>7, <1>8, DispStep

LEMMA StopSpiStep ==
    ASSUME DispInv, NEW id, StopSpi(id), ReleaseIfStopped(id)
    PROVE  DispInv'
<1>1. PICK idx \in LiveSpi : idx = SlotOf(id).internal_id
  BY RoutedLive DEF StopSpi
<1>2. Routed(id, "SPI") /\ spi_slave_sensor_stop(idx) /\ UNCHANGED <<timerVars, dacVars, i2cVars>>
  BY <1>1 DEF StopSpi
<1>3. /\ SpiInv' /\ Chips' = Chips /\ LiveDac' = LiveDac /\ LiveSpi' = LiveSpi \ {idx}
      /\ heap' = heap /\ ret'.err = "ERR_SUCCESS"
  BY <1>2, SlaveStop DEF DispInv
<1>4. PinsStep(SlaveUsed, SlaveUsed')
  BY <1>2, SlaveStopPins DEF DispInv
<1>5. /\ TimersOK' /\ DoutInv' /\ PwmInv' /\ I2cInv' /\ OthersThan("SPI") /\ PinsMove("SPI")
      /\ LiveI2c' = LiveI2c /\ SwTimers' = SwTimers
  BY <1>2, <1>3, <1>4, OnlySlave
<1>6. Shrank("SPI", SlotOf(id).internal_id)
  BY <1>1, <1>3, <1>5 DEF Shrank
<1>7. TableOK' /\ TableMatches'
  BY <1>2, <1>3, <1>6, TableShrinks DEF DispInv
<1>8. HeapMoves /\ "SPI" \in Backends
  BY <1>3, <1>5 DEF HeapMoves, Counted, Backends
<1> QED BY <1>3, <1>5, <1>7, <1>8, DispStep

\* The interrupts and timer callbacks.
LEMMA SwExpiresStep ==
    ASSUME DispInv, NEW idx \in DoutIndex, sw_timer_callback(idx), UNCHANGED <<pwmVars, busVars>>
    PROVE  DispInv'
<1>1. /\ DoutInv' /\ TimersOK' /\ PulseStep /\ SwTimers' = SwTimers
      /\ LiveDout' = LiveDout /\ UNCHANGED <<managerVars, heap>>
  BY DoutSwExpires DEF DispInv
<1>2. PinsStep(dout_pins, dout_pins')
  BY RevertPins DEF sw_timer_callback, DispInv
<1>3. /\ PwmInv' /\ SpiInv' /\ I2cInv' /\ OthersThan("DIGITAL_OUT") /\ PinsMove("DIGITAL_OUT")
      /\ LiveI2c' = LiveI2c /\ Chips' = Chips
  BY <1>1, <1>2, OnlyDout
<1>4. TableOK' /\ TableMatches'
  BY <1>1, <1>3, TableKept DEF DispInv, OthersThan
<1>5. HeapMoves /\ "DIGITAL_OUT" \in Backends
  BY <1>1, <1>3 DEF HeapMoves, Counted, Backends
<1> QED BY <1>1, <1>3, <1>4, <1>5, DispStep

LEMMA HwExpiresStep ==
    ASSUME DispInv, NEW t \in Timers, handle_pulse_isr(t), UNCHANGED <<pwmVars, busVars>>
    PROVE  DispInv'
<1>1. /\ DoutInv' /\ TimersOK' /\ PulseStep /\ SwTimers' = SwTimers
      /\ LiveDout' = LiveDout /\ UNCHANGED <<managerVars, heap>>
  BY DoutHwExpires DEF DispInv
<1>2. PinsStep(dout_pins, dout_pins')
  <2>1. PICK idx \in DoutIndex : idx = timers[t].token
    BY DEF DispInv, TimersOK, TimerRec
  <2> QED BY <2>1, RevertPins DEF handle_pulse_isr, doutVars, DispInv
<1>3. /\ PwmInv' /\ SpiInv' /\ I2cInv' /\ OthersThan("DIGITAL_OUT") /\ PinsMove("DIGITAL_OUT")
      /\ LiveI2c' = LiveI2c /\ Chips' = Chips
  BY <1>1, <1>2, OnlyDout
<1>4. TableOK' /\ TableMatches'
  BY <1>1, <1>3, TableKept DEF DispInv, OthersThan
<1>5. HeapMoves /\ "DIGITAL_OUT" \in Backends
  BY <1>1, <1>3 DEF HeapMoves, Counted, Backends
<1> QED BY <1>1, <1>3, <1>4, <1>5, DispStep

LEMMA LateStep ==
    ASSUME DispInv, NEW p \in SpiPeriphs, spi_done_callback(p), UNCHANGED <<timerVars, spi_slaves, i2cVars>>
    PROVE  DispInv'
<1>1. SpiInv' /\ Chips' = Chips /\ LiveDac' = LiveDac /\ UNCHANGED <<managerVars, heap>>
  BY DacLate DEF DispInv
<1>2. PinsStep(ChipUsed, ChipUsed')
  BY DacLatePins DEF DispInv
<1>3. /\ TimersOK' /\ DoutInv' /\ PwmInv' /\ I2cInv' /\ OthersThan("DAC") /\ PinsMove("DAC")
      /\ LiveI2c' = LiveI2c /\ SwTimers' = SwTimers
  BY <1>2, OnlyDac
<1>4. TableOK' /\ TableMatches'
  BY <1>1, <1>3, TableKept DEF DispInv, OthersThan
<1>5. HeapMoves /\ "DAC" \in Backends
  BY <1>1, <1>3 DEF HeapMoves, Counted, Backends
<1> QED BY <1>1, <1>3, <1>4, <1>5, DispStep

\* Everything but the answer is left alone.
LEMMA QuietStep ==
    ASSUME DispInv, UNCHANGED <<backendVars, timerVars, busVars>>
    PROVE  DispInv'
<1>1. UNCHANGED managerVars /\ UNCHANGED gpio /\ heap' = heap /\ UNCHANGED timerVars /\ UNCHANGED busVars
  BY DEF backendVars
<1>2. /\ TimersOK' /\ DoutInv' /\ PwmInv' /\ LiveDout' = LiveDout /\ SwTimers' = SwTimers
      /\ LivePwm' = LivePwm /\ dout_pins' = dout_pins /\ pwm_pins' = pwm_pins
  BY <1>1, TimersQuiet DEF DispInv
<1>3. /\ SpiInv' /\ I2cInv' /\ LiveI2c' = LiveI2c /\ LiveDac' = LiveDac /\ LiveSpi' = LiveSpi
      /\ Chips' = Chips /\ I2cUsed' = I2cUsed /\ ChipUsed' = ChipUsed /\ SlaveUsed' = SlaveUsed
  BY <1>1, BusesQuiet DEF DispInv
<1>4. PinsStep(I2cUsed, I2cUsed')
  BY <1>1, <1>3, PinsKept DEF DispInv
<1>5. PinsMove("I2C") /\ "I2C" \in Backends /\ OthersThan("none") /\ HeapMoves
  BY <1>1, <1>2, <1>3, <1>4 DEF PinsMove, Backends, OthersThan, HeapMoves, Counted
<1>6. TableOK' /\ TableMatches'
  BY <1>1, <1>5, TableKept DEF DispInv
<1> QED BY <1>2, <1>3, <1>5, <1>6, DispStep

\* A setup command, from its backend call to its answer.
LEMMA SetupStep ==
    ASSUME DispInv, handle_setup
    PROVE  DispInv' /\ SetupOutcome /\ SetupAck
<1>1. CASE \E cfg \in I2cCfgs : SetupI2c(cfg)
  BY <1>1, SetupI2cStep DEF SetupI2c
<1>2. CASE \E cfg \in DoutCfgs : SetupDigitalOut(cfg)
  BY <1>2, SetupDoutStep DEF SetupDigitalOut
<1>3. CASE \E cfg \in PwmCfgs : SetupPwm(cfg)
  BY <1>3, SetupPwmStep DEF SetupPwm
<1>4. CASE \E cfg \in DacCfgs : SetupDac(cfg)
  BY <1>4, SetupDacStep DEF SetupDac
<1>5. CASE \E cfg \in SpiSlaveCfgs : SetupSpi(cfg)
  BY <1>5, SetupSpiStep DEF SetupSpi
<1> QED BY <1>1, <1>2, <1>3, <1>4, <1>5 DEF handle_setup

LEMMA SetOutputStep ==
    ASSUME DispInv, handle_set_output
    PROVE  DispInv'
<1>1. PICK id \in MaybeId :
        \/ UnknownSensor("SET_OUTPUT", id)
        \/ \E v \in I2cValues : SetOutputI2c(id, v)
        \/ \E v \in DoutValues : SetOutputDigitalOut(id, v)
        \/ \E v \in PwmValues : SetOutputPwm(id, v)
        \/ \E v \in DacValues : SetOutputDac(id, v)
        \/ \E v \in SpiSlaveValues : SetOutputSpi(id, v)
  BY DEF handle_set_output
<1>2. CASE UnknownSensor("SET_OUTPUT", id)
  BY <1>2, QuietStep DEF UnknownSensor
<1> QED BY <1>1, <1>2, SetI2cStep, SetDoutStep, SetPwmStep, SetDacStep, SetSpiStep

LEMMA StopStep ==
    ASSUME DispInv, handle_stop
    PROVE  DispInv'
<1>1. PICK id \in MaybeId :
        \/ UnknownSensor("STOP", id)
        \/ /\ StopI2c(id) \/ StopDigitalOut(id) \/ StopPwm(id) \/ StopDac(id) \/ StopSpi(id)
           /\ ReleaseIfStopped(id)
  BY DEF handle_stop
<1>2. CASE UnknownSensor("STOP", id)
  BY <1>2, QuietStep DEF UnknownSensor
<1> QED BY <1>1, <1>2, StopI2cStep, StopDoutStep, StopPwmStep, StopDacStep, StopSpiStep

LEMMA AnswerStep ==
    ASSUME DispInv, handle_sync \/ HandleOther
    PROVE  DispInv'
<1>1. UNCHANGED <<backendVars, timerVars, busVars>>
  BY DEF handle_sync, HandleOther, Answer
<1> QED BY <1>1, QuietStep

LEMMA DispNext ==
    ASSUME DispInv, [Next]_vars
    PROVE  DispInv'
<1>1. CASE UNCHANGED vars
  BY <1>1, QuietStep DEF vars, backendVars
<1>2. CASE dispatcher_handle
  BY <1>2, AnswerStep, SetupStep, SetOutputStep, StopStep DEF dispatcher_handle
<1>3. CASE SwPulseExpires
  BY <1>3, SwExpiresStep DEF SwPulseExpires
<1>4. CASE HwPulseExpires
  BY <1>4, HwExpiresStep DEF HwPulseExpires
<1>5. CASE LateTransfer
  BY <1>5, LateStep DEF LateTransfer
<1> QED BY <1>1, <1>2, <1>3, <1>4, <1>5 DEF Next

\* Start-up: every pool is empty, every pin floats.
LEMMA DispInit == Init => DispInv
<1> SUFFICES ASSUME Init PROVE DispInv
  OBVIOUS
<1>1. /\ sensor_manager_init /\ gpio = [p \in Pins |-> [mode |-> "INPUT", level |-> "LOW"]] /\ heap = 0
      /\ timers = [t \in Timers |-> FreeTimer]
      /\ dout = [i \in DoutIndex |-> DoutFree] /\ dout_pins = {}
      /\ pwm = [i \in PwmIndex |-> PwmFree] /\ pwm_pins = {}
      /\ pwm_out = [tc \in Timers \X Channels |-> PwmChannelOff]
      /\ spi = [p \in SpiPeriphs |-> SpiFree]
      /\ dac = [i \in DacIndex |-> DacFree] /\ chips = [p \in SpiPeriphs |-> ChipFree]
      /\ spi_slaves = [p \in SpiPeriphs |-> SpiSlaveFree]
      /\ i2c = [i \in I2cIndex |-> I2cFree] /\ i2c_slave = [i \in I2cIndex |-> I2cOff]
  BY DEF Init, BackendInit, GpioInit, hw_timer_init, i2c_sensor_init, digital_out_sensor_init,
         pwm_sensor_init, SpiInit, dac_sensor_init, spi_slave_sensor_init
<1>2. /\ SpiFree \in SpiRec /\ SpiFree.role = "NONE" /\ ~SpiFree.master_init
      /\ ~SpiFree.slave_init /\ ~SpiFree.busy
  BY DEF SpiFree, SpiRec
<1>3. SpiSlaveFree \in SlaveRec /\ ~SpiSlaveFree.in_use
  BY DEF SpiSlaveFree, SlaveRec
<1>4. DacFree \in DacRec /\ ~DacFree.in_use
  <2>1. 0 \in SpiPeriphs /\ 0 \in DacChannels
    BY SpiAssumption, DacAssumption DEF SpiPeriphs, DacChannels
  <2> QED BY <2>1 DEF DacFree, DacRec
<1>5. /\ LiveI2c = {} /\ LiveDout = {} /\ LivePwm = {} /\ LiveDac = {} /\ LiveSpi = {}
      /\ SwTimers = {} /\ Chips = {}
  <2>1. LiveI2c = {} /\ LiveDout = {} /\ SwTimers = {}
    BY <1>1, I2cFreeTyped, DoutFreeTyped DEF LiveI2c, LiveDout, SwTimers
  <2>2. LivePwm = {} /\ LiveDac = {}
    BY <1>1, <1>4, PwmFreeTyped DEF LivePwm, LiveDac
  <2>3. LiveSpi = {} /\ Chips = {}
    BY <1>1, <1>3, ChipFreeTyped DEF LiveSpi, Chips
  <2> QED BY <2>1, <2>2, <2>3
<1>6. TableOK
  BY <1>1, InitTable
<1>7. TableMatches
  <2>1. LiveSlots = {}
    BY <1>1 DEF sensor_manager_init, LiveSlots, SlotFree, FreeSlot
  <2>2. BackendSensors = {}
    BY <1>5, SensorsTagged DEF Tagged
  <2> QED BY <2>1, <2>2 DEF TableMatches, LiveSensors, OneSlotEach
<1>8. TimersOK
  BY <1>1, FreeTimerTyped, ArrMax DEF TimersOK
<1>9. DoutInv
  <2>1. DoutTypeOK /\ \A i \in DoutIndex : ~dout[i].in_use => dout[i] = DoutFree
    BY <1>1, DoutFreeTyped DEF DoutTypeOK
  <2>2. ArmedOK
    BY <1>1, FreeTimerTyped DEF ArmedOK
  <2>3. DoutPinsOK
    BY <1>1, <1>5 DEF DoutPinsOK
  <2> QED BY <2>1, <2>2, <2>3 DEF DoutInv
<1>10. PwmInv
  <2>1. PwmPlaced
    BY <1>1, PwmFreeTyped DEF PwmPlaced
  <2>2. OutsOK
    BY <1>1, PwmFreeTyped DEF OutsOK
  <2>3. PwmPinsOK
    BY <1>1, <1>5 DEF PwmPinsOK
  <2>4. ASSUME NEW t \in Timers PROVE TimerOwned(t)
    <3>1. LiveChannels(t) = {}
      BY <1>1, PwmSlotInTable, PwmFreeTyped DEF LiveChannels
    <3>2. timers[t].state # "PWM" /\ \A c \in Channels : ~pwm_out[<<t, c>>].enabled
      BY <1>1, FreeTimerTyped, PwmFreeTyped
    <3> QED BY <3>1, <3>2 DEF TimerOwned
  <2> QED BY <2>1, <2>2, <2>3, <2>4 DEF PwmInv
<1>11. SpiInv
  <2>1. SpiTyped
    BY <1>1, <1>2, <1>3, ChipFreeTyped DEF SpiTyped
  <2>2. DacPlaced
    BY <1>1, <1>4 DEF DacPlaced
  <2>3. ASSUME NEW p \in SpiPeriphs PROVE PortOK(p)
    <3>1. ActiveChannels(p) = {}
      BY <1>1, <1>4, DacSlotInTable DEF ActiveChannels
    <3> QED BY <1>1, <1>2, <1>3, <3>1, ChipFreeTyped DEF PortOK
  <2> QED BY <2>1, <2>2, <2>3 DEF SpiInv
<1>12. I2cInv
  BY <1>1, I2cFreeTyped DEF I2cInv, I2cTypeOK, I2cOwned
<1>13. HeapInv
  BY <1>1, <1>5, FS_EmptySet DEF HeapInv
<1>14. GpioTypeOK /\ PinsIdle
  BY <1>1 DEF GpioTypeOK, PinsIdle, PinMode, Level
<1> QED BY <1>6, <1>7, <1>8, <1>9, <1>10, <1>11, <1>12, <1>13, <1>14 DEF DispInv

LEMMA SpecDispInv == Spec => []DispInv
BY DispInit, DispNext, PTL DEF Spec

-----------------------------------------------------------------------------
(* What follows for the dispatcher                                          *)

\* Every variable of the command side keeps its type, and no reload value
\* outgrows its timer's counter (compute_psc_arr, for every clock, frequency
\* and counter width).
THEOREM DispatcherTypeCorrect == Spec => []TypeOK
<1>1. ASSUME DispInv PROVE TypeOK
  <2>1. slots \in [SlotIndex -> Slot] /\ next_id_hint \in SensorId /\ GpioTypeOK /\ heap \in Nat
    BY <1>1, HeapNat DEF DispInv, TableOK
  <2>2. DoutTypeOK /\ I2cTypeOK
    BY <1>1 DEF DispInv, DoutInv, I2cInv
  <2>3. PwmTypeOK
    BY <1>1 DEF DispInv, PwmInv, PwmPlaced, OutsOK, PwmPinsOK, PwmTypeOK, PwmRec, OutRec
  <2>4. SpiTypeOK /\ DacTypeOK /\ SpiSlaveTypeOK
    BY <1>1 DEF DispInv, SpiInv, SpiTyped, DacPlaced, SpiTypeOK, DacTypeOK, SpiSlaveTypeOK,
                SpiRec, ChipRec, DacRec, SlaveRec
  <2>5. TimersOK
    BY <1>1 DEF DispInv
  <2> QED BY <2>1, <2>2, <2>3, <2>4, <2>5 DEF TypeOK, TimersOK, TimerRec
<1> QED BY <1>1, SpecDispInv, PTL

\* An armed hardware pulse always belongs to a live hardware-timed output,
\* although a leaked timer may carry the same token: the expiry interrupt never
\* drives a pin that is not its own (hw_timer_pulse_*, digital_out_sensor_stop).
THEOREM DispatcherArmedPulses == Spec => []ArmedPulseHasOwner
<1>1. DispInv => ArmedPulseHasOwner
  BY DEF DispInv, DoutInv, ArmedOK, ArmedPulseHasOwner
<1> QED BY <1>1, SpecDispInv, PTL

\* A timer runs PWM exactly as long as it has live channels and its reference
\* count is their number, for every number of timers and channels and every
\* sequence of setups, refusals and stops (hw_timer_pwm_acquire/_release).
THEOREM DispatcherPwmTimers == Spec => []PwmTimerOwnership
<1>1. DispInv => PwmTimerOwnership
  BY DEF DispInv, PwmInv, TimerOwned, LiveChannels, PwmTimerOwnership
<1> QED BY <1>1, SpecDispInv, PTL

\* The SPI claims, the drivers' records, the DAC channel masks, the slave
\* sensors and the I2C register maps tell the same story in every reachable
\* state, also while a timed-out DAC transfer is still under way.
THEOREM DispatcherBuses == Spec => []BusOwnership
<1>1. ASSUME DispInv PROVE BusOwnership
  <2>1. \A p \in SpiPeriphs : PortOK(p)
    BY <1>1 DEF DispInv, SpiInv
  <2>2. \A i \in I2cIndex : I2cOwned(i)
    BY <1>1 DEF DispInv, I2cInv
  <2> QED BY <2>1, <2>2 DEF BusOwnership, PortOK, I2cOwned, ActiveChannels
<1> QED BY <1>1, SpecDispInv, PTL

\* The table, the backends' pools and the heap agree in every reachable state:
\* no setup, rollback or stop loses or duplicates a sensor, an id or a block.
THEOREM DispatcherAccounts == Spec => []SensorsAccounted
<1>1. ASSUME DispInv PROVE SensorsAccounted
  <2>1. LiveSensors = BackendSensors /\ OneSlotEach
    BY <1>1 DEF DispInv, TableMatches
  <2>2. {i \in I2cIndex : i2c[i].regmap # <<>>} = LiveI2c
    BY <1>1 DEF DispInv, I2cInv, I2cOwned, LiveI2c
  <2>3. heap = Cardinality({i \in I2cIndex : i2c[i].regmap # <<>>})
                 + Cardinality({i \in DoutIndex : dout[i].sw_timer # "NULL"})
                 + Cardinality({p \in SpiPeriphs : chips[p].initialized})
    BY <1>1, <2>2 DEF DispInv, HeapInv, SwTimers, Chips
  <2>4. {<<slots[i].protocol_id, slots[i].internal_id>> : i \in LiveSlots} = BackendSensors
    BY <2>1 DEF LiveSensors, Sensor
  <2>5. \A i, j \in LiveSlots : <<slots[i].protocol_id, slots[i].internal_id>>
                                  = <<slots[j].protocol_id, slots[j].internal_id>> => i = j
    BY <2>1 DEF OneSlotEach, Sensor
  <2> QED BY <2>3, <2>4, <2>5 DEF SensorsAccounted
<1> QED BY <1>1, SpecDispInv, PTL

\* A pin that no live sensor uses floats, whatever failed or stopped on the way
\* there and however many sensors shared it before.
THEOREM DispatcherIdlePins == Spec => []IdlePinsReleased
<1>1. ASSUME DispInv PROVE IdlePinsReleased
  <2>1. dout_pins \subseteq UserPins("OUTPUT")
    BY <1>1 DEF DispInv, DoutInv, DoutPinsOK, UserPins, LiveDout
  <2>2. pwm_pins \cup SlaveUsed \cup I2cUsed \subseteq UserPins("AF")
    BY <1>1 DEF DispInv, PwmInv, PwmPinsOK, UserPins, LivePwm, SlaveUsed, I2cUsed, LiveSpi, LiveI2c
  <2>3. ChipUsed \subseteq UserPins("OUTPUT") \cup UserPins("AF")
    <3>1. ASSUME NEW q \in ChipUsed PROVE q \in UserPins("OUTPUT") \cup UserPins("AF")
      <4>1. PICK p \in Chips : q \in ChipPins(chips[p])
        BY <3>1 DEF ChipUsed
      <4>2. CASE q \in {chips[p].cs} \cup LdacPins(chips[p])
        BY <4>1, <4>2 DEF UserPins, Chips
      <4>3. CASE q \in {chips[p].mosi, chips[p].sck}
        BY <4>1, <4>3 DEF UserPins, Chips
      <4> QED BY <4>1, <4>2, <4>3 DEF ChipPins
    <3> QED BY <3>1
  <2>4. PinsIdle
    BY <1>1 DEF DispInv
  <2> QED BY <2>1, <2>2, <2>3, <2>4 DEF IdlePinsReleased, PinsIdle
<1> QED BY <1>1, SpecDispInv, PTL

\* No two outputs of a backend share a pin and no failed setup or stop leaves a
\* reservation behind (pin_owned of digital_out_sensor.c and pwm_sensor.c).
THEOREM DispatcherPins == Spec => []PinsReserved
<1>1. ASSUME DispInv PROVE PinsReserved
  <2>1. DoutPinsOK /\ PwmPinsOK
    BY <1>1 DEF DispInv, DoutInv, PwmInv
  <2> QED BY <2>1 DEF DoutPinsOK, PwmPinsOK, LiveDout, LivePwm, PinsReserved
<1> QED BY <1>1, SpecDispInv, PTL

\* Whatever state a setup is asked in and wherever it fails: refused, it leaves
\* the table, the pools and the heap as they were and carries no id; accepted,
\* the id in the answer is new (the rollback paths of the five backends).
THEOREM DispatcherSetups == Spec => SetupAllOrNothing
<1> DEFINE Outcome(id) == IF ack'.error_code = "ERR_SUCCESS"
                          THEN ~id_in_use(id) /\ id_in_use(id)'
                          ELSE id = PROTO_SENSOR_ID_NONE /\ UNCHANGED SensorState
<1>1. ASSUME DispInv, NEW id \in MaybeId, id = ack'.sensor_id, handle_setup
      PROVE  Outcome(id)
  <2>1. SetupOutcome /\ SetupAck
    BY <1>1, SetupStep
  <2>2. /\ ack'.error_code = ret'.err
        /\ ack'.sensor_id = IF ret'.err = "ERR_SUCCESS" THEN ret'.id ELSE PROTO_SENSOR_ID_NONE
    BY <2>1 DEF SetupAck, protocol_send_ack
  <2>3. CASE Refused /\ UNCHANGED SensorState
    BY <1>1, <2>2, <2>3 DEF Refused
  <2>4. CASE NewId
    <3>1. PICK new \in MaybeId : /\ ret' = [err |-> "ERR_SUCCESS", id |-> new]
                                 /\ ~id_in_use(new) /\ id_in_use(new)'
      BY <2>4 DEF NewId
    <3>2. ret'.err = "ERR_SUCCESS" /\ ret'.id = new
      BY <3>1
    <3> QED BY <1>1, <2>2, <3>1, <3>2
  <2> QED BY <2>1, <2>3, <2>4 DEF SetupOutcome
<1>2. DispInv /\ [Next]_vars =>
        [\A id \in MaybeId : ack'.type = "SETUP" /\ id = ack'.sensor_id =>
            \/ IF ack'.error_code = "ERR_SUCCESS"
               THEN ~id_in_use(id) /\ id_in_use(id)'
               ELSE id = PROTO_SENSOR_ID_NONE /\ UNCHANGED SensorState
            \/ ~handle_setup]_vars
  BY <1>1
<1> QED BY <1>2, SpecDispInv, PTL DEF Spec, SetupAllOrNothing

\* The answer carries the code the backend returned.
AckFollows == ack.error_code = ret.err

LEMMA SpecAckFollows == Spec => []AckFollows
<1>1. Init => AckFollows
  BY DEF Init, BackendInit, AckFollows
<1>2. AckFollows /\ [Next]_vars => AckFollows'
  <2> SUFFICES ASSUME AckFollows, [Next]_vars PROVE AckFollows'
    OBVIOUS
  <2>1. ASSUME NEW type, NEW err, NEW id, protocol_send_ack(type, err, id), Reject(err) PROVE AckFollows'
    BY <2>1 DEF protocol_send_ack, Reject, Return, AckFollows
  <2>2. ASSUME NEW type, NEW id, protocol_send_ack(type, ret'.err, id) PROVE AckFollows'
    BY <2>2 DEF protocol_send_ack, AckFollows
  <2>3. CASE ret' = ret /\ ack' = ack
    BY <2>3 DEF AckFollows
  <2>4. CASE handle_sync \/ HandleOther
    BY <2>1, <2>4 DEF handle_sync, HandleOther, Answer
  <2>5. CASE handle_setup
    BY <2>2, <2>5 DEF handle_setup, SetupI2c, SetupDigitalOut, SetupPwm, SetupDac, SetupSpi, SetupAck
  <2>6. CASE handle_set_output
    BY <2>1, <2>2, <2>6 DEF handle_set_output, UnknownSensor
  <2>7. CASE handle_stop
    BY <2>1, <2>2, <2>7 DEF handle_stop, UnknownSensor
  <2>8. CASE SwPulseExpires \/ HwPulseExpires \/ LateTransfer
    BY <2>3, <2>8 DEF SwPulseExpires, HwPulseExpires, LateTransfer, sw_timer_callback, handle_pulse_isr,
                      spi_done_callback
  <2>9. CASE UNCHANGED vars
    BY <2>3, <2>9 DEF vars
  <2> QED BY <2>4, <2>5, <2>6, <2>7, <2>8, <2>9 DEF Next, dispatcher_handle
<1> QED BY <1>1, <1>2, PTL DEF Spec

\* A hold on an output timed by a FreeRTOS timer is final: neither its own timer
\* nor any hardware timer, leaked ones included, will revert the level.
THEOREM DispatcherHolds == Spec => HoldCancelsSwPulse
<1>1. ASSUME DispInv, DispInv', AckFollows', NEW id \in SensorId, HoldAccepted(id),
             dout[SlotOf(id).internal_id].timer_kind = "SOFTWARE"
      PROVE  ~PulseInFlight(SlotOf(id).internal_id)'
  <2>1. PICK v \in DoutValues : v.pulse_us = 0 /\ SetOutputDigitalOut(id, v)
    BY <1>1 DEF HoldAccepted
  <2>2. PICK idx \in LiveDout : idx = SlotOf(id).internal_id
    BY <1>1, <2>1, RoutedLive DEF SetOutputDigitalOut
  <2>3. digital_out_sensor_set_output(idx, v)
    BY <2>1, <2>2 DEF SetOutputDigitalOut
  <2>4. ret'.err = "ERR_SUCCESS"
    BY <1>1 DEF HoldAccepted, AckFollows
  <2>5. DoutHold(idx, v) /\ UNCHANGED managerVars
    BY <2>1, <2>3, <2>4, RejectFields
       DEF digital_out_sensor_set_output, DoutReject, DoutHwPulse, DoutSwPulse
  <2>6. SlotOf(id)' = SlotOf(id)
    BY <2>5 DEF managerVars, SlotOf, sensor_manager_lookup, id_in_use
  <2>7. idx \in DoutIndex /\ dout \in [DoutIndex -> DoutState]
    BY <1>1 DEF LiveDout, DispInv, DoutInv, DoutTypeOK
  <2>8. timers' = timers /\ dout'[idx].sw_timer # "RUNNING"
    <3>1. PICK x \in DoutState : x = dout[idx]
      BY <2>7
    <3>2. PICK st : st = IF x.sw_timer = "NULL" THEN "NULL" ELSE "STOPPED"
      OBVIOUS
    <3>3. dout' = [dout EXCEPT ![idx] = [x EXCEPT !.sw_timer = st]] /\ timers' = timers
      BY <2>5, <3>1, <3>2 DEF DoutHold
    <3>4. dout'[idx] = [x EXCEPT !.sw_timer = st]
      BY <2>7, <3>3
    <3>5. dout'[idx].sw_timer = st
      BY <3>4 DEF DoutState
    <3> QED BY <3>2, <3>3, <3>5
  <2>9. ASSUME NEW t \in Timers PROVE ~(timers'[t].armed /\ timers'[t].token = idx)
    BY <1>1, <2>2, <2>8 DEF DispInv, DoutInv, ArmedOK
  <2>10. SlotOf(id)'.internal_id = idx
    BY <2>2, <2>6
  <2> QED BY <2>8, <2>9, <2>10 DEF PulseInFlight
<1>2. DispInv /\ DispInv' /\ AckFollows' /\ [Next]_vars =>
        [\A id \in SensorId :
          HoldAccepted(id) /\ dout[SlotOf(id).internal_id].timer_kind = "SOFTWARE" =>
              ~PulseInFlight(SlotOf(id).internal_id)']_vars
  BY <1>1
<1> QED BY <1>2, SpecDispInv, SpecAckFollows, PTL DEF Spec, HoldCancelsSwPulse

\* A duty cycle accepted on a 16-bit timer is on the pin to within one count,
\* for every clock, frequency and duty resolution (compute_ccr with the reload
\* value hw_timer_pwm_arr returns).
THEOREM DispatcherDuty == Spec => DutyWithinOneCount
<1>1. ASSUME DispInv, NEW id \in SensorId, NEW v \in PwmValues, ret'.err = "ERR_SUCCESS", SetOutputPwm(id, v)
      PROVE  LET t == pwm[SlotOf(id).internal_id].timer_id
                 c == pwm[SlotOf(id).internal_id].channel
                 diff == pwm_out'[<<t, c>>].ccr * PWM_DUTY_MAX - (timers[t].arr + 1) * v.duty
             IN  t \notin WideTimers => diff <= PWM_DUTY_MAX /\ -diff <= PWM_DUTY_MAX
  <2>1. PICK idx \in LivePwm : idx = SlotOf(id).internal_id
    BY <1>1, RoutedLive DEF SetOutputPwm
  <2>2. pwm_sensor_set_output(idx, v)
    BY <1>1, <2>1 DEF SetOutputPwm
  <2>3. idx \in PwmIndex /\ pwm[idx].in_use /\ pwm[idx] \in PwmRec
    BY <1>1 DEF LivePwm, DispInv, PwmInv, PwmPlaced
  <2>4. PICK t \in Timers, c \in Channels : t = pwm[idx].timer_id /\ c = pwm[idx].channel
    BY <2>3 DEF PwmRec
  <2>5. pwm_values_err(idx, v) = "ERR_SUCCESS"
    BY <1>1, <2>2, RejectFields DEF pwm_sensor_set_output, PwmReject
  <2>6. v.duty \in 0 .. PWM_DUTY_MAX
    <3>1. v.check = "ERR_SUCCESS" /\ v.duty \in Nat
      BY <2>3, <2>5, PwmAssumption DEF pwm_values_err
    <3> QED BY <3>1, PwmAssumption, DutyAssumption
  <2>7. pwm_out' = [pwm_out EXCEPT ![<<t, c>>] = channel_set_ccr(@, compute_ccr(timers[t].arr, v.duty))]
    BY <2>2, <2>4, <2>5 DEF pwm_sensor_set_output
  <2>8. pwm_out \in [Timers \X Channels -> OutRec]
    BY <1>1 DEF DispInv, PwmInv, OutsOK
  <2>9. pwm_out'[<<t, c>>].ccr = compute_ccr(timers[t].arr, v.duty)
    <3>1. pwm_out'[<<t, c>>] = channel_set_ccr(pwm_out[<<t, c>>], compute_ccr(timers[t].arr, v.duty))
      BY <2>7, <2>8
    <3>2. pwm_out[<<t, c>>] \in OutRec
      BY <2>8
    <3> QED BY <3>1, <3>2 DEF channel_set_ccr, OutRec
  <2>10. ASSUME t \notin WideTimers
         PROVE  /\ pwm_out'[<<t, c>>].ccr * PWM_DUTY_MAX - (timers[t].arr + 1) * v.duty <= PWM_DUTY_MAX
                /\ -(pwm_out'[<<t, c>>].ccr * PWM_DUTY_MAX - (timers[t].arr + 1) * v.duty) <= PWM_DUTY_MAX
    <3>1. PICK a \in 0 .. HW_TIMER_ARR_MAX_16 : a = timers[t].arr
      BY <1>1, <2>10, HwTimerAssumption DEF DispInv, TimersOK, TimerRec, arr_max
    <3> QED BY <2>6, <2>9, <3>1, CcrExact
  <2> QED BY <2>1, <2>4, <2>10
<1>2. DispInv /\ [Next]_vars =>
        [\A id \in SensorId, v \in PwmValues :
          ack'.sensor_id = id /\ ret'.err = "ERR_SUCCESS" /\ SetOutputPwm(id, v) =>
             LET t == pwm[SlotOf(id).internal_id].timer_id
                 c == pwm[SlotOf(id).internal_id].channel
                 diff == pwm_out'[<<t, c>>].ccr * PWM_DUTY_MAX - (timers[t].arr + 1) * v.duty
             IN  t \notin WideTimers => diff <= PWM_DUTY_MAX /\ -diff <= PWM_DUTY_MAX]_vars
  BY <1>1
<1> QED BY <1>2, SpecDispInv, PTL DEF Spec, DutyWithinOneCount

-----------------------------------------------------------------------------
(* A host that asks for free pins: what each call touches                   *)

\* The pins each backend uses, and all of them.
UsedBy(b) ==
    CASE b = "I2C" -> I2cUsed
      [] b = "DIGITAL_OUT" -> dout_pins
      [] b = "PWM" -> pwm_pins
      [] b = "DAC" -> ChipUsed
      [] b = "SPI" -> SlaveUsed

AllUsed == I2cUsed \cup dout_pins \cup pwm_pins \cup ChipUsed \cup SlaveUsed

InMode(g, S, m) == \A p \in S : g[p].mode = m

\* Every backend's pins are in its mode, and no two of its sensors share one.
I2cWired ==
    /\ InMode(gpio, I2cUsed, "AF")
    /\ \A i, j \in LiveI2c : i # j => i2c[i].pins \cap i2c[j].pins = {}
SlavesWired ==
    /\ InMode(gpio, SlaveUsed, "AF")
    /\ \A p, q \in LiveSpi : p # q => spi_slaves[p].pins \cap spi_slaves[q].pins = {}
ChipWired(g, c) == InMode(g, {c.cs} \cup LdacPins(c), "OUTPUT") /\ InMode(g, {c.mosi, c.sck}, "AF")
ChipsWired ==
    /\ \A p \in Chips : ChipWired(gpio, chips[p])
    /\ \A p, q \in Chips : p # q => ChipPins(chips[p]) \cap ChipPins(chips[q]) = {}
DoutWired == InMode(gpio, dout_pins, "OUTPUT")
PwmWired == InMode(gpio, pwm_pins, "AF")

\* No two backends share a pin.
BackendsApart == \A b, c \in Backends : b # c => UsedBy(b) \cap UsedBy(c) = {}

\* What a host that asks for free pins keeps up.
FreeInv == BackendsApart /\ I2cWired /\ SlavesWired /\ ChipsWired /\ DoutWired /\ PwmWired

\* From pin file g to h, no pin outside S has changed, in mode or level.
SameAt(g, h, S) == \A p \in Pins \ S : h[p] = g[p]

LEMMA SameAtChain ==
    ASSUME NEW g, NEW h, NEW k, NEW S, NEW T, SameAt(g, h, S), SameAt(h, k, T)
    PROVE  SameAt(g, k, S \cup T)
BY DEF SameAt

LEMMA OutputIsolated ==
    ASSUME NEW g \in PinFile, NEW pin \in Pins, NEW level \in Level
    PROVE  /\ gpio_configure_output(g, pin, level) \in PinFile
           /\ SameAt(g, gpio_configure_output(g, pin, level), {pin})
           /\ InMode(gpio_configure_output(g, pin, level), {pin}, "OUTPUT")
<1>1. PICK r \in PinRec : r = [mode |-> "OUTPUT", level |-> level]
  BY DEF PinRec, PinMode
<1>2. gpio_configure_output(g, pin, level) = [g EXCEPT ![pin] = r] /\ r.mode = "OUTPUT"
  BY <1>1 DEF gpio_configure_output
<1> QED BY <1>1, <1>2 DEF PinFile, SameAt, InMode

LEMMA AfIsolated ==
    ASSUME NEW g \in PinFile, NEW S \in SUBSET Pins
    PROVE  /\ gpio_configure_af(g, S) \in PinFile /\ SameAt(g, gpio_configure_af(g, S), S)
           /\ InMode(gpio_configure_af(g, S), S, "AF")
<1>1. PICK h, m : h = gpio_configure_af(g, S) /\ m = "AF"
  OBVIOUS
<1>2. h = [p \in Pins |-> IF p \in S THEN [g[p] EXCEPT !.mode = m] ELSE g[p]]
  BY <1>1 DEF gpio_configure_af
<1>3. m \in PinMode
  BY <1>1 DEF PinMode
<1>4. h \in PinFile /\ OnlyAt(g, h, S) /\ \A p \in Pins \cap S : h[p].mode = m
  BY <1>2, <1>3, PinModes
<1> QED BY <1>1, <1>2, <1>4 DEF SameAt, InMode

LEMMA ResetIsolated ==
    ASSUME NEW g \in PinFile, NEW S
    PROVE  gpio_reset_to_defaults(g, S) \in PinFile /\ SameAt(g, gpio_reset_to_defaults(g, S), S)
<1>1. gpio_reset_to_defaults(g, S) \in PinFile
  BY PinReset
<1> QED BY <1>1 DEF SameAt, gpio_reset_to_defaults

LEMMA DriveIsolated ==
    ASSUME NEW g \in PinFile, NEW pin \in Pins, NEW level
    PROVE  SameAt(g, drive_level(g, pin, level), {pin})
BY DEF SameAt, drive_level, PinFile

LEMMA FrameIsolated ==
    ASSUME NEW g \in PinFile, NEW c
    PROVE  SameAt(g, FrameDone(g, c), {c.cs} \cup LdacPins(c))
BY DEF SameAt, FrameDone

\* A transfer moves the chip's select lines and no other pin.
LEMMA WriteIsolated ==
    ASSUME NEW s, NEW c \in ChipRec, NEW g \in PinFile, NEW w \in chip_write(s, c, g)
    PROVE  SameAt(g, w.g, {c.cs} \cup LdacPins(c))
<1>1. PICK cs \in Pins : cs = c.cs
  BY DEF ChipRec
<1>2. PICK high, low, done :
        /\ high = drive_level(g, cs, "HIGH") /\ low = drive_level(g, cs, "LOW") /\ done = FrameDone(g, c)
  OBVIOUS
<1>3. SameAt(g, high, {cs}) /\ SameAt(g, low, {cs}) /\ SameAt(g, done, {cs} \cup LdacPins(c))
  BY <1>1, <1>2, DriveIsolated, FrameIsolated
<1>4. w.g = high \/ w.g = low \/ w.g = done
  <2>1. CASE spi_master_write_err(s) # "ERR_SUCCESS" /\ w \notin LateWithinWrite(s, c, g)
    <3>1. w = [err |-> "ERR_INTERNAL", s |-> s, c |-> c, g |-> high]
      BY <1>1, <1>2, <2>1 DEF chip_write
    <3> QED BY <3>1
  <2>3. CASE w \in LateWithinWrite(s, c, g)
    <3>1. PICK a, b : w = [err |-> "ERR_SUCCESS", s |-> a, c |-> b, g |-> done]
      BY <1>2, <2>3, Zenon DEF LateWithinWrite
    <3> QED BY <3>1
  <2>2. CASE spi_master_write_err(s) = "ERR_SUCCESS"
    <3>1. PICK a, b, e : \/ w = [err |-> "ERR_SUCCESS", s |-> s, c |-> b, g |-> done]
                         \/ w = [err |-> e, s |-> a, c |-> b, g |-> low]
      BY <1>1, <1>2, <2>2, Zenon DEF chip_write
    <3>2. CASE w = [err |-> "ERR_SUCCESS", s |-> s, c |-> b, g |-> done]
      BY <3>2
    <3>3. CASE w = [err |-> e, s |-> a, c |-> b, g |-> low]
      BY <3>3
    <3> QED BY <3>1, <3>2, <3>3
  <2> QED BY <2>1, <2>2, <2>3
<1> QED BY <1>1, <1>3, <1>4 DEF SameAt

\* Pins the step did not touch are in the mode they were in.
LEMMA ModeKept ==
    ASSUME NEW g, NEW h, NEW S, NEW T \in SUBSET Pins, NEW m,
           SameAt(g, h, S), S \cap T = {}, InMode(g, T, m)
    PROVE  InMode(h, T, m)
BY DEF SameAt, InMode

LEMMA ModeKeptByLevels ==
    ASSUME NEW g, NEW h, NEW T \in SUBSET Pins, NEW m, OnlyAt(g, h, {}), InMode(g, T, m)
    PROVE  InMode(h, T, m)
BY DEF OnlyAt, InMode

LEMMA LdacInPins ==
    ASSUME NEW c \in ChipRec
    PROVE  LdacPins(c) \subseteq Pins /\ ChipPins(c) \subseteq Pins
<1>1. c.mosi \in Pins /\ c.sck \in Pins /\ c.cs \in Pins /\ c.ldac \in Pins \cup {<<"NULL", 0>>}
  BY DEF ChipRec
<1>2. LdacPins(c) \subseteq Pins
  BY <1>1 DEF LdacPins, LdacEnabled
<1> QED BY <1>1, <1>2 DEF ChipPins

LEMMA ChipStaysWired ==
    ASSUME NEW g, NEW h, NEW S, NEW c \in ChipRec, SameAt(g, h, S), S \cap ChipPins(c) = {}, ChipWired(g, c)
    PROVE  ChipWired(h, c)
<1>1. {c.cs} \cup LdacPins(c) \in SUBSET Pins /\ {c.mosi, c.sck} \in SUBSET Pins
  BY LdacInPins DEF ChipRec
<1>2. S \cap ({c.cs} \cup LdacPins(c)) = {} /\ S \cap {c.mosi, c.sck} = {}
  BY DEF ChipPins
<1> QED BY <1>1, <1>2, ModeKept DEF ChipWired

LEMMA ChipWiredByLevels ==
    ASSUME NEW g, NEW h, NEW c \in ChipRec, OnlyAt(g, h, {}), ChipWired(g, c)
    PROVE  ChipWired(h, c)
<1>1. {c.cs} \cup LdacPins(c) \in SUBSET Pins /\ {c.mosi, c.sck} \in SUBSET Pins
  BY LdacInPins DEF ChipRec
<1> QED BY <1>1, ModeKeptByLevels DEF ChipWired

\* A chip record with the same four pin fields is wired the same way.
LEMMA ChipWiredAs ==
    ASSUME NEW g, NEW c, NEW d, d.mosi = c.mosi, d.sck = c.sck, d.cs = c.cs, d.ldac = c.ldac, ChipWired(g, c)
    PROVE  ChipWired(g, d)
BY DEF ChipWired, LdacPins, LdacEnabled

LEMMA UsedInPins ==
    ASSUME DispInv
    PROVE  AllUsed \subseteq Pins
<1>1. I2cUsed \subseteq Pins
  BY DEF DispInv, I2cInv, I2cTypeOK, I2cUsed, LiveI2c
<1>2. SlaveUsed \subseteq Pins
  BY DEF DispInv, SpiInv, SpiTyped, SlaveRec, SlaveUsed, LiveSpi
<1>3. ChipUsed \subseteq Pins
  BY LdacInPins DEF DispInv, SpiInv, SpiTyped, ChipUsed, Chips
<1>4. dout_pins \subseteq Pins /\ pwm_pins \subseteq Pins
  BY DEF DispInv, DoutInv, DoutTypeOK, PwmInv, PwmPinsOK
<1> QED BY <1>1, <1>2, <1>3, <1>4 DEF AllUsed

\* The pins the host must avoid are the ones the backends know of.
LEMMA UsedPinsKnown ==
    ASSUME DispInv
    PROVE  UsedPins = AllUsed
<1>1. dout_pins = {dout[i].pin : i \in {j \in DoutIndex : dout[j].in_use}}
      /\ pwm_pins = {pwm[i].pin : i \in {j \in PwmIndex : pwm[j].in_use}}
  BY DEF DispInv, DoutInv, DoutPinsOK, PwmInv, PwmPinsOK, LiveDout, LivePwm
<1>2. PICK lines, bus : /\ lines = UNION {{chips[p].cs} \cup LdacPins(chips[p]) : p \in Chips}
                        /\ bus = UNION {{chips[p].mosi, chips[p].sck} : p \in Chips}
  OBVIOUS
<1>3. ChipUsed = lines \cup bus
  BY <1>2 DEF ChipUsed, ChipPins
<1>4. UserPins("OUTPUT") = dout_pins \cup lines
  BY <1>1, <1>2 DEF UserPins, Chips
<1>5. UserPins("AF") = pwm_pins \cup bus \cup SlaveUsed \cup I2cUsed
  BY <1>1, <1>2 DEF UserPins, Chips, SlaveUsed, LiveSpi, I2cUsed, LiveI2c
<1> QED BY <1>3, <1>4, <1>5 DEF UsedPins, AllUsed

\* A backend whose records a step leaves alone stays wired, when the step
\* touches none of its pins.
LEMMA I2cStaysWired ==
    ASSUME DispInv, I2cWired, i2c' = i2c, NEW T, SameAt(gpio, gpio', T), T \cap I2cUsed = {}
    PROVE  I2cWired' /\ I2cUsed' = I2cUsed
<1>1. LiveI2c' = LiveI2c /\ I2cUsed' = I2cUsed
  BY DEF LiveI2c, I2cUsed
<1>2. InMode(gpio', I2cUsed, "AF")
  BY UsedInPins, ModeKept DEF I2cWired, AllUsed
<1> QED BY <1>1, <1>2 DEF I2cWired, InMode

LEMMA SlavesStayWired ==
    ASSUME DispInv, SlavesWired, spi_slaves' = spi_slaves, NEW T, SameAt(gpio, gpio', T), T \cap SlaveUsed = {}
    PROVE  SlavesWired' /\ SlaveUsed' = SlaveUsed
<1>1. LiveSpi' = LiveSpi /\ SlaveUsed' = SlaveUsed
  BY DEF LiveSpi, SlaveUsed
<1>2. InMode(gpio', SlaveUsed, "AF")
  BY UsedInPins, ModeKept DEF SlavesWired, AllUsed
<1> QED BY <1>1, <1>2 DEF SlavesWired, InMode

LEMMA ChipsStayWired ==
    ASSUME DispInv, ChipsWired, chips' = chips, NEW T, SameAt(gpio, gpio', T), T \cap ChipUsed = {}
    PROVE  ChipsWired' /\ ChipUsed' = ChipUsed
<1>1. Chips' = Chips /\ ChipUsed' = ChipUsed
  BY DEF Chips, ChipUsed
<1>2. ASSUME NEW p \in Chips PROVE ChipWired(gpio', chips[p])
  <2>1. chips[p] \in ChipRec /\ ChipWired(gpio, chips[p])
    BY DEF DispInv, SpiInv, SpiTyped, Chips, ChipsWired
  <2>2. T \cap ChipPins(chips[p]) = {}
    BY DEF ChipUsed
  <2> QED BY <2>1, <2>2, ChipStaysWired
<1> QED BY <1>1, <1>2 DEF ChipsWired, ChipWired, InMode

LEMMA DoutStaysWired ==
    ASSUME DispInv, DoutWired, dout_pins' = dout_pins, NEW T, SameAt(gpio, gpio', T), T \cap dout_pins = {}
    PROVE  DoutWired'
<1>1. InMode(gpio', dout_pins, "OUTPUT")
  BY UsedInPins, ModeKept DEF DoutWired, AllUsed
<1> QED BY <1>1 DEF DoutWired, InMode

LEMMA PwmStaysWired ==
    ASSUME DispInv, PwmWired, pwm_pins' = pwm_pins, NEW T, SameAt(gpio, gpio', T), T \cap pwm_pins = {}
    PROVE  PwmWired'
<1>1. InMode(gpio', pwm_pins, "AF")
  BY UsedInPins, ModeKept DEF PwmWired, AllUsed
<1> QED BY <1>1 DEF PwmWired, InMode

\* What a step of one backend does, when its sensors used the pins of U and use
\* those of V: it touches its own pins and free ones, and takes no other.
Isolated(U, V) == \E A : A \cap AllUsed = {} /\ SameAt(gpio, gpio', U \cup A) /\ V \subseteq U \cup A

\* No digital output's pin has changed.
OutputsKept == \A p \in dout_pins : gpio'[p] = gpio[p]

LEMMA UsedApart ==
    ASSUME BackendsApart
    PROVE  /\ I2cUsed \cap dout_pins = {} /\ I2cUsed \cap pwm_pins = {} /\ I2cUsed \cap ChipUsed = {}
           /\ I2cUsed \cap SlaveUsed = {} /\ dout_pins \cap pwm_pins = {} /\ dout_pins \cap ChipUsed = {}
           /\ dout_pins \cap SlaveUsed = {} /\ pwm_pins \cap ChipUsed = {} /\ pwm_pins \cap SlaveUsed = {}
           /\ ChipUsed \cap SlaveUsed = {}
BY DEF BackendsApart, Backends, UsedBy

LEMMA FreeI2c ==
    ASSUME DispInv, FreeInv, Isolated(I2cUsed, I2cUsed'), I2cWired',
           UNCHANGED <<timerVars, spi, dacVars, spi_slaves>>
    PROVE  FreeInv' /\ OutputsKept
<1>1. PICK A : A \cap AllUsed = {} /\ SameAt(gpio, gpio', I2cUsed \cup A) /\ I2cUsed' \subseteq I2cUsed \cup A
  BY DEF Isolated
<1>2. PICK T : T = I2cUsed \cup A
  OBVIOUS
<1>3. /\ I2cUsed \cap dout_pins = {} /\ I2cUsed \cap pwm_pins = {} /\ I2cUsed \cap ChipUsed = {}
      /\ I2cUsed \cap SlaveUsed = {} /\ dout_pins \cap pwm_pins = {} /\ dout_pins \cap ChipUsed = {}
      /\ dout_pins \cap SlaveUsed = {} /\ pwm_pins \cap ChipUsed = {} /\ pwm_pins \cap SlaveUsed = {}
      /\ ChipUsed \cap SlaveUsed = {}
  BY UsedApart DEF FreeInv
<1>4. T \cap dout_pins = {} /\ T \cap pwm_pins = {} /\ T \cap ChipUsed = {} /\ T \cap SlaveUsed = {}
  BY <1>1, <1>2, <1>3 DEF AllUsed
<1>5. dout_pins' = dout_pins /\ pwm_pins' = pwm_pins /\ chips' = chips /\ spi_slaves' = spi_slaves
  BY DEF timerVars, doutVars, pwmVars, dacVars
<1>6. DoutWired' /\ PwmWired'
  BY <1>1, <1>2, <1>4, <1>5, DoutStaysWired, PwmStaysWired DEF FreeInv
<1>7. ChipsWired' /\ ChipUsed' = ChipUsed /\ SlavesWired' /\ SlaveUsed' = SlaveUsed
  BY <1>1, <1>2, <1>4, <1>5, ChipsStayWired, SlavesStayWired DEF FreeInv
<1>8. BackendsApart'
  BY <1>1, <1>2, <1>3, <1>4, <1>5, <1>6, <1>7 DEF BackendsApart, Backends, UsedBy
<1>9. OutputsKept
  BY <1>1, <1>2, <1>4, UsedInPins DEF OutputsKept, SameAt, AllUsed
<1> QED BY <1>6, <1>7, <1>8, <1>9 DEF FreeInv

LEMMA FreeDout ==
    ASSUME DispInv, FreeInv, Isolated(dout_pins, dout_pins'), DoutWired',
           UNCHANGED <<pwmVars, busVars>>
    PROVE  FreeInv'
<1>1. PICK A : A \cap AllUsed = {} /\ SameAt(gpio, gpio', dout_pins \cup A) /\ dout_pins' \subseteq dout_pins \cup A
  BY DEF Isolated
<1>2. PICK T : T = dout_pins \cup A
  OBVIOUS
<1>3. /\ I2cUsed \cap dout_pins = {} /\ I2cUsed \cap pwm_pins = {} /\ I2cUsed \cap ChipUsed = {}
      /\ I2cUsed \cap SlaveUsed = {} /\ dout_pins \cap pwm_pins = {} /\ dout_pins \cap ChipUsed = {}
      /\ dout_pins \cap SlaveUsed = {} /\ pwm_pins \cap ChipUsed = {} /\ pwm_pins \cap SlaveUsed = {}
      /\ ChipUsed \cap SlaveUsed = {}
  BY UsedApart DEF FreeInv
<1>4. T \cap I2cUsed = {} /\ T \cap pwm_pins = {} /\ T \cap ChipUsed = {} /\ T \cap SlaveUsed = {}
  BY <1>1, <1>2, <1>3 DEF AllUsed
<1>5. i2c' = i2c /\ pwm_pins' = pwm_pins /\ chips' = chips /\ spi_slaves' = spi_slaves
  BY DEF busVars, pwmVars, dacVars, i2cVars
<1>6. I2cWired' /\ I2cUsed' = I2cUsed /\ PwmWired'
  BY <1>1, <1>2, <1>4, <1>5, I2cStaysWired, PwmStaysWired DEF FreeInv
<1>7. ChipsWired' /\ ChipUsed' = ChipUsed /\ SlavesWired' /\ SlaveUsed' = SlaveUsed
  BY <1>1, <1>2, <1>4, <1>5, ChipsStayWired, SlavesStayWired DEF FreeInv
<1>8. BackendsApart'
  BY <1>1, <1>2, <1>3, <1>4, <1>5, <1>6, <1>7 DEF BackendsApart, Backends, UsedBy
<1> QED BY <1>6, <1>7, <1>8 DEF FreeInv

LEMMA FreePwm ==
    ASSUME DispInv, FreeInv, Isolated(pwm_pins, pwm_pins'), PwmWired',
           UNCHANGED <<doutVars, busVars>>
    PROVE  FreeInv' /\ OutputsKept
<1>1. PICK A : A \cap AllUsed = {} /\ SameAt(gpio, gpio', pwm_pins \cup A) /\ pwm_pins' \subseteq pwm_pins \cup A
  BY DEF Isolated
<1>2. PICK T : T = pwm_pins \cup A
  OBVIOUS
<1>3. /\ I2cUsed \cap dout_pins = {} /\ I2cUsed \cap pwm_pins = {} /\ I2cUsed \cap ChipUsed = {}
      /\ I2cUsed \cap SlaveUsed = {} /\ dout_pins \cap pwm_pins = {} /\ dout_pins \cap ChipUsed = {}
      /\ dout_pins \cap SlaveUsed = {} /\ pwm_pins \cap ChipUsed = {} /\ pwm_pins \cap SlaveUsed = {}
      /\ ChipUsed \cap SlaveUsed = {}
  BY UsedApart DEF FreeInv
<1>4. T \cap I2cUsed = {} /\ T \cap dout_pins = {} /\ T \cap ChipUsed = {} /\ T \cap SlaveUsed = {}
  BY <1>1, <1>2, <1>3 DEF AllUsed
<1>5. i2c' = i2c /\ dout_pins' = dout_pins /\ chips' = chips /\ spi_slaves' = spi_slaves
  BY DEF busVars, doutVars, dacVars, i2cVars
<1>6. I2cWired' /\ I2cUsed' = I2cUsed /\ DoutWired'
  BY <1>1, <1>2, <1>4, <1>5, I2cStaysWired, DoutStaysWired DEF FreeInv
<1>7. ChipsWired' /\ ChipUsed' = ChipUsed /\ SlavesWired' /\ SlaveUsed' = SlaveUsed
  BY <1>1, <1>2, <1>4, <1>5, ChipsStayWired, SlavesStayWired DEF FreeInv
<1>8. BackendsApart'
  BY <1>1, <1>2, <1>3, <1>4, <1>5, <1>6, <1>7 DEF BackendsApart, Backends, UsedBy
<1>9. OutputsKept
  BY <1>1, <1>2, <1>4, UsedInPins DEF OutputsKept, SameAt, AllUsed
<1> QED BY <1>6, <1>7, <1>8, <1>9 DEF FreeInv

LEMMA FreeDac ==
    ASSUME DispInv, FreeInv, Isolated(ChipUsed, ChipUsed'), ChipsWired',
           UNCHANGED <<timerVars, spi_slaves, i2cVars>>
    PROVE  FreeInv' /\ OutputsKept
<1>1. PICK A : A \cap AllUsed = {} /\ SameAt(gpio, gpio', ChipUsed \cup A) /\ ChipUsed' \subseteq ChipUsed \cup A
  BY DEF Isolated
<1>2. PICK T : T = ChipUsed \cup A
  OBVIOUS
<1>3. /\ I2cUsed \cap dout_pins = {} /\ I2cUsed \cap pwm_pins = {} /\ I2cUsed \cap ChipUsed = {}
      /\ I2cUsed \cap SlaveUsed = {} /\ dout_pins \cap pwm_pins = {} /\ dout_pins \cap ChipUsed = {}
      /\ dout_pins \cap SlaveUsed = {} /\ pwm_pins \cap ChipUsed = {} /\ pwm_pins \cap SlaveUsed = {}
      /\ ChipUsed \cap SlaveUsed = {}
  BY UsedApart DEF FreeInv
<1>4. T \cap I2cUsed = {} /\ T \cap dout_pins = {} /\ T \cap pwm_pins = {} /\ T \cap SlaveUsed = {}
  BY <1>1, <1>2, <1>3 DEF AllUsed
<1>5. i2c' = i2c /\ dout_pins' = dout_pins /\ pwm_pins' = pwm_pins /\ spi_slaves' = spi_slaves
  BY DEF timerVars, doutVars, pwmVars, i2cVars
<1>6. I2cWired' /\ I2cUsed' = I2cUsed /\ DoutWired'
  BY <1>1, <1>2, <1>4, <1>5, I2cStaysWired, DoutStaysWired DEF FreeInv
<1>7. PwmWired' /\ SlavesWired' /\ SlaveUsed' = SlaveUsed
  BY <1>1, <1>2, <1>4, <1>5, PwmStaysWired, SlavesStayWired DEF FreeInv
<1>8. BackendsApart'
  BY <1>1, <1>2, <1>3, <1>4, <1>5, <1>6, <1>7 DEF BackendsApart, Backends, UsedBy
<1>9. OutputsKept
  BY <1>1, <1>2, <1>4, UsedInPins DEF OutputsKept, SameAt, AllUsed
<1> QED BY <1>6, <1>7, <1>8, <1>9 DEF FreeInv

LEMMA FreeSlave ==
    ASSUME DispInv, FreeInv, Isolated(SlaveUsed, SlaveUsed'), SlavesWired',
           UNCHANGED <<timerVars, dacVars, i2cVars>>
    PROVE  FreeInv' /\ OutputsKept
<1>1. PICK A : A \cap AllUsed = {} /\ SameAt(gpio, gpio', SlaveUsed \cup A) /\ SlaveUsed' \subseteq SlaveUsed \cup A
  BY DEF Isolated
<1>2. PICK T : T = SlaveUsed \cup A
  OBVIOUS
<1>3. /\ I2cUsed \cap dout_pins = {} /\ I2cUsed \cap pwm_pins = {} /\ I2cUsed \cap ChipUsed = {}
      /\ I2cUsed \cap SlaveUsed = {} /\ dout_pins \cap pwm_pins = {} /\ dout_pins \cap ChipUsed = {}
      /\ dout_pins \cap SlaveUsed = {} /\ pwm_pins \cap ChipUsed = {} /\ pwm_pins \cap SlaveUsed = {}
      /\ ChipUsed \cap SlaveUsed = {}
  BY UsedApart DEF FreeInv
<1>4. T \cap I2cUsed = {} /\ T \cap dout_pins = {} /\ T \cap pwm_pins = {} /\ T \cap ChipUsed = {}
  BY <1>1, <1>2, <1>3 DEF AllUsed
<1>5. i2c' = i2c /\ dout_pins' = dout_pins /\ pwm_pins' = pwm_pins /\ chips' = chips
  BY DEF timerVars, doutVars, pwmVars, dacVars, i2cVars
<1>6. I2cWired' /\ I2cUsed' = I2cUsed /\ DoutWired'
  BY <1>1, <1>2, <1>4, <1>5, I2cStaysWired, DoutStaysWired DEF FreeInv
<1>7. PwmWired' /\ ChipsWired' /\ ChipUsed' = ChipUsed
  BY <1>1, <1>2, <1>4, <1>5, PwmStaysWired, ChipsStayWired DEF FreeInv
<1>8. BackendsApart'
  BY <1>1, <1>2, <1>3, <1>4, <1>5, <1>6, <1>7 DEF BackendsApart, Backends, UsedBy
<1>9. OutputsKept
  BY <1>1, <1>2, <1>4, UsedInPins DEF OutputsKept, SameAt, AllUsed
<1> QED BY <1>6, <1>7, <1>8, <1>9 DEF FreeInv

LEMMA SameAtAll ==
    ASSUME NEW g, NEW S
    PROVE  SameAt(g, g, S)
BY DEF SameAt

LEMMA QuietIsolated ==
    ASSUME UNCHANGED gpio, NEW U, NEW V, V \subseteq U
    PROVE  Isolated(U, V)
<1>1. {} \cap AllUsed = {} /\ SameAt(gpio, gpio', U \cup {}) /\ V \subseteq U \cup {}
  BY DEF SameAt
<1> QED BY <1>1 DEF Isolated

\* The step touches pins of S, some its own, the others free.
LEMMA TouchIsolated ==
    ASSUME NEW U, NEW V, NEW S, SameAt(gpio, gpio', S), (S \ U) \cap AllUsed = {}, V \subseteq U \cup S
    PROVE  Isolated(U, V)
<1>1. PICK A : A = S \ U
  OBVIOUS
<1>2. A \cap AllUsed = {} /\ SameAt(gpio, gpio', U \cup A) /\ V \subseteq U \cup A
  BY <1>1 DEF SameAt
<1> QED BY <1>2 DEF Isolated

\* Configured and reset again, a failed setup has touched S and no other pin.
LEMMA ResetAfter ==
    ASSUME NEW g, NEW h \in PinFile, NEW S, SameAt(g, h, S)
    PROVE  SameAt(g, gpio_reset_to_defaults(h, S), S)
<1>1. SameAt(h, gpio_reset_to_defaults(h, S), S)
  BY ResetIsolated
<1> QED BY <1>1 DEF SameAt

LEMMA DoutSetupFree ==
    ASSUME DispInv, FreeInv, NEW cfg \in DoutCfgs, AsksFree(cfg, {cfg.pin} \ dout_pins),
           digital_out_sensor_setup(cfg)
    PROVE  Isolated(dout_pins, dout_pins') /\ DoutWired' /\ OutputsKept
<1>1. PICK pin \in Pins, level \in Level : pin = cfg.pin /\ level = cfg.initial_level
  BY DoutAssumption
<1>2. gpio \in PinFile /\ dout_pins \in SUBSET Pins /\ InMode(gpio, dout_pins, "OUTPUT")
  BY PinsTyped DEF DispInv, DoutInv, DoutTypeOK, FreeInv, DoutWired
<1>3. PICK g \in PinFile : /\ g = gpio_configure_output(gpio, pin, level)
                           /\ SameAt(gpio, g, {pin}) /\ InMode(g, {pin}, "OUTPUT")
  BY <1>2, OutputIsolated
<1>4. CASE UNCHANGED <<gpio, dout_pins>>
  BY <1>2, <1>4, QuietIsolated DEF DoutWired, InMode, OutputsKept
<1>5. ASSUME cfg.check = "ERR_SUCCESS", pin \notin dout_pins, SameAt(gpio, gpio', {pin})
      PROVE  OutputsKept /\ InMode(gpio', dout_pins, "OUTPUT") /\ ({pin} \ dout_pins) \cap AllUsed = {}
  <2>1. OutputsKept /\ InMode(gpio', dout_pins, "OUTPUT")
    BY <1>2, <1>5 DEF OutputsKept, SameAt, InMode
  <2>2. ({pin} \ dout_pins) \cap AllUsed = {}
    BY <1>1, <1>5, UsedPinsKnown DEF AsksFree
  <2> QED BY <2>1, <2>2
<1>6. CASE /\ cfg.check = "ERR_SUCCESS" /\ pin \notin dout_pins
           /\ gpio' = gpio_reset_to_defaults(g, {pin}) /\ dout_pins' = dout_pins
  <2>1. SameAt(gpio, gpio', {pin})
    BY <1>3, <1>6, ResetAfter
  <2> QED BY <1>5, <1>6, <2>1, TouchIsolated DEF DoutWired, InMode
<1>7. CASE /\ cfg.check = "ERR_SUCCESS" /\ pin \notin dout_pins
           /\ gpio' = g /\ dout_pins' = dout_pins \cup {pin}
  <2>1. SameAt(gpio, gpio', {pin}) /\ InMode(gpio', {pin}, "OUTPUT")
    BY <1>3, <1>7
  <2> QED BY <1>5, <1>7, <2>1, TouchIsolated DEF DoutWired, InMode
<1>8. \/ UNCHANGED <<gpio, dout_pins>>
      \/ /\ cfg.check = "ERR_SUCCESS" /\ pin \notin dout_pins
         /\ gpio' = gpio_reset_to_defaults(g, {pin}) /\ dout_pins' = dout_pins
      \/ /\ cfg.check = "ERR_SUCCESS" /\ pin \notin dout_pins
         /\ gpio' = g /\ dout_pins' = dout_pins \cup {pin}
  <2>1. CASE UNCHANGED <<backendVars, timers, doutVars>> \/ UNCHANGED <<backendVars, doutVars>>
    BY <2>1 DEF backendVars, doutVars
  <2>2. CASE /\ dout_validate_cfg(cfg) = "ERR_SUCCESS" /\ \E idx \in dout_alloc_slot : DoutInstall(cfg, idx)
    <3>1. cfg.check = "ERR_SUCCESS" /\ pin \notin dout_pins
      BY <1>1, <2>2 DEF dout_validate_cfg
    <3> QED BY <1>1, <1>3, <2>2, <3>1 DEF DoutInstall, doutVars
  <2> QED BY <2>1, <2>2 DEF digital_out_sensor_setup, DoutReject, DoutLeakTimer
<1> QED BY <1>4, <1>6, <1>7, <1>8

\* A level written to one output's pin.
LEMMA DriveFree ==
    ASSUME DispInv, FreeInv, NEW idx \in LiveDout, NEW level \in Level, dout_pins' = dout_pins,
           gpio' = drive_level(gpio, dout[idx].pin, level)
    PROVE  /\ Isolated(dout_pins, dout_pins') /\ DoutWired'
           /\ \A i \in LiveDout : i # idx => gpio'[dout[i].pin] = gpio[dout[i].pin]
<1>1. PICK pin \in Pins : pin = dout[idx].pin
  BY DEF DispInv, DoutInv, DoutTypeOK, DoutState, LiveDout
<1>2. gpio \in PinFile /\ dout_pins \in SUBSET Pins /\ InMode(gpio, dout_pins, "OUTPUT")
  BY PinsTyped DEF DispInv, DoutInv, DoutTypeOK, FreeInv, DoutWired
<1>3. SameAt(gpio, gpio', {pin}) /\ OnlyAt(gpio, gpio', {})
  BY <1>1, <1>2, DriveIsolated, PinDrive
<1>4. pin \in dout_pins
  BY <1>1 DEF DispInv, DoutInv, DoutPinsOK
<1>5. Isolated(dout_pins, dout_pins')
  BY <1>3, <1>4, TouchIsolated
<1>6. InMode(gpio', dout_pins, "OUTPUT")
  BY <1>2, <1>3, ModeKeptByLevels
<1>7. ASSUME NEW i \in LiveDout, i # idx PROVE gpio'[dout[i].pin] = gpio[dout[i].pin]
  <2>1. dout[i].pin # pin /\ dout[i].pin \in Pins
    BY <1>1, <1>7 DEF DispInv, DoutInv, DoutPinsOK, DoutTypeOK, DoutState, LiveDout
  <2> QED BY <1>3, <2>1 DEF SameAt
<1> QED BY <1>5, <1>6, <1>7 DEF DoutWired, InMode

LEMMA QuietOutputs ==
    ASSUME FreeInv, UNCHANGED <<gpio, dout_pins>>
    PROVE  Isolated(dout_pins, dout_pins') /\ DoutWired' /\ OutputsKept
BY QuietIsolated DEF FreeInv, DoutWired, InMode, OutputsKept

LEMMA OutputsKeptMeans ==
    ASSUME DispInv, OutputsKept, NEW i \in LiveDout
    PROVE  gpio'[dout[i].pin] = gpio[dout[i].pin]
BY DEF OutputsKept, DispInv, DoutInv, DoutPinsOK

LEMMA DoutSetFree ==
    ASSUME DispInv, FreeInv, NEW idx \in LiveDout, NEW v \in DoutValues, digital_out_sensor_set_output(idx, v)
    PROVE  /\ Isolated(dout_pins, dout_pins') /\ DoutWired'
           /\ \A i \in LiveDout : i # idx => gpio'[dout[i].pin] = gpio[dout[i].pin]
<1>1. PICK level \in Level : level = v.level
  BY DoutAssumption
<1>2. dout_pins' = dout_pins /\ (UNCHANGED gpio \/ gpio' = drive_level(gpio, dout[idx].pin, level))
  BY <1>1 DEF digital_out_sensor_set_output, DoutReject, DoutHold, DoutHwPulse, DoutSwPulse, backendVars, doutVars
<1>3. CASE UNCHANGED gpio
  BY <1>2, <1>3, QuietOutputs
<1>4. CASE gpio' = drive_level(gpio, dout[idx].pin, level)
  BY <1>2, <1>4, DriveFree
<1> QED BY <1>2, <1>3, <1>4

LEMMA DoutStopFree ==
    ASSUME DispInv, FreeInv, NEW idx \in LiveDout, digital_out_sensor_stop(idx)
    PROVE  /\ Isolated(dout_pins, dout_pins') /\ DoutWired'
           /\ \A i \in LiveDout : i # idx => gpio'[dout[i].pin] = gpio[dout[i].pin]
<1>1. PICK pin \in Pins : pin = dout[idx].pin
  BY DEF DispInv, DoutInv, DoutTypeOK, DoutState, LiveDout
<1>2. gpio \in PinFile /\ dout_pins \in SUBSET Pins /\ InMode(gpio, dout_pins, "OUTPUT")
  BY PinsTyped DEF DispInv, DoutInv, DoutTypeOK, FreeInv, DoutWired
<1>3. gpio' = gpio_reset_to_defaults(gpio, {pin}) /\ dout_pins' = dout_pins \ {pin}
  BY <1>1 DEF digital_out_sensor_stop, LiveDout
<1>4. SameAt(gpio, gpio', {pin}) /\ pin \in dout_pins
  BY <1>1, <1>2, <1>3, ResetIsolated DEF DispInv, DoutInv, DoutPinsOK
<1>5. Isolated(dout_pins, dout_pins')
  BY <1>3, <1>4, TouchIsolated
<1>6. DoutWired'
  BY <1>2, <1>3, <1>4 DEF DoutWired, InMode, SameAt
<1>7. ASSUME NEW i \in LiveDout, i # idx PROVE gpio'[dout[i].pin] = gpio[dout[i].pin]
  <2>1. dout[i].pin # pin /\ dout[i].pin \in Pins
    BY <1>1, <1>7 DEF DispInv, DoutInv, DoutPinsOK, DoutTypeOK, DoutState, LiveDout
  <2> QED BY <1>4, <2>1 DEF SameAt
<1> QED BY <1>5, <1>6, <1>7

LEMMA RevertFree ==
    ASSUME DispInv, FreeInv, NEW idx \in DoutIndex, revert_to_idle_level(idx), UNCHANGED dout_pins
    PROVE  /\ Isolated(dout_pins, dout_pins') /\ DoutWired'
           /\ \A i \in LiveDout : i # idx => gpio'[dout[i].pin] = gpio[dout[i].pin]
<1>1. CASE idx \notin LiveDout
  <2>1. UNCHANGED <<gpio, dout_pins>>
    BY <1>1 DEF revert_to_idle_level, LiveDout
  <2> QED BY <2>1, QuietOutputs
<1>2. CASE idx \in LiveDout
  <2>1. PICK level \in Level : level = dout[idx].revert
    BY DEF DispInv, DoutInv, DoutTypeOK, DoutState
  <2>2. gpio' = drive_level(gpio, dout[idx].pin, level)
    BY <1>2, <2>1 DEF revert_to_idle_level, LiveDout
  <2> QED BY <1>2, <2>2, DriveFree
<1> QED BY <1>1, <1>2

LEMMA PwmSetupFree ==
    ASSUME DispInv, FreeInv, NEW cfg \in PwmCfgs, AsksFree(cfg, {cfg.pin} \ pwm_pins), pwm_sensor_setup(cfg)
    PROVE  Isolated(pwm_pins, pwm_pins') /\ PwmWired'
<1>1. PICK pin \in Pins : pin = cfg.pin
  BY PwmAssumption
<1>2. gpio \in PinFile /\ pwm_pins \in SUBSET Pins /\ InMode(gpio, pwm_pins, "AF")
  BY PinsTyped DEF DispInv, PwmInv, PwmPinsOK, FreeInv, PwmWired
<1>3. PICK g \in PinFile : /\ g = gpio_configure_af(gpio, {pin})
                           /\ SameAt(gpio, g, {pin}) /\ InMode(g, {pin}, "AF")
  BY <1>2, AfIsolated
<1>4. CASE UNCHANGED <<gpio, pwm_pins>>
  BY <1>2, <1>4, QuietIsolated DEF PwmWired, InMode
<1>5. ASSUME cfg.check = "ERR_SUCCESS", pin \notin pwm_pins, SameAt(gpio, gpio', {pin})
      PROVE  InMode(gpio', pwm_pins, "AF") /\ ({pin} \ pwm_pins) \cap AllUsed = {}
  <2>1. InMode(gpio', pwm_pins, "AF")
    BY <1>2, <1>5 DEF SameAt, InMode
  <2>2. ({pin} \ pwm_pins) \cap AllUsed = {}
    BY <1>1, <1>5, UsedPinsKnown DEF AsksFree
  <2> QED BY <2>1, <2>2
<1>6. CASE /\ cfg.check = "ERR_SUCCESS" /\ pin \notin pwm_pins
           /\ gpio' = gpio_reset_to_defaults(g, {pin}) /\ pwm_pins' = pwm_pins
  <2>1. SameAt(gpio, gpio', {pin})
    BY <1>3, <1>6, ResetAfter
  <2> QED BY <1>5, <1>6, <2>1, TouchIsolated DEF PwmWired, InMode
<1>7. CASE /\ cfg.check = "ERR_SUCCESS" /\ pin \notin pwm_pins
           /\ gpio' = g /\ pwm_pins' = pwm_pins \cup {pin}
  <2>1. SameAt(gpio, gpio', {pin}) /\ InMode(gpio', {pin}, "AF")
    BY <1>3, <1>7
  <2> QED BY <1>5, <1>7, <2>1, TouchIsolated DEF PwmWired, InMode
<1>8. \/ UNCHANGED <<gpio, pwm_pins>>
      \/ /\ cfg.check = "ERR_SUCCESS" /\ pin \notin pwm_pins
         /\ gpio' = gpio_reset_to_defaults(g, {pin}) /\ pwm_pins' = pwm_pins
      \/ /\ cfg.check = "ERR_SUCCESS" /\ pin \notin pwm_pins
         /\ gpio' = g /\ pwm_pins' = pwm_pins \cup {pin}
  <2>1. CASE UNCHANGED <<backendVars, timers, pwmVars>>
    BY <2>1 DEF backendVars, pwmVars
  <2>2. CASE pwm_setup_err(cfg) = "ERR_SUCCESS" /\ PwmInstall(cfg)
    <3>1. cfg.check = "ERR_SUCCESS" /\ pin \notin pwm_pins
      BY <1>1, <2>2 DEF pwm_setup_err
    <3> QED BY <1>1, <1>3, <2>2, <3>1 DEF PwmInstall
  <2> QED BY <2>1, <2>2 DEF pwm_sensor_setup, PwmReject
<1> QED BY <1>4, <1>6, <1>7, <1>8

LEMMA PwmSetFree ==
    ASSUME FreeInv, NEW idx, NEW v, pwm_sensor_set_output(idx, v)
    PROVE  Isolated(pwm_pins, pwm_pins') /\ PwmWired'
<1>1. UNCHANGED gpio /\ pwm_pins' = pwm_pins
  BY DEF pwm_sensor_set_output, PwmReject, backendVars, pwmVars
<1> QED BY <1>1, QuietIsolated DEF FreeInv, PwmWired, InMode

LEMMA PwmStopFree ==
    ASSUME DispInv, FreeInv, NEW idx \in LivePwm, pwm_sensor_stop(idx)
    PROVE  Isolated(pwm_pins, pwm_pins') /\ PwmWired'
<1>1. PICK pin : pin = pwm[idx].pin /\ pin \in pwm_pins
  BY DEF DispInv, PwmInv, PwmPinsOK
<1>2. gpio \in PinFile /\ pwm_pins \in SUBSET Pins /\ InMode(gpio, pwm_pins, "AF")
  BY PinsTyped DEF DispInv, PwmInv, PwmPinsOK, FreeInv, PwmWired
<1>3. gpio' = gpio_reset_to_defaults(gpio, {pin}) /\ pwm_pins' = pwm_pins \ {pin}
  BY <1>1 DEF pwm_sensor_stop, LivePwm
<1>4. SameAt(gpio, gpio', {pin})
  BY <1>2, <1>3, ResetIsolated
<1>5. Isolated(pwm_pins, pwm_pins')
  BY <1>1, <1>3, <1>4, TouchIsolated
<1> QED BY <1>2, <1>3, <1>4, <1>5 DEF PwmWired, InMode, SameAt

LEMMA I2cSetupFree ==
    ASSUME DispInv, FreeInv, NEW cfg \in I2cCfgs, AsksFree(cfg, cfg.pins), i2c_sensor_setup(cfg)
    PROVE  Isolated(I2cUsed, I2cUsed') /\ I2cWired'
<1>1. PICK S \in SUBSET Pins : S = cfg.pins
  BY I2cAssumption
<1>2. gpio \in PinFile /\ I2cUsed \in SUBSET Pins /\ InMode(gpio, I2cUsed, "AF")
  BY PinsTyped, UsedInPins DEF DispInv, AllUsed, FreeInv, I2cWired
<1>3. CASE UNCHANGED <<gpio, i2c>>
  BY <1>3, QuietIsolated DEF FreeInv, I2cWired, InMode, I2cUsed, LiveI2c
<1>4. ASSUME cfg.check = "ERR_SUCCESS"
      PROVE  S \cap AllUsed = {} /\ S \cap I2cUsed = {}
  BY <1>1, <1>4, UsedPinsKnown DEF AsksFree, AllUsed
<1>5. CASE cfg.check = "ERR_SUCCESS" /\ gpio' = gpio_reset_to_defaults(gpio, S) /\ i2c' = i2c
  <2>1. SameAt(gpio, gpio', S) /\ S \cap AllUsed = {} /\ S \cap I2cUsed = {}
    BY <1>2, <1>4, <1>5, ResetIsolated
  <2>2. I2cWired' /\ I2cUsed' = I2cUsed
    BY <1>5, <2>1, I2cStaysWired DEF FreeInv
  <2> QED BY <2>1, <2>2, TouchIsolated
<1>6. ASSUME cfg.check = "ERR_SUCCESS", NEW idx \in I2cIndex, ~i2c[idx].in_use, NEW r, r.in_use, r.pins = S,
             i2c' = [i2c EXCEPT ![idx] = r], gpio' = gpio_configure_af(gpio, S)
      PROVE  Isolated(I2cUsed, I2cUsed') /\ I2cWired'
  <2>1. \A i \in I2cIndex : i2c'[i] = IF i = idx THEN r ELSE i2c[i]
    BY <1>6 DEF DispInv, I2cInv, I2cTypeOK
  <2>2. LiveI2c' = LiveI2c \cup {idx} /\ idx \notin LiveI2c
    BY <1>6, <2>1 DEF LiveI2c
  <2>3. I2cUsed' = I2cUsed \cup S
    BY <1>6, <2>1, <2>2 DEF I2cUsed, LiveI2c
  <2>4. SameAt(gpio, gpio', S) /\ InMode(gpio', S, "AF") /\ S \cap AllUsed = {} /\ S \cap I2cUsed = {}
    BY <1>2, <1>4, <1>6, AfIsolated
  <2>5. InMode(gpio', I2cUsed, "AF")
    BY <1>2, <2>4, ModeKept
  <2>6. \A i \in LiveI2c : i2c[i].pins \cap S = {} /\ i2c'[i] = i2c[i] /\ i # idx
    BY <2>1, <2>2, <2>4 DEF I2cUsed, LiveI2c
  <2>7. i2c'[idx].pins = S
    BY <1>6, <2>1
  <2>8. \A i, j \in LiveI2c' : i # j => i2c'[i].pins \cap i2c'[j].pins = {}
    BY <2>2, <2>6, <2>7 DEF FreeInv, I2cWired
  <2>9. I2cWired'
    BY <2>3, <2>4, <2>5, <2>8 DEF I2cWired, InMode
  <2> QED BY <2>3, <2>4, <2>9, TouchIsolated
<1>7. CASE \E err : I2cReject(err)
  BY <1>3, <1>7 DEF I2cReject, backendVars, i2cVars
<1>8. ASSUME NEW idx \in i2c_alloc_slot
      PROVE  idx \in I2cIndex /\ ~i2c[idx].in_use /\ i2c[idx] = I2cFree /\ ~i2c_slave[idx].initialized
  <2>1. idx \in I2cIndex /\ ~i2c[idx].in_use
    BY DEF i2c_alloc_slot
  <2> QED BY <2>1 DEF DispInv, I2cInv, I2cOwned
<1>9. ASSUME NEW idx \in i2c_alloc_slot, cfg.check = "ERR_SUCCESS", I2cInstall(cfg, idx)
      PROVE  Isolated(I2cUsed, I2cUsed') /\ I2cWired'
  <2>1. PICK id, r : /\ r = [in_use |-> TRUE, pins |-> cfg.pins,
                             regmap |-> Patch([k \in 1 .. cfg.register_count |-> 0], cfg.preset_start, cfg.preset)]
                     /\ IF id = PROTO_SENSOR_ID_NONE
                        THEN gpio' = gpio_reset_to_defaults(gpio, S) /\ i2c' = [i2c EXCEPT ![idx] = I2cFree]
                        ELSE gpio' = gpio_configure_af(gpio, S) /\ i2c' = [i2c EXCEPT ![idx] = r]
    BY <1>1, <1>9, Zenon DEF I2cInstall
  <2>2. CASE id = PROTO_SENSOR_ID_NONE
    <3>1. i2c' = i2c
      BY <1>8, <2>1, <2>2 DEF DispInv, I2cInv, I2cTypeOK
    <3> QED BY <1>5, <1>9, <2>1, <2>2, <3>1
  <2>3. CASE id # PROTO_SENSOR_ID_NONE
    <3>1. r.in_use /\ r.pins = S
      BY <1>1, <2>1
    <3> QED BY <1>6, <1>8, <1>9, <2>1, <2>3, <3>1
  <2> QED BY <2>2, <2>3
<1>10. i2c_validate_cfg(cfg) = "ERR_SUCCESS" => cfg.check = "ERR_SUCCESS"
  BY DEF i2c_validate_cfg
<1> QED BY <1>7, <1>8, <1>9, <1>10 DEF i2c_sensor_setup

LEMMA I2cSetFree ==
    ASSUME DispInv, FreeInv, NEW idx \in I2cIndex, NEW v, i2c_sensor_set_output(idx, v)
    PROVE  Isolated(I2cUsed, I2cUsed') /\ I2cWired'
<1>1. UNCHANGED gpio
  BY DEF i2c_sensor_set_output, I2cReject, backendVars
<1>2. CASE i2c' = i2c
  BY <1>1, <1>2, QuietIsolated DEF FreeInv, I2cWired, InMode, I2cUsed, LiveI2c
<1>3. CASE i2c' = [i2c EXCEPT ![idx].regmap = Patch(@, v.reg_start, v.values)]
  <2>1. PICK m : m = Patch(i2c[idx].regmap, v.reg_start, v.values)
    OBVIOUS
  <2>2. i2c' = [i2c EXCEPT ![idx] = [i2c[idx] EXCEPT !.regmap = m]]
    BY <1>3, <2>1
  <2>3. PICK x \in [in_use : BOOLEAN, pins : SUBSET Pins, regmap : Seq(Nat)] : x = i2c[idx]
    BY DEF DispInv, I2cInv, I2cTypeOK
  <2>4. PICK y : y = [x EXCEPT !.regmap = m] /\ y.pins = x.pins /\ y.in_use = x.in_use
    <3>1. PICK y : y = [x EXCEPT !.regmap = m]
      OBVIOUS
    <3> QED BY <2>3, <3>1
  <2>5. \A i \in I2cIndex : i2c'[i].pins = i2c[i].pins /\ i2c'[i].in_use = i2c[i].in_use
    BY <2>2, <2>3, <2>4 DEF DispInv, I2cInv, I2cTypeOK
  <2>6. LiveI2c' = LiveI2c /\ \A i \in LiveI2c : i2c'[i].pins = i2c[i].pins
    BY <2>5 DEF LiveI2c
  <2>7. I2cUsed' = I2cUsed
    BY <2>6 DEF I2cUsed
  <2> QED BY <1>1, <2>6, <2>7, QuietIsolated DEF FreeInv, I2cWired, InMode
<1> QED BY <1>2, <1>3 DEF i2c_sensor_set_output, I2cReject, i2cVars

LEMMA I2cStopFree ==
    ASSUME DispInv, FreeInv, NEW idx \in LiveI2c, i2c_sensor_stop(idx)
    PROVE  Isolated(I2cUsed, I2cUsed') /\ I2cWired'
<1>1. PICK S : S = i2c[idx].pins
  OBVIOUS
<1>2. gpio \in PinFile /\ I2cUsed \in SUBSET Pins /\ InMode(gpio, I2cUsed, "AF")
  BY PinsTyped, UsedInPins DEF DispInv, AllUsed, FreeInv, I2cWired
<1>3. gpio' = gpio_reset_to_defaults(gpio, S) /\ i2c' = [i2c EXCEPT ![idx] = I2cFree]
  BY <1>1 DEF i2c_sensor_stop, LiveI2c
<1>4. SameAt(gpio, gpio', S) /\ S \subseteq I2cUsed
  BY <1>1, <1>2, <1>3, ResetIsolated DEF I2cUsed
<1>5. LiveI2c' = LiveI2c \ {idx} /\ \A i \in LiveI2c \ {idx} : i2c'[i] = i2c[i] /\ i2c[i].pins \cap S = {}
  <2>1. \A i \in I2cIndex : i2c'[i] = IF i = idx THEN I2cFree ELSE i2c[i]
    BY <1>3 DEF DispInv, I2cInv, I2cTypeOK
  <2>2. ~I2cFree.in_use
    BY DEF I2cFree
  <2> QED BY <1>1, <2>1, <2>2 DEF LiveI2c, FreeInv, I2cWired
<1>6. I2cUsed' \subseteq I2cUsed \ S
  BY <1>5 DEF I2cUsed
<1>7. Isolated(I2cUsed, I2cUsed')
  BY <1>4, <1>6, TouchIsolated
<1>8. InMode(gpio', I2cUsed', "AF")
  BY <1>2, <1>4, <1>6 DEF InMode, SameAt
<1>9. \A i, j \in LiveI2c' : i # j => i2c'[i].pins \cap i2c'[j].pins = {}
  BY <1>5 DEF FreeInv, I2cWired
<1> QED BY <1>7, <1>8, <1>9 DEF I2cWired, InMode

LEMMA SlaveSetupFree ==
    ASSUME DispInv, FreeInv, NEW cfg \in SpiSlaveCfgs, spi_slaves[cfg.periph].in_use \/ AsksFree(cfg, cfg.pins),
           spi_slave_sensor_setup(cfg)
    PROVE  Isolated(SlaveUsed, SlaveUsed') /\ SlavesWired'
<1>1. PICK S \in SUBSET Pins, p \in SpiPeriphs : S = cfg.pins /\ p = cfg.periph
  BY SpiSlaveAssumption
<1>2. gpio \in PinFile /\ SlaveUsed \in SUBSET Pins /\ InMode(gpio, SlaveUsed, "AF")
  BY PinsTyped, UsedInPins DEF DispInv, AllUsed, FreeInv, SlavesWired
<1>3. CASE UNCHANGED <<gpio, spi_slaves>>
  BY <1>3, QuietIsolated DEF FreeInv, SlavesWired, InMode, SlaveUsed, LiveSpi
<1>4. ASSUME cfg.check = "ERR_SUCCESS", ~spi_slaves[p].in_use
      PROVE  S \cap AllUsed = {} /\ S \cap SlaveUsed = {}
  BY <1>1, <1>4, UsedPinsKnown DEF AsksFree, AllUsed
<1>5. CASE /\ cfg.check = "ERR_SUCCESS" /\ ~spi_slaves[p].in_use
           /\ gpio' = gpio_reset_to_defaults(gpio, S) /\ spi_slaves' = spi_slaves
  <2>1. SameAt(gpio, gpio', S) /\ S \cap AllUsed = {} /\ S \cap SlaveUsed = {}
    BY <1>2, <1>4, <1>5, ResetIsolated
  <2>2. SlavesWired' /\ SlaveUsed' = SlaveUsed
    BY <1>5, <2>1, SlavesStayWired DEF FreeInv
  <2> QED BY <2>1, <2>2, TouchIsolated
<1>6. CASE /\ cfg.check = "ERR_SUCCESS" /\ ~spi_slaves[p].in_use /\ gpio' = gpio_configure_af(gpio, S)
           /\ spi_slaves' = [spi_slaves EXCEPT ![p] = [in_use |-> TRUE, pins |-> S]]
  <2>1. PICK r : r = [in_use |-> TRUE, pins |-> S] /\ r.in_use /\ r.pins = S
    <3>1. PICK r : r = [in_use |-> TRUE, pins |-> S]
      OBVIOUS
    <3> QED BY <3>1
  <2>2. \A q \in SpiPeriphs : spi_slaves'[q] = IF q = p THEN r ELSE spi_slaves[q]
    BY <1>6, <2>1 DEF DispInv, SpiInv, SpiTyped
  <2>3. LiveSpi' = LiveSpi \cup {p} /\ p \notin LiveSpi
    BY <1>6, <2>1, <2>2 DEF LiveSpi
  <2>4. SlaveUsed' = SlaveUsed \cup S
    BY <2>1, <2>2, <2>3 DEF SlaveUsed, LiveSpi
  <2>5. SameAt(gpio, gpio', S) /\ InMode(gpio', S, "AF") /\ S \cap AllUsed = {} /\ S \cap SlaveUsed = {}
    BY <1>2, <1>4, <1>6, AfIsolated
  <2>6. InMode(gpio', SlaveUsed, "AF")
    BY <1>2, <2>5, ModeKept
  <2>7. \A q \in LiveSpi : spi_slaves[q].pins \cap S = {} /\ spi_slaves'[q] = spi_slaves[q] /\ q # p
    BY <2>2, <2>3, <2>5 DEF SlaveUsed, LiveSpi
  <2>8. spi_slaves'[p].pins = S
    BY <2>1, <2>2
  <2>9. \A q, t \in LiveSpi' : q # t => spi_slaves'[q].pins \cap spi_slaves'[t].pins = {}
    BY <2>3, <2>7, <2>8 DEF FreeInv, SlavesWired
  <2>10. SlavesWired'
    BY <2>4, <2>5, <2>6, <2>9 DEF SlavesWired, InMode
  <2> QED BY <2>4, <2>5, <2>10, TouchIsolated
<1>7. \/ UNCHANGED <<gpio, spi_slaves>>
      \/ /\ cfg.check = "ERR_SUCCESS" /\ ~spi_slaves[p].in_use
         /\ gpio' = gpio_reset_to_defaults(gpio, S) /\ spi_slaves' = spi_slaves
      \/ /\ cfg.check = "ERR_SUCCESS" /\ ~spi_slaves[p].in_use /\ gpio' = gpio_configure_af(gpio, S)
         /\ spi_slaves' = [spi_slaves EXCEPT ![p] = [in_use |-> TRUE, pins |-> S]]
  BY <1>1 DEF spi_slave_sensor_setup, SpiSlaveReject, SpiSlaveInstall, backendVars
<1> QED BY <1>3, <1>5, <1>6, <1>7

LEMMA SlaveSetFree ==
    ASSUME FreeInv, NEW idx, NEW v, spi_slave_sensor_set_output(idx, v)
    PROVE  Isolated(SlaveUsed, SlaveUsed') /\ SlavesWired'
<1>1. UNCHANGED gpio /\ spi_slaves' = spi_slaves
  BY DEF spi_slave_sensor_set_output, SpiSlaveReject, backendVars
<1> QED BY <1>1, QuietIsolated DEF FreeInv, SlavesWired, InMode, SlaveUsed, LiveSpi

LEMMA SlaveStopFree ==
    ASSUME DispInv, FreeInv, NEW idx \in LiveSpi, spi_slave_sensor_stop(idx)
    PROVE  Isolated(SlaveUsed, SlaveUsed') /\ SlavesWired'
<1>1. PICK S : S = spi_slaves[idx].pins
  OBVIOUS
<1>2. gpio \in PinFile /\ SlaveUsed \in SUBSET Pins /\ InMode(gpio, SlaveUsed, "AF")
  BY PinsTyped, UsedInPins DEF DispInv, AllUsed, FreeInv, SlavesWired
<1>3. gpio' = gpio_reset_to_defaults(gpio, S) /\ spi_slaves' = [spi_slaves EXCEPT ![idx] = SpiSlaveFree]
  BY <1>1 DEF spi_slave_sensor_stop, LiveSpi
<1>4. SameAt(gpio, gpio', S) /\ S \subseteq SlaveUsed
  BY <1>1, <1>2, <1>3, ResetIsolated DEF SlaveUsed
<1>5. /\ LiveSpi' = LiveSpi \ {idx}
      /\ \A q \in LiveSpi \ {idx} : spi_slaves'[q] = spi_slaves[q] /\ spi_slaves[q].pins \cap S = {}
  <2>1. \A q \in SpiPeriphs : spi_slaves'[q] = IF q = idx THEN SpiSlaveFree ELSE spi_slaves[q]
    BY <1>3 DEF DispInv, SpiInv, SpiTyped
  <2>2. ~SpiSlaveFree.in_use
    BY DEF SpiSlaveFree
  <2> QED BY <1>1, <2>1, <2>2 DEF LiveSpi, FreeInv, SlavesWired
<1>6. SlaveUsed' \subseteq SlaveUsed \ S
  BY <1>5 DEF SlaveUsed
<1>7. Isolated(SlaveUsed, SlaveUsed')
  BY <1>4, <1>6, TouchIsolated
<1>8. InMode(gpio', SlaveUsed', "AF")
  BY <1>2, <1>4, <1>6 DEF InMode, SameAt
<1>9. \A q, t \in LiveSpi' : q # t => spi_slaves'[q].pins \cap spi_slaves'[t].pins = {}
  BY <1>5 DEF FreeInv, SlavesWired
<1> QED BY <1>7, <1>8, <1>9 DEF SlavesWired, InMode

\* The pins S are those of the chip at p, or free when there is no chip.
Fits(p, S) == IF chips[p].initialized THEN S = ChipPins(chips[p]) ELSE S \cap AllUsed = {}

\* The chip at p is replaced by record x, which is wired or not live.
LEMMA ChipReplaced ==
    ASSUME DispInv, FreeInv, NEW p \in SpiPeriphs, NEW x, NEW S, Fits(p, S), SameAt(gpio, gpio', S),
           chips' = [chips EXCEPT ![p] = x],
           x.initialized => x \in ChipRec /\ ChipPins(x) = S /\ ChipWired(gpio', x)
    PROVE  Isolated(ChipUsed, ChipUsed') /\ ChipsWired'
<1>1. chips \in [SpiPeriphs -> ChipRec]
  BY DEF DispInv, SpiInv, SpiTyped
<1>2. \A q \in SpiPeriphs : chips'[q] = IF q = p THEN x ELSE chips[q]
  BY <1>1
<1>3. (S \ ChipUsed) \cap AllUsed = {} /\ \A q \in Chips : q # p => ChipPins(chips[q]) \cap S = {}
  <2>1. CASE chips[p].initialized
    <3>1. p \in Chips /\ S = ChipPins(chips[p])
      BY <2>1 DEF Chips, Fits
    <3>2. S \subseteq ChipUsed
      BY <3>1 DEF ChipUsed
    <3>3. \A q \in Chips : q # p => ChipPins(chips[q]) \cap S = {}
      BY <3>1 DEF FreeInv, ChipsWired
    <3> QED BY <3>2, <3>3
  <2>2. CASE ~chips[p].initialized
    BY <2>2 DEF Fits, AllUsed, ChipUsed
  <2> QED BY <2>1, <2>2
<1>4. \A q \in Chips' : q # p => q \in Chips /\ chips'[q] = chips[q]
  BY <1>2 DEF Chips
<1>5. p \in Chips' => x.initialized /\ chips'[p] = x
  BY <1>2 DEF Chips
<1>6. ChipUsed' \subseteq ChipUsed \cup S
  <2>1. ASSUME NEW q \in Chips', NEW r \in ChipPins(chips'[q]) PROVE r \in ChipUsed \cup S
    <3>1. CASE q = p
      BY <1>5, <2>1, <3>1
    <3>2. CASE q # p
      BY <1>4, <2>1, <3>2 DEF ChipUsed
    <3> QED BY <3>1, <3>2
  <2>2. \A r \in ChipUsed' : \E q \in Chips' : r \in ChipPins(chips'[q])
    BY DEF ChipUsed, ChipPins, LdacPins, LdacEnabled
  <2> QED BY <2>1, <2>2
<1>7. Isolated(ChipUsed, ChipUsed')
  BY <1>3, <1>6, TouchIsolated
<1>8. ASSUME NEW q \in Chips' PROVE ChipWired(gpio', chips'[q])
  <2>1. CASE q = p
    BY <1>5, <1>8, <2>1
  <2>2. CASE q # p
    <3>1. q \in Chips /\ chips'[q] = chips[q] /\ chips[q] \in ChipRec
      BY <1>1, <1>4, <2>2 DEF Chips
    <3>2. ChipWired(gpio, chips[q]) /\ S \cap ChipPins(chips[q]) = {}
      BY <1>3, <2>2, <3>1 DEF FreeInv, ChipsWired
    <3> QED BY <3>1, <3>2, ChipStaysWired
  <2> QED BY <2>1, <2>2
<1>9. ASSUME NEW q \in Chips', NEW t \in Chips', q # t PROVE ChipPins(chips'[q]) \cap ChipPins(chips'[t]) = {}
  <2>1. CASE q = p
    <3>1. t \in Chips /\ chips'[t] = chips[t] /\ chips'[q] = x /\ ChipPins(x) = S
      BY <1>4, <1>5, <1>9, <2>1
    <3> QED BY <1>3, <1>9, <2>1, <3>1
  <2>2. CASE t = p
    <3>1. q \in Chips /\ chips'[q] = chips[q] /\ chips'[t] = x /\ ChipPins(x) = S
      BY <1>4, <1>5, <1>9, <2>2
    <3> QED BY <1>3, <1>9, <2>2, <3>1
  <2>3. CASE q # p /\ t # p
    <3>1. q \in Chips /\ chips'[q] = chips[q] /\ t \in Chips /\ chips'[t] = chips[t]
      BY <1>4, <2>3
    <3> QED BY <1>9, <3>1 DEF FreeInv, ChipsWired
  <2> QED BY <2>1, <2>2, <2>3
<1>10. ChipsWired'
  BY <1>8, <1>9 DEF ChipsWired, ChipWired, InMode, ChipPins, LdacPins, LdacEnabled
<1> QED BY <1>7, <1>10

LEMMA SettleFree ==
    ASSUME DispInv, FreeInv, NEW p \in SpiPeriphs, NEW s, NEW c \in ChipRec, NEW g \in PinFile,
           Fits(p, ChipPins(c)), SameAt(gpio, g, ChipPins(c)), ChipWired(g, c), DacSettle(p, s, c, g)
    PROVE  Isolated(ChipUsed, ChipUsed') /\ ChipsWired'
<1>1. CASE c.channels_active = {}
  <2>1. chips' = [chips EXCEPT ![p] = ChipFree] /\ gpio' = gpio_reset_to_defaults(g, ChipPins(c))
    BY <1>1 DEF DacSettle
  <2>2. SameAt(gpio, gpio', ChipPins(c)) /\ ~ChipFree.initialized
    BY <2>1, ResetAfter, ChipFreeTyped
  <2> QED BY <2>1, <2>2, ChipReplaced
<1>2. CASE c.channels_active # {}
  <2>1. chips' = [chips EXCEPT ![p] = c] /\ gpio' = g
    BY <1>2 DEF DacSettle
  <2> QED BY <2>1, ChipReplaced
<1> QED BY <1>1, <1>2

LEMMA DacAddFree ==
    ASSUME DispInv, FreeInv, NEW cfg \in DacCfgs, NEW s \in SpiRec, NEW c \in ChipRec, NEW g \in PinFile, NEW h,
           Fits(cfg.periph, ChipPins(c)), SameAt(gpio, g, ChipPins(c)), ChipWired(g, c),
           DacAddChannel(cfg, s, c, g, h)
    PROVE  Isolated(ChipUsed, ChipUsed') /\ ChipsWired'
<1>1. PICK p \in SpiPeriphs : p = cfg.periph
  BY DacAssumption
<1>2. PICK ch \in DacChannels : ch = cfg.channel
  BY DacAssumption
<1>3. PICK w \in chip_write(s, c, g) :
        \/ DacSettle(p, w.s, w.c, w.g)
        \/ DacSettle(p, w.s, [w.c EXCEPT !.channels_active = @ \cup {ch}], w.g)
  BY <1>1, <1>2, Zenon DEF DacAddChannel
<1>4. w.c \in ChipRec /\ SameButDone(c, w.c) /\ w.g \in PinFile /\ OnlyAt(g, w.g, {})
      /\ SameAt(g, w.g, {c.cs} \cup LdacPins(c))
  BY <1>3, ChipWrite, ChipWritePins, WriteIsolated
<1>5. ChipPins(w.c) = ChipPins(c)
  BY <1>4, ChipPinsOf DEF SameButDone
<1>6. SameAt(gpio, w.g, ChipPins(c))
  BY <1>4 DEF SameAt, ChipPins
<1>7. ChipWired(w.g, w.c)
  <2>1. ChipWired(w.g, c)
    BY <1>4, ChipWiredByLevels
  <2> QED BY <1>4, <2>1, ChipWiredAs DEF SameButDone
<1>8. CASE DacSettle(p, w.s, w.c, w.g)
  BY <1>1, <1>4, <1>5, <1>6, <1>7, <1>8, SettleFree
<1>9. CASE DacSettle(p, w.s, [w.c EXCEPT !.channels_active = @ \cup {ch}], w.g)
  <2>1. PICK x \in ChipRec : x = w.c
    BY <1>4
  <2>2. PICK d : d = [x EXCEPT !.channels_active = @ \cup {ch}]
    OBVIOUS
  <2>3. d \in ChipRec /\ d.mosi = x.mosi /\ d.sck = x.sck /\ d.cs = x.cs /\ d.ldac = x.ldac
    BY <2>1, <2>2 DEF ChipRec
  <2>4. ChipPins(d) = ChipPins(c) /\ ChipWired(w.g, d)
    BY <1>5, <1>7, <2>1, <2>3, ChipPinsOf, ChipWiredAs
  <2>5. DacSettle(p, w.s, d, w.g)
    BY <1>9, <2>1, <2>2
  <2> QED BY <1>1, <1>4, <1>6, <2>3, <2>4, <2>5, SettleFree
<1> QED BY <1>3, <1>8, <1>9

\* A chip that is brought up is wired once its pins are configured, in the
\* order of the code: the bus, the chip select, LDAC.
LEMMA BringUpFree ==
    ASSUME NEW cfg \in DacCfgs, NEW g0 \in PinFile, {cfg.mosi, cfg.sck} \cap ({cfg.cs} \cup LdacPins(cfg)) = {}
    PROVE  LET a == gpio_configure_output(gpio_configure_af(g0, {cfg.mosi, cfg.sck}), cfg.cs, "HIGH")
               g == IF LdacEnabled(cfg) THEN gpio_configure_output(a, cfg.ldac, "HIGH") ELSE a
           IN  g \in PinFile /\ SameAt(g0, g, ChipPins(cfg)) /\ ChipWired(g, cfg)
<1>1. PICK cs \in Pins : cs = cfg.cs
  BY DacAssumption
<1>2. "HIGH" \in Level
  BY DEF Level
<1>3. PICK M \in SUBSET Pins : M = {cfg.mosi, cfg.sck}
  BY DacAssumption
<1>4. PICK b \in PinFile : b = gpio_configure_af(g0, M) /\ SameAt(g0, b, M) /\ InMode(b, M, "AF")
  BY AfIsolated
<1>5. PICK a \in PinFile : /\ a = gpio_configure_output(b, cs, "HIGH")
                           /\ SameAt(b, a, {cs}) /\ InMode(a, {cs}, "OUTPUT")
  BY <1>2, OutputIsolated
<1>6. SameAt(g0, a, M \cup {cs}) /\ InMode(a, M, "AF")
  BY <1>1, <1>3, <1>4, <1>5, SameAtChain, ModeKept
<1>7. PICK g \in PinFile : /\ g = IF LdacEnabled(cfg) THEN gpio_configure_output(a, cfg.ldac, "HIGH") ELSE a
                           /\ SameAt(a, g, LdacPins(cfg))
                           /\ InMode(g, {cs} \cup LdacPins(cfg), "OUTPUT")
  <2>1. CASE LdacEnabled(cfg)
    <3>1. PICK l \in Pins : l = cfg.ldac /\ LdacPins(cfg) = {l}
      BY <2>1, DacAssumption DEF LdacEnabled, LdacPins
    <3>2. PICK k \in PinFile : /\ k = gpio_configure_output(a, l, "HIGH")
                               /\ SameAt(a, k, {l}) /\ InMode(k, {l}, "OUTPUT")
      BY <1>2, OutputIsolated
    <3>3. InMode(k, {cs} \cup {l}, "OUTPUT")
      BY <1>5, <3>2 DEF SameAt, InMode
    <3> QED BY <2>1, <3>1, <3>2, <3>3
  <2>2. CASE ~LdacEnabled(cfg)
    BY <1>5, <2>2 DEF SameAt, LdacPins
  <2> QED BY <2>1, <2>2
<1>8. SameAt(g0, g, M \cup {cs} \cup LdacPins(cfg)) /\ InMode(g, M, "AF")
  BY <1>1, <1>3, <1>6, <1>7, SameAtChain, ModeKept
<1>9. M \cup {cs} \cup LdacPins(cfg) = ChipPins(cfg) /\ ChipWired(g, cfg)
  BY <1>1, <1>3, <1>7, <1>8 DEF ChipPins, ChipWired
<1> QED BY <1>1, <1>3, <1>4, <1>5, <1>7, <1>8, <1>9

LEMMA DacBringsUpFree ==
    ASSUME DispInv, FreeInv, NEW cfg \in DacCfgs, ~chips[cfg.periph].initialized,
           ChipPins(cfg) \cap AllUsed = {}, {cfg.mosi, cfg.sck} \cap ({cfg.cs} \cup LdacPins(cfg)) = {},
           DacBringUp(cfg)
    PROVE  Isolated(ChipUsed, ChipUsed') /\ ChipsWired'
<1>1. PICK p \in SpiPeriphs : p = cfg.periph
  BY DacAssumption
<1>2. gpio \in PinFile
  BY PinsTyped DEF DispInv
<1>3. PICK a, g1, c1, s1 :
        /\ a = gpio_configure_output(gpio_configure_af(gpio, {cfg.mosi, cfg.sck}), cfg.cs, "HIGH")
        /\ g1 = IF LdacEnabled(cfg) THEN gpio_configure_output(a, cfg.ldac, "HIGH") ELSE a
        /\ s1 = spi_master_init(spi[p])
        /\ c1 = [initialized |-> TRUE, clock |-> cfg.clock, mosi |-> cfg.mosi, sck |-> cfg.sck,
                 cs |-> cfg.cs, ldac |-> IF LdacEnabled(cfg) THEN cfg.ldac ELSE <<"NULL", 0>>,
                 channels_active |-> {}, tx_done |-> FALSE]
        /\ \/ /\ gpio' = gpio_reset_to_defaults(g1, ChipPins(cfg))
              /\ UNCHANGED <<managerVars, heap, spi, dacVars>>
           \/ DacAddChannel(cfg, s1, c1, g1, heap + 1)
           \/ \E w \in chip_write(s1, c1, g1) :
                 \/ DacAddChannel(cfg, w.s, w.c, w.g, heap + 1)
                 \/ DacSettle(p, w.s, w.c, w.g)
  BY <1>1, Zenon DEF DacBringUp
<1>4. g1 \in PinFile /\ SameAt(gpio, g1, ChipPins(cfg)) /\ ChipWired(g1, cfg)
  BY <1>2, <1>3, BringUpFree
<1>5. s1 \in SpiRec
  <2>1. spi[p] \in SpiRec
    BY DEF DispInv, SpiInv, SpiTyped
  <2> QED BY <1>3, <2>1 DEF spi_master_init, spi_claim, SpiRec
<1>6. c1 \in ChipRec /\ c1.initialized /\ ChipPins(c1) = ChipPins(cfg) /\ ChipWired(g1, c1)
  <2>1. PICK l \in Pins \cup {<<"NULL", 0>>} : l = IF LdacEnabled(cfg) THEN cfg.ldac ELSE <<"NULL", 0>>
    BY DacAssumption DEF LdacEnabled
  <2>2. cfg.clock \in Nat /\ cfg.mosi \in Pins /\ cfg.sck \in Pins /\ cfg.cs \in Pins
    BY DacAssumption
  <2>3. c1 = [initialized |-> TRUE, clock |-> cfg.clock, mosi |-> cfg.mosi, sck |-> cfg.sck,
              cs |-> cfg.cs, ldac |-> l, channels_active |-> {}, tx_done |-> FALSE]
    BY <1>3, <2>1
  <2>4. /\ c1 \in ChipRec /\ c1.initialized /\ c1.mosi = cfg.mosi /\ c1.sck = cfg.sck /\ c1.cs = cfg.cs
        /\ c1.ldac = l
    BY <2>2, <2>3 DEF ChipRec
  <2>5. LdacPins(c1) = LdacPins(cfg)
    BY <2>1, <2>4 DEF LdacPins, LdacEnabled
  <2> QED BY <1>4, <2>4, <2>5 DEF ChipPins, ChipWired
<1>7. Fits(p, ChipPins(cfg))
  BY <1>1 DEF Fits
<1>8. CASE gpio' = gpio_reset_to_defaults(g1, ChipPins(cfg)) /\ UNCHANGED <<managerVars, heap, spi, dacVars>>
  <2>1. SameAt(gpio, gpio', ChipPins(cfg)) /\ chips' = chips
    BY <1>4, <1>8, ResetAfter DEF dacVars
  <2>2. ChipsWired' /\ ChipUsed' = ChipUsed
    BY <2>1, ChipsStayWired DEF FreeInv, AllUsed
  <2> QED BY <2>1, <2>2, TouchIsolated
<1>9. CASE DacAddChannel(cfg, s1, c1, g1, heap + 1)
  BY <1>1, <1>4, <1>5, <1>6, <1>7, <1>9, DacAddFree
<1>10. ASSUME NEW w \in chip_write(s1, c1, g1)
       PROVE  /\ w.s \in SpiRec /\ w.c \in ChipRec /\ w.g \in PinFile /\ ChipPins(w.c) = ChipPins(cfg)
              /\ SameAt(gpio, w.g, ChipPins(cfg)) /\ ChipWired(w.g, w.c)
  <2>1. /\ w.s \in SpiRec /\ w.c \in ChipRec /\ SameButDone(c1, w.c) /\ w.g \in PinFile /\ OnlyAt(g1, w.g, {})
        /\ SameAt(g1, w.g, {c1.cs} \cup LdacPins(c1))
    BY <1>4, <1>5, <1>6, ChipWrite, ChipWritePins, WriteIsolated
  <2>2. ChipPins(w.c) = ChipPins(cfg)
    BY <1>6, <2>1, ChipPinsOf DEF SameButDone
  <2>3. SameAt(gpio, w.g, ChipPins(cfg))
    <3>1. {c1.cs} \cup LdacPins(c1) \subseteq ChipPins(cfg)
      BY <1>6 DEF ChipPins
    <3> QED BY <1>4, <2>1, <3>1 DEF SameAt
  <2>4. ChipWired(w.g, c1)
    BY <1>6, <2>1, ChipWiredByLevels
  <2>5. ChipWired(w.g, w.c)
    BY <2>1, <2>4, ChipWiredAs DEF SameButDone
  <2> QED BY <2>1, <2>2, <2>3, <2>5
<1>11. ASSUME NEW w \in chip_write(s1, c1, g1), DacAddChannel(cfg, w.s, w.c, w.g, heap + 1)
       PROVE  Isolated(ChipUsed, ChipUsed') /\ ChipsWired'
  BY <1>1, <1>7, <1>10, <1>11, DacAddFree
<1>12. ASSUME NEW w \in chip_write(s1, c1, g1), DacSettle(p, w.s, w.c, w.g)
       PROVE  Isolated(ChipUsed, ChipUsed') /\ ChipsWired'
  BY <1>7, <1>10, <1>12, SettleFree
<1> QED BY <1>3, <1>8, <1>9, <1>11, <1>12

LEMMA DacSetupFree ==
    ASSUME DispInv, FreeInv, NEW cfg \in DacCfgs, dac_sensor_setup(cfg),
           \/ chips[cfg.periph].initialized
           \/ AsksFree(cfg, ChipPins(cfg)) /\ {cfg.mosi, cfg.sck} \cap ({cfg.cs} \cup LdacPins(cfg)) = {}
    PROVE  Isolated(ChipUsed, ChipUsed') /\ ChipsWired'
<1>1. CASE \E err : DacReject(err)
  <2>1. UNCHANGED gpio /\ chips' = chips
    BY <1>1 DEF DacReject, backendVars, dacVars
  <2>2. ChipUsed' = ChipUsed /\ SameAt(gpio, gpio', {}) /\ {} \cap ChipUsed = {}
    BY <2>1 DEF ChipUsed, Chips, SameAt
  <2> QED BY <2>1, <2>2, QuietIsolated, ChipsStayWired DEF FreeInv
<1>2. CASE chips[cfg.periph].initialized /\ DacAddChannel(cfg, spi[cfg.periph], chips[cfg.periph], gpio, heap)
  <2>1. PICK s \in SpiRec, c \in ChipRec : s = spi[cfg.periph] /\ c = chips[cfg.periph]
    BY DacAssumption DEF DispInv, SpiInv, SpiTyped
  <2>2. gpio \in PinFile /\ SameAt(gpio, gpio, ChipPins(c)) /\ Fits(cfg.periph, ChipPins(c))
    BY <1>2, <2>1, PinsTyped DEF SameAt, Fits, DispInv
  <2>3. ChipWired(gpio, c)
    BY <1>2, <2>1, DacAssumption DEF FreeInv, ChipsWired, Chips
  <2>4. DacAddChannel(cfg, s, c, gpio, heap)
    BY <1>2, <2>1
  <2> QED BY <2>2, <2>3, <2>4, DacAddFree
<1>3. CASE ~chips[cfg.periph].initialized /\ dac_setup_err(cfg) = "ERR_SUCCESS" /\ DacBringUp(cfg)
  <2>1. cfg.check = "ERR_SUCCESS"
    BY <1>3 DEF dac_setup_err
  <2>2. ChipPins(cfg) \cap AllUsed = {} /\ {cfg.mosi, cfg.sck} \cap ({cfg.cs} \cup LdacPins(cfg)) = {}
    BY <1>3, <2>1, UsedPinsKnown DEF AsksFree
  <2> QED BY <1>3, <2>2, DacBringsUpFree
<1> QED BY <1>1, <1>2, <1>3 DEF dac_sensor_setup

\* A write or a late completion at a chip's port.
LEMMA ChipTouchedFree ==
    ASSUME DispInv, FreeInv, NEW p \in Chips, NEW c \in ChipRec, SameButDone(chips[p], c),
           chips' = [chips EXCEPT ![p] = c], OnlyAt(gpio, gpio', {}), SameAt(gpio, gpio', ChipPins(chips[p]))
    PROVE  Isolated(ChipUsed, ChipUsed') /\ ChipsWired'
<1>1. p \in SpiPeriphs /\ chips[p] \in ChipRec /\ chips[p].initialized /\ ChipWired(gpio, chips[p])
  BY DEF Chips, DispInv, SpiInv, SpiTyped, FreeInv, ChipsWired
<1>2. ChipPins(c) = ChipPins(chips[p]) /\ Fits(p, ChipPins(c))
  BY <1>1, ChipPinsOf DEF SameButDone, Fits
<1>3. ChipWired(gpio', chips[p])
  BY <1>1, ChipWiredByLevels
<1>4. ChipWired(gpio', c)
  BY <1>3, ChipWiredAs DEF SameButDone
<1> QED BY <1>1, <1>2, <1>4, ChipReplaced

LEMMA DacSetFree ==
    ASSUME DispInv, FreeInv, NEW idx \in LiveDac, NEW v, dac_sensor_set_output(idx, v)
    PROVE  Isolated(ChipUsed, ChipUsed') /\ ChipsWired'
<1>1. CASE \E err : DacReject(err)
  <2>1. UNCHANGED gpio /\ chips' = chips
    BY <1>1 DEF DacReject, backendVars, dacVars
  <2>2. ChipUsed' = ChipUsed /\ SameAt(gpio, gpio', {}) /\ {} \cap ChipUsed = {}
    BY <2>1 DEF ChipUsed, Chips, SameAt
  <2> QED BY <2>1, <2>2, QuietIsolated, ChipsStayWired DEF FreeInv
<1>2. CASE dac_values_err(idx, v) = "ERR_SUCCESS"
  <2>1. PICK p \in SpiPeriphs : p = dac[idx].periph
    BY DEF LiveDac, DispInv, SpiInv, DacPlaced, DacRec
  <2>2. p \in Chips
    BY <1>2, <2>1 DEF dac_values_err, Chips
  <2>3. PICK w \in chip_write(spi[p], chips[p], gpio) : chips' = [chips EXCEPT ![p] = w.c] /\ gpio' = w.g
    BY <1>2, <2>1 DEF dac_sensor_set_output
  <2>4. spi[p] \in SpiRec /\ chips[p] \in ChipRec /\ gpio \in PinFile
    BY PinsTyped DEF DispInv, SpiInv, SpiTyped
  <2>5. /\ w.c \in ChipRec /\ SameButDone(chips[p], w.c) /\ OnlyAt(gpio, w.g, {})
        /\ SameAt(gpio, w.g, {chips[p].cs} \cup LdacPins(chips[p]))
    BY <2>3, <2>4, ChipWrite, ChipWritePins, WriteIsolated
  <2>6. SameAt(gpio, gpio', ChipPins(chips[p]))
    BY <2>3, <2>5 DEF SameAt, ChipPins
  <2> QED BY <2>2, <2>3, <2>5, <2>6, ChipTouchedFree
<1> QED BY <1>1, <1>2 DEF dac_sensor_set_output

LEMMA DacStopFree ==
    ASSUME DispInv, FreeInv, NEW idx \in LiveDac, dac_sensor_stop(idx)
    PROVE  Isolated(ChipUsed, ChipUsed') /\ ChipsWired'
<1>1. idx \in DacIndex /\ dac[idx].in_use /\ dac[idx] \in DacRec
  BY DEF LiveDac, DispInv, SpiInv, DacPlaced
<1>2. PICK p \in SpiPeriphs, ch \in DacChannels : p = dac[idx].periph /\ ch = dac[idx].channel
  BY <1>1 DEF DacRec
<1>3. idx = dac_slot_for(p, ch)
  BY <1>1, <1>2 DEF DispInv, SpiInv, DacPlaced
<1>4. chips[p].initialized /\ chips[p] \in ChipRec
  BY <1>1, <1>3 DEF DispInv, SpiInv, SpiTyped, PortOK, ActiveChannels
<1>5. PICK x \in ChipRec : x = chips[p]
  BY <1>4
<1>6. PICK c : c = [x EXCEPT !.channels_active = @ \ {ch}]
  OBVIOUS
<1>7. c \in ChipRec /\ c.mosi = x.mosi /\ c.sck = x.sck /\ c.cs = x.cs /\ c.ldac = x.ldac
  BY <1>5, <1>6 DEF ChipRec
<1>8. ChipPins(c) = ChipPins(chips[p]) /\ ChipWired(gpio, c)
  <2>1. ChipWired(gpio, x)
    BY <1>4, <1>5 DEF FreeInv, ChipsWired, Chips
  <2> QED BY <1>5, <1>7, <2>1, ChipPinsOf, ChipWiredAs
<1>9. DacSettle(p, spi[p], c, gpio)
  BY <1>1, <1>2, <1>5, <1>6 DEF dac_sensor_stop
<1>10. gpio \in PinFile /\ SameAt(gpio, gpio, ChipPins(c)) /\ Fits(p, ChipPins(c))
  BY <1>4, <1>8, PinsTyped DEF SameAt, Fits, DispInv
<1> QED BY <1>7, <1>8, <1>9, <1>10, SettleFree

LEMMA DacLateFree ==
    ASSUME DispInv, FreeInv, NEW p \in SpiPeriphs, spi_done_callback(p)
    PROVE  Isolated(ChipUsed, ChipUsed') /\ ChipsWired'
<1>1. chips[p] \in ChipRec /\ gpio \in PinFile
  BY PinsTyped DEF DispInv, SpiInv, SpiTyped
<1>2. p \in Chips
  <2>1. spi[p].busy /\ PortOK(p)
    BY DEF spi_done_callback, DispInv, SpiInv
  <2> QED BY <2>1 DEF PortOK, Chips
<1>3. PICK c : c = [chips[p] EXCEPT !.tx_done = TRUE]
  OBVIOUS
<1>4. c \in ChipRec /\ SameButDone(chips[p], c)
  BY <1>1, <1>3 DEF ChipRec, SameButDone
<1>5. chips' = [chips EXCEPT ![p] = c] /\ gpio' = FrameDone(gpio, chips[p])
  BY <1>3 DEF spi_done_callback
<1>6. OnlyAt(gpio, gpio', {}) /\ SameAt(gpio, gpio', {chips[p].cs} \cup LdacPins(chips[p]))
  BY <1>1, <1>5, PinFrame, FrameIsolated
<1>7. SameAt(gpio, gpio', ChipPins(chips[p]))
  BY <1>6 DEF SameAt, ChipPins
<1> QED BY <1>2, <1>4, <1>5, <1>6, <1>7, ChipTouchedFree

-----------------------------------------------------------------------------
(* A host that asks for free pins: the commands and interrupts              *)

\* What a digital output's pin may be moved by, for output i.
OwnMove(i) ==
    \/ \E id \in SensorId, v \in DoutValues : SetOutputDigitalOut(id, v) /\ SlotOf(id).internal_id = i
    \/ sw_timer_callback(i)
    \/ \E t \in Timers : timers[t].token = i /\ handle_pulse_isr(t)

\* A live output that stays live keeps its pin as it is, or moves it itself.
OwnMovesOnly ==
    \A i \in DoutIndex :
        dout[i].in_use /\ dout'[i].in_use /\ gpio'[dout[i].pin] # gpio[dout[i].pin] => OwnMove(i)

LEMMA KeptMeansOwn ==
    ASSUME DispInv, OutputsKept
    PROVE  OwnMovesOnly
BY OutputsKeptMeans DEF OwnMovesOnly, LiveDout

LEMMA FreeSetup ==
    ASSUME DispInv, FreeInv, SetupOnFreePins
    PROVE  FreeInv' /\ OutputsKept
<1>1. ASSUME NEW cfg \in I2cCfgs, AsksFree(cfg, cfg.pins), SetupI2c(cfg)
      PROVE  FreeInv' /\ OutputsKept
  <2>1. i2c_sensor_setup(cfg) /\ UNCHANGED <<timerVars, spi, dacVars, spi_slaves>>
    BY <1>1 DEF SetupI2c
  <2> QED BY <1>1, <2>1, I2cSetupFree, FreeI2c
<1>2. ASSUME NEW cfg \in DoutCfgs, AsksFree(cfg, {cfg.pin} \ dout_pins), SetupDigitalOut(cfg)
      PROVE  FreeInv' /\ OutputsKept
  <2>1. digital_out_sensor_setup(cfg) /\ UNCHANGED <<pwmVars, busVars>>
    BY <1>2 DEF SetupDigitalOut
  <2> QED BY <1>2, <2>1, DoutSetupFree, FreeDout
<1>3. ASSUME NEW cfg \in PwmCfgs, AsksFree(cfg, {cfg.pin} \ pwm_pins), SetupPwm(cfg)
      PROVE  FreeInv' /\ OutputsKept
  <2>1. pwm_sensor_setup(cfg) /\ UNCHANGED <<doutVars, busVars>>
    BY <1>3 DEF SetupPwm
  <2> QED BY <1>3, <2>1, PwmSetupFree, FreePwm
<1>4. ASSUME NEW cfg \in DacCfgs, SetupDac(cfg),
             \/ chips[cfg.periph].initialized
             \/ AsksFree(cfg, ChipPins(cfg)) /\ {cfg.mosi, cfg.sck} \cap ({cfg.cs} \cup LdacPins(cfg)) = {}
      PROVE  FreeInv' /\ OutputsKept
  <2>1. dac_sensor_setup(cfg) /\ UNCHANGED <<timerVars, spi_slaves, i2cVars>>
    BY <1>4 DEF SetupDac
  <2> QED BY <1>4, <2>1, DacSetupFree, FreeDac
<1>5. ASSUME NEW cfg \in SpiSlaveCfgs, spi_slaves[cfg.periph].in_use \/ AsksFree(cfg, cfg.pins), SetupSpi(cfg)
      PROVE  FreeInv' /\ OutputsKept
  <2>1. spi_slave_sensor_setup(cfg) /\ UNCHANGED <<timerVars, dacVars, i2cVars>>
    BY <1>5 DEF SetupSpi
  <2> QED BY <1>5, <2>1, SlaveSetupFree, FreeSlave
<1> QED BY <1>1, <1>2, <1>3, <1>4, <1>5 DEF SetupOnFreePins

\* Nothing but the answer changes.
LEMMA FreeQuiet ==
    ASSUME DispInv, FreeInv, UNCHANGED <<backendVars, timerVars, busVars>>
    PROVE  FreeInv' /\ OutputsKept
<1>1. UNCHANGED gpio /\ dout_pins' = dout_pins /\ UNCHANGED <<pwmVars, busVars>>
  BY DEF backendVars, timerVars, doutVars
<1> QED BY <1>1, QuietOutputs, FreeDout

LEMMA FreeSetOutput ==
    ASSUME DispInv, FreeInv, handle_set_output
    PROVE  FreeInv' /\ OwnMovesOnly
<1>1. PICK id \in MaybeId :
        \/ UnknownSensor("SET_OUTPUT", id)
        \/ \E v \in I2cValues : SetOutputI2c(id, v)
        \/ \E v \in DoutValues : SetOutputDigitalOut(id, v)
        \/ \E v \in PwmValues : SetOutputPwm(id, v)
        \/ \E v \in DacValues : SetOutputDac(id, v)
        \/ \E v \in SpiSlaveValues : SetOutputSpi(id, v)
  BY DEF handle_set_output
<1>2. CASE UnknownSensor("SET_OUTPUT", id)
  <2>1. UNCHANGED <<backendVars, timerVars, busVars>>
    BY <1>2 DEF UnknownSensor
  <2> QED BY <2>1, FreeQuiet, KeptMeansOwn
<1>3. ASSUME NEW v \in I2cValues, SetOutputI2c(id, v) PROVE FreeInv' /\ OwnMovesOnly
  <2>1. PICK idx \in LiveI2c : idx = SlotOf(id).internal_id
    BY <1>3, RoutedLive DEF SetOutputI2c
  <2>2. idx \in I2cIndex /\ i2c_sensor_set_output(idx, v) /\ UNCHANGED <<timerVars, spi, dacVars, spi_slaves>>
    BY <1>3, <2>1 DEF SetOutputI2c, LiveI2c
  <2> QED BY <2>2, I2cSetFree, FreeI2c, KeptMeansOwn
<1>4. ASSUME NEW v \in DoutValues, SetOutputDigitalOut(id, v) PROVE FreeInv' /\ OwnMovesOnly
  <2>1. PICK idx \in LiveDout : idx = SlotOf(id).internal_id
    BY <1>4, RoutedLive DEF SetOutputDigitalOut
  <2>2. digital_out_sensor_set_output(idx, v) /\ UNCHANGED <<pwmVars, busVars>>
    BY <1>4, <2>1 DEF SetOutputDigitalOut
  <2>3. /\ Isolated(dout_pins, dout_pins') /\ DoutWired'
        /\ \A i \in LiveDout : i # idx => gpio'[dout[i].pin] = gpio[dout[i].pin]
    BY <2>2, DoutSetFree
  <2>4. FreeInv'
    BY <2>2, <2>3, FreeDout
  <2>5. id \in SensorId
    BY <1>4 DEF SetOutputDigitalOut, Routed, sensor_manager_lookup, MaybeId
  <2>6. OwnMove(idx)
    BY <1>4, <2>1, <2>5 DEF OwnMove
  <2> QED BY <2>3, <2>4, <2>6 DEF OwnMovesOnly, LiveDout
<1>5. ASSUME NEW v \in PwmValues, SetOutputPwm(id, v) PROVE FreeInv' /\ OwnMovesOnly
  <2>1. PICK idx : idx = SlotOf(id).internal_id
    OBVIOUS
  <2>2. pwm_sensor_set_output(idx, v) /\ UNCHANGED <<doutVars, busVars>>
    BY <1>5, <2>1 DEF SetOutputPwm
  <2> QED BY <2>2, PwmSetFree, FreePwm, KeptMeansOwn
<1>6. ASSUME NEW v \in DacValues, SetOutputDac(id, v) PROVE FreeInv' /\ OwnMovesOnly
  <2>1. PICK idx \in LiveDac : idx = SlotOf(id).internal_id
    BY <1>6, RoutedLive DEF SetOutputDac
  <2>2. dac_sensor_set_output(idx, v) /\ UNCHANGED <<timerVars, spi_slaves, i2cVars>>
    BY <1>6, <2>1 DEF SetOutputDac
  <2> QED BY <2>2, DacSetFree, FreeDac, KeptMeansOwn
<1>7. ASSUME NEW v \in SpiSlaveValues, SetOutputSpi(id, v) PROVE FreeInv' /\ OwnMovesOnly
  <2>1. PICK idx : idx = SlotOf(id).internal_id
    OBVIOUS
  <2>2. spi_slave_sensor_set_output(idx, v) /\ UNCHANGED <<timerVars, dacVars, i2cVars>>
    BY <1>7, <2>1 DEF SetOutputSpi
  <2> QED BY <2>2, SlaveSetFree, FreeSlave, KeptMeansOwn
<1> QED BY <1>1, <1>2, <1>3, <1>4, <1>5, <1>6, <1>7

LEMMA FreeStop ==
    ASSUME DispInv, FreeInv, handle_stop
    PROVE  FreeInv' /\ OwnMovesOnly
<1>1. PICK id \in MaybeId :
        \/ UnknownSensor("STOP", id)
        \/ StopI2c(id) \/ StopDigitalOut(id) \/ StopPwm(id) \/ StopDac(id) \/ StopSpi(id)
  BY DEF handle_stop
<1>2. CASE UnknownSensor("STOP", id)
  <2>1. UNCHANGED <<backendVars, timerVars, busVars>>
    BY <1>2 DEF UnknownSensor
  <2> QED BY <2>1, FreeQuiet, KeptMeansOwn
<1>3. CASE StopI2c(id)
  <2>1. PICK idx \in LiveI2c : idx = SlotOf(id).internal_id
    BY <1>3, RoutedLive DEF StopI2c
  <2>2. i2c_sensor_stop(idx) /\ UNCHANGED <<timerVars, spi, dacVars, spi_slaves>>
    BY <1>3, <2>1 DEF StopI2c
  <2> QED BY <2>2, I2cStopFree, FreeI2c, KeptMeansOwn
<1>4. CASE StopDigitalOut(id)
  <2>1. PICK idx \in LiveDout : idx = SlotOf(id).internal_id
    BY <1>4, RoutedLive DEF StopDigitalOut
  <2>2. digital_out_sensor_stop(idx) /\ UNCHANGED <<pwmVars, busVars>>
    BY <1>4, <2>1 DEF StopDigitalOut
  <2>3. /\ Isolated(dout_pins, dout_pins') /\ DoutWired'
        /\ \A i \in LiveDout : i # idx => gpio'[dout[i].pin] = gpio[dout[i].pin]
    BY <2>2, DoutStopFree
  <2>4. FreeInv'
    BY <2>2, <2>3, FreeDout
  <2>5. ~dout'[idx].in_use
    <3>1. dout' = [dout EXCEPT ![idx] = DoutFree] /\ dout \in [DoutIndex -> DoutState] /\ idx \in DoutIndex
      BY <2>2 DEF digital_out_sensor_stop, LiveDout, DispInv, DoutInv, DoutTypeOK
    <3> QED BY <3>1, DoutFreeTyped
  <2> QED BY <2>3, <2>4, <2>5 DEF OwnMovesOnly, LiveDout
<1>5. CASE StopPwm(id)
  <2>1. PICK idx \in LivePwm : idx = SlotOf(id).internal_id
    BY <1>5, RoutedLive DEF StopPwm
  <2>2. pwm_sensor_stop(idx) /\ UNCHANGED <<doutVars, busVars>>
    BY <1>5, <2>1 DEF StopPwm
  <2> QED BY <2>2, PwmStopFree, FreePwm, KeptMeansOwn
<1>6. CASE StopDac(id)
  <2>1. PICK idx \in LiveDac : idx = SlotOf(id).internal_id
    BY <1>6, RoutedLive DEF StopDac
  <2>2. dac_sensor_stop(idx) /\ UNCHANGED <<timerVars, spi_slaves, i2cVars>>
    BY <1>6, <2>1 DEF StopDac
  <2> QED BY <2>2, DacStopFree, FreeDac, KeptMeansOwn
<1>7. CASE StopSpi(id)
  <2>1. PICK idx \in LiveSpi : idx = SlotOf(id).internal_id
    BY <1>7, RoutedLive DEF StopSpi
  <2>2. spi_slave_sensor_stop(idx) /\ UNCHANGED <<timerVars, dacVars, i2cVars>>
    BY <1>7, <2>1 DEF StopSpi
  <2> QED BY <2>2, SlaveStopFree, FreeSlave, KeptMeansOwn
<1> QED BY <1>1, <1>2, <1>3, <1>4, <1>5, <1>6, <1>7

LEMMA FreeExpiry ==
    ASSUME DispInv, FreeInv, SwPulseExpires \/ HwPulseExpires
    PROVE  FreeInv' /\ OwnMovesOnly
<1>1. ASSUME NEW idx \in DoutIndex, revert_to_idle_level(idx), UNCHANGED dout_pins, UNCHANGED <<pwmVars, busVars>>,
             OwnMove(idx)
      PROVE  FreeInv' /\ OwnMovesOnly
  <2>1. /\ Isolated(dout_pins, dout_pins') /\ DoutWired'
        /\ \A i \in LiveDout : i # idx => gpio'[dout[i].pin] = gpio[dout[i].pin]
    BY <1>1, RevertFree
  <2>2. FreeInv'
    BY <1>1, <2>1, FreeDout
  <2> QED BY <1>1, <2>1, <2>2 DEF OwnMovesOnly, LiveDout
<1>2. ASSUME NEW idx \in DoutIndex, sw_timer_callback(idx), UNCHANGED <<pwmVars, busVars>>
      PROVE  FreeInv' /\ OwnMovesOnly
  <2>1. revert_to_idle_level(idx) /\ UNCHANGED dout_pins /\ OwnMove(idx)
    BY <1>2 DEF sw_timer_callback, OwnMove
  <2> QED BY <1>1, <1>2, <2>1
<1>3. ASSUME NEW t \in Timers, handle_pulse_isr(t), UNCHANGED <<pwmVars, busVars>>
      PROVE  FreeInv' /\ OwnMovesOnly
  <2>1. PICK idx \in DoutIndex : idx = timers[t].token
    BY DEF DispInv, TimersOK, TimerRec
  <2>2. OwnMove(idx)
    BY <1>3, <2>1 DEF OwnMove
  <2>3. revert_to_idle_level(idx) /\ UNCHANGED dout_pins
    BY <1>3, <2>1 DEF handle_pulse_isr, doutVars
  <2> QED BY <1>1, <1>3, <2>2, <2>3
<1> QED BY <1>2, <1>3 DEF SwPulseExpires, HwPulseExpires

LEMMA FreeNext ==
    ASSUME DispInv, FreeInv, [FreePinsNext]_vars
    PROVE  DispInv' /\ FreeInv' /\ OwnMovesOnly
<1>1. [Next]_vars
  BY DEF FreePinsNext, Next, dispatcher_handle, SetupOnFreePins, handle_setup
<1>2. DispInv'
  BY <1>1, DispNext
<1>3. CASE UNCHANGED <<backendVars, timerVars, busVars>>
  BY <1>2, <1>3, FreeQuiet, KeptMeansOwn
<1>4. CASE UNCHANGED vars
  <2>1. UNCHANGED <<backendVars, timerVars, busVars>>
    BY <1>4 DEF vars, backendVars
  <2> QED BY <1>3, <2>1
<1>5. CASE SetupOnFreePins
  BY <1>2, <1>5, FreeSetup, KeptMeansOwn
<1>6. CASE handle_sync \/ HandleOther
  <2>1. UNCHANGED <<backendVars, timerVars, busVars>>
    BY <1>6 DEF handle_sync, HandleOther, Answer
  <2> QED BY <1>3, <2>1
<1>7. CASE handle_set_output
  BY <1>2, <1>7, FreeSetOutput
<1>8. CASE handle_stop
  BY <1>2, <1>8, FreeStop
<1>9. CASE SwPulseExpires \/ HwPulseExpires
  BY <1>2, <1>9, FreeExpiry
<1>10. CASE LateTransfer
  <2>1. PICK p \in SpiPeriphs : spi_done_callback(p) /\ UNCHANGED <<timerVars, spi_slaves, i2cVars>>
    BY <1>10 DEF LateTransfer
  <2> QED BY <1>2, <2>1, DacLateFree, FreeDac, KeptMeansOwn
<1> QED BY <1>2, <1>4, <1>5, <1>6, <1>7, <1>8, <1>9, <1>10 DEF FreePinsNext

\* Start-up: no sensor, no pin in use.
LEMMA FreeInit == Init => FreeInv
<1> SUFFICES ASSUME Init PROVE FreeInv
  OBVIOUS
<1>1. /\ dout_pins = {} /\ pwm_pins = {} /\ chips = [p \in SpiPeriphs |-> ChipFree]
      /\ spi_slaves = [p \in SpiPeriphs |-> SpiSlaveFree] /\ i2c = [i \in I2cIndex |-> I2cFree]
  BY DEF Init, i2c_sensor_init, digital_out_sensor_init, pwm_sensor_init, dac_sensor_init, spi_slave_sensor_init
<1>2. LiveI2c = {} /\ LiveSpi = {} /\ Chips = {}
  <2>1. ~SpiSlaveFree.in_use
    BY DEF SpiSlaveFree
  <2> QED BY <1>1, <2>1, I2cFreeTyped, ChipFreeTyped DEF LiveI2c, LiveSpi, Chips
<1>3. I2cUsed = {} /\ SlaveUsed = {} /\ ChipUsed = {}
  BY <1>2 DEF I2cUsed, SlaveUsed, ChipUsed
<1>4. BackendsApart
  BY <1>1, <1>3 DEF BackendsApart, Backends, UsedBy
<1> QED BY <1>1, <1>2, <1>3, <1>4 DEF FreeInv, I2cWired, SlavesWired, ChipsWired, DoutWired, PwmWired, InMode

LEMMA SpecFreeInv == FreePinsSpec => [](DispInv /\ FreeInv)
BY DispInit, FreeInit, FreeNext, PTL DEF FreePinsSpec

\* As long as the host asks for free pins, every live sensor's pins are in the
\* mode its setup configured and every reservation is exact, whatever other
\* sensors are set up, refused, driven and stopped and however many there are.
THEOREM DispatcherPinModes == FreePinsSpec => []PinsAccounted
<1>1. ASSUME DispInv, FreeInv PROVE PinsAccounted
  <2>1. PinsReserved
    BY <1>1 DEF DispInv, DoutInv, PwmInv, DoutPinsOK, PwmPinsOK, LiveDout, LivePwm, PinsReserved
  <2>2. ASSUME NEW p \in UserPins("OUTPUT") PROVE gpio[p].mode = "OUTPUT"
    <3>1. CASE p \in dout_pins
      BY <1>1, <3>1 DEF FreeInv, DoutWired, InMode
    <3>2. CASE \E q \in Chips : p \in {chips[q].cs} \cup LdacPins(chips[q])
      BY <1>1, <3>2 DEF FreeInv, ChipsWired, ChipWired, InMode
    <3>3. dout_pins = {dout[i].pin : i \in {j \in DoutIndex : dout[j].in_use}}
      BY <2>1 DEF PinsReserved
    <3> QED BY <2>2, <3>1, <3>2, <3>3 DEF UserPins, Chips
  <2>3. ASSUME NEW p \in UserPins("AF") PROVE gpio[p].mode = "AF"
    <3>1. CASE p \in pwm_pins
      BY <1>1, <3>1 DEF FreeInv, PwmWired, InMode
    <3>2. CASE \E q \in Chips : p \in {chips[q].mosi, chips[q].sck}
      BY <1>1, <3>2 DEF FreeInv, ChipsWired, ChipWired, InMode
    <3>3. CASE p \in SlaveUsed
      BY <1>1, <3>3 DEF FreeInv, SlavesWired, InMode
    <3>4. CASE p \in I2cUsed
      BY <1>1, <3>4 DEF FreeInv, I2cWired, InMode
    <3>5. pwm_pins = {pwm[i].pin : i \in {j \in PwmIndex : pwm[j].in_use}}
      BY <2>1 DEF PinsReserved
    <3>6. p \in pwm_pins \/ (\E q \in Chips : p \in {chips[q].mosi, chips[q].sck}) \/ p \in SlaveUsed \/ p \in I2cUsed
      BY <2>3, <3>5 DEF UserPins, Chips, SlaveUsed, LiveSpi, I2cUsed, LiveI2c
    <3> QED BY <3>1, <3>2, <3>3, <3>4, <3>6
  <2> QED BY <2>1, <2>2, <2>3 DEF PinsAccounted
<1> QED BY <1>1, SpecFreeInv, PTL

\* As long as the host asks for free pins, a live digital output's level is
\* moved by its own set-outputs and its own pulse alone, for every number of
\* sensors, pins and peripherals: no other sensor's command, pulse or transfer
\* reaches the device under test through it.
THEOREM DispatcherIsolation == FreePinsSpec => OutputsIsolated
<1>1. DispInv /\ FreeInv /\ [FreePinsNext]_vars =>
        [\A i \in DoutIndex :
            dout[i].in_use /\ dout'[i].in_use /\ gpio'[dout[i].pin] # gpio[dout[i].pin] =>
                \/ \E id \in SensorId, v \in DoutValues :
                      SetOutputDigitalOut(id, v) /\ SlotOf(id).internal_id = i
                \/ sw_timer_callback(i)
                \/ \E t \in Timers : timers[t].token = i /\ handle_pulse_isr(t)]_vars
  BY FreeNext DEF OwnMovesOnly, OwnMove
<1> QED BY <1>1, SpecFreeInv, PTL DEF FreePinsSpec, OutputsIsolated

-----------------------------------------------------------------------------
(* The dispatcher uses the table as module SensorTable says                 *)

\* What a step does to the sensor table: nothing, one registration that issued
\* an id, or one release.
TableUse ==
    \/ UNCHANGED managerVars
    \/ \E p \in ProtocolIds, n \in InternalIds, id \in SensorId : sensor_manager_register(p, n, id)
    \/ \E id \in MaybeId : sensor_manager_release(id)

LEMMA SetupUsesTable ==
    ASSUME DispInv, handle_setup
    PROVE  TableUse
<1>1. Refused => TableUse
  BY DEF Refused, TableUse
<1>2. ASSUME NEW p \in ProtocolIds, NEW n \in InternalIds, Accepted(p, n) PROVE TableUse
  <2>1. PICK id \in MaybeId : id # PROTO_SENSOR_ID_NONE /\ sensor_manager_register(p, n, id)
    BY <1>2 DEF Accepted
  <2>2. id \in SensorId
    BY <2>1 DEF MaybeId
  <2> QED BY <2>1, <2>2 DEF TableUse
<1>3. ASSUME NEW cfg \in I2cCfgs, SetupI2c(cfg) PROVE TableUse
  <2>1. Refused \/ \E n \in I2cIndex \ LiveI2c : Accepted("I2C", n)
    BY <1>3, I2cSetup DEF SetupI2c, DispInv
  <2> QED BY <1>1, <1>2, <2>1, DispatcherAssumption
<1>4. ASSUME NEW cfg \in DoutCfgs, SetupDigitalOut(cfg) PROVE TableUse
  <2>1. Refused \/ \E n \in DoutIndex \ LiveDout : Accepted("DIGITAL_OUT", n)
    BY <1>4, DoutSetup DEF SetupDigitalOut, DispInv
  <2> QED BY <1>1, <1>2, <2>1, DispatcherAssumption
<1>5. ASSUME NEW cfg \in PwmCfgs, SetupPwm(cfg) PROVE TableUse
  <2>1. Refused \/ \E n \in PwmIndex \ LivePwm : Accepted("PWM", n)
    BY <1>5, PwmSetup DEF SetupPwm, DispInv, DoutInv
  <2> QED BY <1>1, <1>2, <2>1, DispatcherAssumption
<1>6. ASSUME NEW cfg \in DacCfgs, SetupDac(cfg) PROVE TableUse
  <2>1. Refused \/ \E n \in DacIndex \ LiveDac : Accepted("DAC", n)
    BY <1>6, HeapNat, DacSetup DEF SetupDac, DispInv, DacSetupDone
  <2> QED BY <1>1, <1>2, <2>1, DispatcherAssumption
<1>7. ASSUME NEW cfg \in SpiSlaveCfgs, SetupSpi(cfg) PROVE TableUse
  <2>1. Refused \/ \E n \in SpiPeriphs \ LiveSpi : Accepted("SPI", n)
    BY <1>7, SlaveSetup DEF SetupSpi, DispInv
  <2> QED BY <1>1, <1>2, <2>1, DispatcherAssumption
<1> QED BY <1>3, <1>4, <1>5, <1>6, <1>7 DEF handle_setup

LEMMA SetOutputKeepsTable ==
    ASSUME DispInv, handle_set_output
    PROVE  UNCHANGED managerVars
<1>1. PICK id \in MaybeId :
        \/ UnknownSensor("SET_OUTPUT", id)
        \/ \E v \in I2cValues : SetOutputI2c(id, v)
        \/ \E v \in DoutValues : SetOutputDigitalOut(id, v)
        \/ \E v \in PwmValues : SetOutputPwm(id, v)
        \/ \E v \in DacValues : SetOutputDac(id, v)
        \/ \E v \in SpiSlaveValues : SetOutputSpi(id, v)
  BY DEF handle_set_output
<1>2. CASE UnknownSensor("SET_OUTPUT", id)
  BY <1>2 DEF UnknownSensor, backendVars
<1>3. ASSUME NEW v \in I2cValues, SetOutputI2c(id, v) PROVE UNCHANGED managerVars
  <2>1. PICK idx \in LiveI2c : idx = SlotOf(id).internal_id
    BY <1>3, RoutedLive DEF SetOutputI2c
  <2> QED BY <1>3, <2>1, I2cSet DEF SetOutputI2c, DispInv, backendVars, LiveI2c
<1>4. ASSUME NEW v \in DoutValues, SetOutputDigitalOut(id, v) PROVE UNCHANGED managerVars
  <2>1. PICK idx \in LiveDout : idx = SlotOf(id).internal_id
    BY <1>4, RoutedLive DEF SetOutputDigitalOut
  <2> QED BY <1>4, <2>1, DoutSet DEF SetOutputDigitalOut, DispInv
<1>5. ASSUME NEW v \in PwmValues, SetOutputPwm(id, v) PROVE UNCHANGED managerVars
  <2>1. PICK idx \in LivePwm : idx = SlotOf(id).internal_id
    BY <1>5, RoutedLive DEF SetOutputPwm
  <2> QED BY <1>5, <2>1, PwmSet DEF SetOutputPwm, DispInv, LivePwm
<1>6. ASSUME NEW v \in DacValues, SetOutputDac(id, v) PROVE UNCHANGED managerVars
  <2>1. PICK idx \in LiveDac : idx = SlotOf(id).internal_id
    BY <1>6, RoutedLive DEF SetOutputDac
  <2> QED BY <1>6, <2>1, DacSet DEF SetOutputDac, DispInv
<1>7. ASSUME NEW v \in SpiSlaveValues, SetOutputSpi(id, v) PROVE UNCHANGED managerVars
  <2>1. PICK idx \in LiveSpi : idx = SlotOf(id).internal_id
    BY <1>7, RoutedLive DEF SetOutputSpi
  <2> QED BY <1>7, <2>1, SlaveSet DEF SetOutputSpi, DispInv, LiveSpi
<1> QED BY <1>1, <1>2, <1>3, <1>4, <1>5, <1>6, <1>7

LEMMA StepUsesTable ==
    ASSUME DispInv, [Next]_vars
    PROVE  TableUse
<1>1. UNCHANGED managerVars => TableUse
  BY DEF TableUse
<1>2. CASE handle_sync \/ HandleOther
  BY <1>1, <1>2 DEF handle_sync, HandleOther, Answer, backendVars
<1>3. CASE handle_setup
  BY <1>3, SetupUsesTable
<1>4. CASE handle_set_output
  BY <1>1, <1>4, SetOutputKeepsTable
<1>5. CASE handle_stop
  <2>1. PICK id \in MaybeId : UnknownSensor("STOP", id) \/ ReleaseIfStopped(id)
    BY <1>5 DEF handle_stop
  <2> QED BY <1>1, <2>1 DEF UnknownSensor, backendVars, ReleaseIfStopped, TableUse
<1>6. CASE SwPulseExpires \/ HwPulseExpires \/ LateTransfer
  <2>1. UNCHANGED managerVars
    BY <1>6, DoutSwExpires, DoutHwExpires, DacLate
       DEF SwPulseExpires, HwPulseExpires, LateTransfer, DispInv
  <2> QED BY <1>1, <2>1
<1>7. CASE UNCHANGED vars
  BY <1>1, <1>7 DEF vars
<1> QED BY <1>2, <1>3, <1>4, <1>5, <1>6, <1>7 DEF Next, dispatcher_handle

\* The history variable of module SensorTable, over the dispatcher's steps: it
\* changes with the table alone and observes which id came into use.
AgeStep ==
    age' = IF \E id \in SensorId : Issued(id)
           THEN [id \in SensorId |-> IF Issued(id) THEN 0 ELSE Older(age[id])]
           ELSE age

AgeHistory == age = [id \in SensorId |-> AgeBound] /\ [][AgeStep]_tableVars

\* Such a step is a step of the table, or leaves it alone.
LEMMA UseIsTableStep ==
    ASSUME TableOK, TableUse, AgeStep
    PROVE  [TableNext]_tableVars
<1>1. \A x \in SensorId : Issued(x) <=> (x \in IdsOf(slots') /\ x \notin IdsOf(slots))
  BY DEF Issued, id_in_use, IdsOf
<1>2. CASE UNCHANGED managerVars
  <2>1. age' = age
    BY <1>1, <1>2 DEF AgeStep, managerVars
  <2> QED BY <1>2, <2>1 DEF managerVars, tableVars
<1>3. ASSUME NEW id \in MaybeId, sensor_manager_release(id) PROVE TableNext
  <2>1. age' = age
    BY <1>1, <1>3, ReleaseIdsOf DEF AgeStep
  <2> QED BY <1>3, <2>1 DEF TableNext, Release, MaybeId
<1>4. ASSUME NEW p \in ProtocolIds, NEW n \in InternalIds, NEW id \in SensorId, sensor_manager_register(p, n, id)
      PROVE  TableNext
  <2>1. id # PROTO_SENSOR_ID_NONE
    BY DEF PROTO_SENSOR_ID_NONE, SensorId, PROTO_SENSOR_ID_MIN
  <2>2. IdsOf(slots') = IdsOf(slots) \cup {id} /\ id \notin IdsOf(slots)
    BY <1>4, <2>1, RegisterAllocates DEF Issues, Allocated
  <2>3. \A x \in SensorId : Issued(x) <=> x = id
    BY <1>1, <2>2
  <2>4. age' = [i \in SensorId |-> IF i = id THEN 0 ELSE Older(age[i])]
    BY <2>3 DEF AgeStep
  <2>5. Register(p, n)
    BY <1>4, <2>1, <2>4 DEF Register
  <2> QED BY <2>5 DEF TableNext
<1> QED BY <1>2, <1>3, <1>4 DEF TableUse

\* The firmware as a whole drives its table the way module SensorTable does,
\* through five backends, their rollbacks and every stop: what is proved of the
\* table alone holds for it there.
THEOREM DispatcherImplementsTable == Spec /\ AgeHistory => TableSpec
<1>1. Init /\ age = [id \in SensorId |-> AgeBound] => TableInit
  BY DEF Init, BackendInit, TableInit
<1>2. DispInv /\ [Next]_vars /\ [AgeStep]_tableVars => [TableNext]_tableVars
  BY StepUsesTable, UseIsTableStep DEF DispInv
<1> QED BY <1>1, <1>2, SpecDispInv, PTL DEF Spec, AgeHistory, TableSpec

\* An id the firmware hands out has rested: since it was last handed out, at
\* least ID_MAX - MAX_SLOTS others were, whatever backends they went to and
\* whatever was refused or stopped meanwhile.
THEOREM DispatcherRecycleGap == Spec /\ AgeHistory => RecycleGap
BY DispatcherImplementsTable, TableRecycleGap, PTL

=============================================================================
