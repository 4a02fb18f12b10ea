--------------------------- MODULE SensorManager ---------------------------
(***************************************************************************)
(* The sensor table of the STM32 firmware                                  *)
(* (stm32/project/command/src/sensor_manager.c).                           *)
(*                                                                         *)
(* A slot maps a wire-visible sensor id to a protocol and to the index     *)
(* that protocol's backend uses in its own pool.  Only the protocol task   *)
(* touches the table, so every operation is atomic here.                   *)
(*                                                                         *)
(* The operations are written as relations over the table, with their      *)
(* return value as the last parameter, so that the backends can call them  *)
(* in the middle of a larger step (modules DigitalOut, Pwm, ...).          *)
(***************************************************************************)
EXTENDS Integers, FiniteSets

CONSTANTS
    SENSOR_MAX_SLOTS,      \* number of table slots (8 in the firmware)
    PROTO_SENSOR_ID_MAX,   \* largest id (255 in the firmware)
    ProtocolIds,           \* PROTO_ID_* values a backend registers with
    InternalIds            \* backend pool indices

PROTO_SENSOR_ID_NONE == 0
PROTO_SENSOR_ID_MIN  == 1

\* There is at least one slot, and more ids than slots ("can't happen under
\* SENSOR_MAX_SLOTS=8", sensor_manager.c:45-46).
ASSUME SensorManagerAssumption ==
    /\ SENSOR_MAX_SLOTS \in Nat \ {0}
    /\ PROTO_SENSOR_ID_MAX \in Nat
    /\ PROTO_SENSOR_ID_MAX > SENSOR_MAX_SLOTS

VARIABLES
    slots,          \* the table: [id, protocol_id, internal_id] per slot
    next_id_hint    \* the first id the next allocation tries

managerVars == <<slots, next_id_hint>>

SlotIndex == 0 .. (SENSOR_MAX_SLOTS - 1)
SensorId  == PROTO_SENSOR_ID_MIN .. PROTO_SENSOR_ID_MAX

\* A cleared slot: no id, PROTO_ID_NONE, internal index 0.
FreeSlot == [id |-> PROTO_SENSOR_ID_NONE, protocol_id |-> "none", internal_id |-> 0]

Slot == [id : SensorId \cup {PROTO_SENSOR_ID_NONE},
         protocol_id : ProtocolIds \cup {"none"},
         internal_id : InternalIds \cup {0}]

sensor_manager_init ==
    /\ slots = [i \in SlotIndex |-> FreeSlot]
    /\ next_id_hint = PROTO_SENSOR_ID_MIN

id_in_use(id) == \E i \in SlotIndex : slots[i].id = id

\* The id tried k steps after id h, wrapping from the largest id to 1.
IdAfter(h, k) == ((h - PROTO_SENSOR_ID_MIN + k) % PROTO_SENSOR_ID_MAX) + PROTO_SENSOR_ID_MIN

\* A mutation: the hint is not advanced past the id handed out.
allocate_id_sticky_hint(id) ==
    \E k \in 0 .. (PROTO_SENSOR_ID_MAX - 1) :
        /\ \A j \in 0 .. (k - 1) : id_in_use(IdAfter(next_id_hint, j))
        /\ ~id_in_use(IdAfter(next_id_hint, k))
        /\ id = IdAfter(next_id_hint, k)
        /\ next_id_hint' = IdAfter(next_id_hint, k)

\* A mutation: the candidate is handed out without the id_in_use check.
allocate_id_unchecked(id) ==
    /\ id = next_id_hint
    /\ next_id_hint' = IdAfter(next_id_hint, 1)

\* allocate_id: try the hint and its successors until one is not in use, each
\* try advancing the hint.  When all are in use the hint has gone full circle.
allocate_id(id) ==
    \/ \E k \in 0 .. (PROTO_SENSOR_ID_MAX - 1) :
        /\ \A j \in 0 .. (k - 1) : id_in_use(IdAfter(next_id_hint, j))
        /\ ~id_in_use(IdAfter(next_id_hint, k))
        /\ id = IdAfter(next_id_hint, k)
        /\ next_id_hint' = IdAfter(next_id_hint, k + 1)
    \/ /\ \A j \in 0 .. (PROTO_SENSOR_ID_MAX - 1) : id_in_use(IdAfter(next_id_hint, j))
       /\ id = PROTO_SENSOR_ID_NONE
       /\ UNCHANGED next_id_hint

SlotFree(i) == slots[i].id = PROTO_SENSOR_ID_NONE

TableFull == \A i \in SlotIndex : ~SlotFree(i)

\* sensor_manager_register: the lowest free slot receives a fresh id; a full
\* table returns NONE before the hint is touched.
sensor_manager_register(protocol_id, internal_id, id) ==
    \/ /\ TableFull
       /\ id = PROTO_SENSOR_ID_NONE
       /\ UNCHANGED managerVars
    \/ \E i \in SlotIndex :
        /\ SlotFree(i)
        /\ \A j \in 0 .. (i - 1) : ~SlotFree(j)
        /\ allocate_id(id)
        /\ slots' = IF id = PROTO_SENSOR_ID_NONE
                    THEN slots
                    ELSE [slots EXCEPT ![i] = [id |-> id,
                                               protocol_id |-> protocol_id,
                                               internal_id |-> internal_id]]

\* sensor_manager_lookup: the slot index for an id, or -1 for NULL.
sensor_manager_lookup(id) ==
    IF id = PROTO_SENSOR_ID_NONE \/ ~id_in_use(id)
    THEN -1
    ELSE CHOOSE i \in SlotIndex : /\ slots[i].id = id
                                  /\ \A j \in 0 .. (i - 1) : slots[j].id # id

\* sensor_manager_release: clears the slot; nothing happens for an unknown id.
sensor_manager_release(id) ==
    LET i == sensor_manager_lookup(id)
    IN  /\ slots' = IF i = -1 THEN slots ELSE [slots EXCEPT ![i] = FreeSlot]
        /\ UNCHANGED next_id_hint
=============================================================================
