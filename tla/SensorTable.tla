---------------------------- MODULE SensorTable ----------------------------
(***************************************************************************)
(* The sensor table of module SensorManager on its own, driven by an       *)
(* arbitrary sequence of registrations and releases, with the history      *)
(* needed to say when an id may be handed out again.                       *)
(***************************************************************************)
EXTENDS SensorManager

VARIABLE age     \* history: ids handed out since each id was last handed out

tableVars == <<slots, next_id_hint, age>>

\* Bound of the history variable: the properties tell no larger ages apart.
AgeBound == PROTO_SENSOR_ID_MAX

\* Every variable has its type.
TableTypeOK ==
    /\ slots \in [SlotIndex -> Slot]
    /\ next_id_hint \in SensorId
    /\ age \in [SensorId -> 0 .. AgeBound]

TableInit ==
    /\ sensor_manager_init
    /\ age = [id \in SensorId |-> AgeBound]

Older(a) == IF a < AgeBound THEN a + 1 ELSE a

\* A backend's setup registers a sensor.
Register(protocol_id, internal_id) ==
    \E id \in SensorId \cup {PROTO_SENSOR_ID_NONE} :
        /\ sensor_manager_register(protocol_id, internal_id, id)
        /\ IF id = PROTO_SENSOR_ID_NONE
           THEN UNCHANGED age
           ELSE age' = [i \in SensorId |-> IF i = id THEN 0 ELSE Older(age[i])]

\* handle_stop releases an id the host sent, live or not.
Release(id) ==
    /\ sensor_manager_release(id)
    /\ UNCHANGED age

TableNext ==
    \/ \E p \in ProtocolIds, n \in InternalIds : Register(p, n)
    \/ \E id \in SensorId \cup {PROTO_SENSOR_ID_NONE} : Release(id)

TableSpec == TableInit /\ [][TableNext]_tableVars

-----------------------------------------------------------------------------
(* Properties                                                               *)

\* Two slots never carry the same live id, so a lookup of an id the host holds
\* cannot reach another sensor's slot (the id_in_use test in allocate_id,
\* with the hint wrapping over ids that are still live).
UniqueIds ==
    \A i, j \in SlotIndex :
        slots[i].id = slots[j].id /\ slots[i].id # PROTO_SENSOR_ID_NONE => i = j

\* The id is handed out by this step.
Issued(id) == ~id_in_use(id) /\ id_in_use(id)'

\* An id is handed out again only after at least ID_MAX - MAX_SLOTS others:
\* the round robin of allocate_id skips at most the ids that were live when
\* this one was last handed out.  (With 255 ids and 8 slots: 247.)
RecycleGap ==
    [][\A id \in SensorId :
          Issued(id) => age[id] >= PROTO_SENSOR_ID_MAX - SENSOR_MAX_SLOTS]_tableVars
=============================================================================
