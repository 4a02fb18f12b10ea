------------------------------ MODULE Backend ------------------------------
(***************************************************************************)
(* What the five sensor backends under stm32/project/simulate share: the   *)
(* sensor table, the GPIO pins, the FreeRTOS heap and the shape of a call. *)
(*                                                                         *)
(* A backend call is one step: only the protocol task makes it, and the    *)
(* interrupts and timer callbacks it races with are steps of their own.    *)
(* Its outcome, the err_code_t and the sensor id it returns, is in `ret`.  *)
(*                                                                         *)
(* Allocations succeed: FreeRTOS calls vApplicationMallocFailedHook, which *)
(* halts the firmware, before a failing one could return NULL to the error *)
(* exits the backends have for it, and the blocks that can be live at once *)
(* (Dispatcher!SensorsAccounted) fill a small part of the 32 KB heap.      *)
(***************************************************************************)
EXTENDS SensorManager, Gpio

VARIABLES
    heap,   \* number of live blocks: register maps, semaphores, timers
    ret     \* what the last backend call returned

backendVars == <<managerVars, gpio, heap>>

Return(err, id) == ret' = [err |-> err, id |-> id]

Reject(err) == Return(err, PROTO_SENSOR_ID_NONE)

BackendInit ==
    /\ sensor_manager_init
    /\ GpioInit
    /\ heap = 0
    /\ ret = [err |-> "ERR_SUCCESS", id |-> PROTO_SENSOR_ID_NONE]

MaybeId == SensorId \cup {PROTO_SENSOR_ID_NONE}
=============================================================================
