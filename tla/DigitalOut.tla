----------------------------- MODULE DigitalOut -----------------------------
(***************************************************************************)
(* The digital-output backend                                              *)
(* (stm32/project/simulate/digital_out/src/digital_out_sensor.c).          *)
(*                                                                         *)
(* A pin with an optional one-shot pulse, timed by a FreeRTOS timer or by  *)
(* a hardware timer.  Setting an output is one step here.                  *)
(***************************************************************************)
EXTENDS Backend, HwTimer

CONSTANTS
    DIGITAL_OUT_SENSOR_MAX_COUNT,   \* 8 in the firmware
    DoutCfgs,       \* setup requests: [check, pin, initial_level, timer_kind, timer_id]
    DoutValues      \* set-output requests: [check, level, pulse_us]

\* `check` is what the length and range checks of a request return; its other
\* fields are in range, and read only when those checks pass.
ASSUME DoutAssumption ==
    /\ DIGITAL_OUT_SENSOR_MAX_COUNT \in Nat \ {0}
    /\ DoutCfgs \subseteq [check : STRING, pin : Pins, initial_level : Level,
                           timer_kind : {"SOFTWARE", "HARDWARE"}, timer_id : Timers]
    /\ DoutValues \subseteq [check : STRING, level : Level, pulse_us : Nat]

VARIABLES
    dout,           \* states[]
    dout_pins       \* pin_owned: the pins of live digital outputs

doutVars == <<dout, dout_pins>>

DoutIndex == 0 .. (DIGITAL_OUT_SENSOR_MAX_COUNT - 1)

\* pin, timer_kind and timer_id of a slot that is not in use are never read:
\* validate_cfg overwrites them before the slot is used.
DoutFree == [in_use |-> FALSE, pin |-> CHOOSE p \in Pins : TRUE, timer_kind |-> "SOFTWARE",
             timer_id |-> 0, sw_timer |-> "NULL", revert |-> "LOW"]

DoutState == [in_use : BOOLEAN, pin : Pins, timer_kind : {"SOFTWARE", "HARDWARE"},
              timer_id : Timers, sw_timer : {"NULL", "STOPPED", "RUNNING"}, revert : Level]

DoutTypeOK == dout \in [DoutIndex -> DoutState] /\ dout_pins \subseteq Pins

digital_out_sensor_init ==
    /\ dout = [i \in DoutIndex |-> DoutFree]
    /\ dout_pins = {}

\* alloc_slot: the lowest index not in use, as a set with at most one element.
dout_alloc_slot ==
    {i \in DoutIndex : ~dout[i].in_use /\ \A j \in 0 .. (i - 1) : dout[j].in_use}

\* A mutation: pin ownership is not checked.
dout_validate_cfg_no_conflict(cfg) == cfg.check

\* validate_cfg: the length and range checks (abstracted to the code they
\* return, cfg.check), then pin ownership.
dout_validate_cfg(cfg) ==
    IF cfg.check # "ERR_SUCCESS" THEN cfg.check
    ELSE IF cfg.pin \in dout_pins THEN "ERR_PIN_CONFLICT"
    ELSE "ERR_SUCCESS"

DoutReject(err) ==
    /\ Reject(err)
    /\ UNCHANGED <<backendVars, timers, doutVars>>

\* hw_timer_pulse_acquire returns an err_code_t whose ERR_SUCCESS is 0, and the
\* caller tests it with `!`: a successful acquisition takes the error exit and
\* leaves the timer in PULSE mode, a refused one goes on.
DoutTimerAcquired(cfg) ==
    /\ cfg.timer_kind = "HARDWARE"
    /\ hw_timer_pulse_acquire_err(cfg.timer_id) = "ERR_SUCCESS"

DoutLeakTimer(cfg, idx) ==
    /\ DoutTimerAcquired(cfg)
    /\ timers' = hw_timer_pulse_acquire(cfg.timer_id, idx)
    /\ Reject("ERR_OUT_OF_RESOURCES")
    /\ UNCHANGED <<backendVars, doutVars>>

\* A mutation: when the table is full the pin stays reserved.
DoutInstall_leaks_pin(cfg, idx) ==
    /\ ~DoutTimerAcquired(cfg)
    /\ UNCHANGED heap
    /\ \E id \in MaybeId :
        /\ sensor_manager_register("DIGITAL_OUT", idx, id)
        /\ Return(IF id = PROTO_SENSOR_ID_NONE THEN "ERR_OUT_OF_RESOURCES" ELSE "ERR_SUCCESS", id)
        /\ dout_pins' = dout_pins \cup {cfg.pin}
        /\ timers' = timers
        /\ IF id = PROTO_SENSOR_ID_NONE
           THEN UNCHANGED <<dout, gpio>>
           ELSE /\ gpio' = gpio_configure_output(gpio, cfg.pin, cfg.initial_level)
                /\ dout' = [dout EXCEPT ![idx] = [DoutFree EXCEPT !.in_use = TRUE,
                       !.pin = cfg.pin, !.timer_kind = cfg.timer_kind, !.timer_id = cfg.timer_id]]

\* The pin is taken and driven, then the sensor registered; without an id all
\* of it is rolled back (the timer bound to this index is released as well).
DoutInstall(cfg, idx) ==
    /\ ~DoutTimerAcquired(cfg)
    /\ UNCHANGED heap
    /\ \E id \in MaybeId :
        /\ sensor_manager_register("DIGITAL_OUT", idx, id)
        /\ IF id = PROTO_SENSOR_ID_NONE
           THEN /\ Return("ERR_OUT_OF_RESOURCES", id)
                /\ gpio' = gpio_reset_to_defaults(
                             gpio_configure_output(gpio, cfg.pin, cfg.initial_level), {cfg.pin})
                /\ timers' = IF cfg.timer_kind = "HARDWARE"
                             THEN hw_timer_pulse_release(idx) ELSE timers
                /\ UNCHANGED doutVars
           ELSE /\ Return("ERR_SUCCESS", id)
                /\ gpio' = gpio_configure_output(gpio, cfg.pin, cfg.initial_level)
                /\ dout_pins' = dout_pins \cup {cfg.pin}
                /\ dout' = [dout EXCEPT ![idx] = [DoutFree EXCEPT !.in_use = TRUE,
                       !.pin = cfg.pin, !.timer_kind = cfg.timer_kind, !.timer_id = cfg.timer_id]]
                /\ UNCHANGED timers

digital_out_sensor_setup(cfg) ==
    IF dout_alloc_slot = {} THEN DoutReject("ERR_OUT_OF_RESOURCES")
    ELSE IF dout_validate_cfg(cfg) # "ERR_SUCCESS" THEN DoutReject(dout_validate_cfg(cfg))
    ELSE \E idx \in dout_alloc_slot : DoutLeakTimer(cfg, idx) \/ DoutInstall(cfg, idx)

\* Checks of digital_out_sensor_set_output, in order.
dout_values_err(idx, v) ==
    IF ~dout[idx].in_use THEN "ERR_INVALID_SENSOR_ID"
    ELSE IF v.check # "ERR_SUCCESS" THEN v.check
    ELSE IF dout[idx].timer_kind = "HARDWARE" /\ v.pulse_us > hw_timer_pulse_max_us(idx)
    THEN "ERR_INVALID_PARAMETER"
    ELSE "ERR_SUCCESS"

\* A mutation: the level is driven under a running software timer.
DoutHold_keeps_timer(idx, v) ==
    /\ v.pulse_us = 0
    /\ gpio' = drive_level(gpio, dout[idx].pin, v.level)
    /\ Return("ERR_SUCCESS", PROTO_SENSOR_ID_NONE)
    /\ UNCHANGED <<timers, heap, dout>>

\* A software timer is stopped before the level is driven.
DoutHold(idx, v) ==
    /\ v.pulse_us = 0
    /\ dout' = [dout EXCEPT ![idx].sw_timer = IF @ = "NULL" THEN @ ELSE "STOPPED"]
    /\ gpio' = drive_level(gpio, dout[idx].pin, v.level)
    /\ Return("ERR_SUCCESS", PROTO_SENSOR_ID_NONE)
    /\ UNCHANGED <<timers, heap>>

\* Hardware pulse.  The result of hw_timer_pulse_start is tested with `!` too:
\* an armed pulse is reported as ERR_INTERNAL.
DoutHwPulse(idx, v) ==
    /\ v.pulse_us # 0
    /\ dout[idx].timer_kind = "HARDWARE"
    /\ dout' = [dout EXCEPT ![idx].revert = Opposite(v.level)]
    /\ gpio' = drive_level(gpio, dout[idx].pin, v.level)
    /\ timers' = hw_timer_pulse_start(idx, v.pulse_us)
    /\ UNCHANGED heap
    /\ Return(IF hw_timer_pulse_start_err(idx, v.pulse_us) = "ERR_SUCCESS"
              THEN "ERR_INTERNAL" ELSE "ERR_SUCCESS", PROTO_SENSOR_ID_NONE)

\* Software pulse: the timer is created on first use and started.  xTimerStop,
\* xTimerChangePeriod and xTimerStart only post to the timer queue, but the
\* timer service task has the highest priority and drains it before the call
\* returns, so the queue-full exit is never taken.
DoutSwPulse(idx, v) ==
    /\ v.pulse_us # 0
    /\ dout[idx].timer_kind = "SOFTWARE"
    /\ gpio' = drive_level(gpio, dout[idx].pin, v.level)
    /\ dout' = [dout EXCEPT ![idx].revert = Opposite(v.level), ![idx].sw_timer = "RUNNING"]
    /\ heap' = IF dout[idx].sw_timer = "NULL" THEN heap + 1 ELSE heap
    /\ Return("ERR_SUCCESS", PROTO_SENSOR_ID_NONE)
    /\ UNCHANGED timers

digital_out_sensor_set_output(idx, v) ==
    IF dout_values_err(idx, v) # "ERR_SUCCESS"
    THEN DoutReject(dout_values_err(idx, v))
    ELSE /\ UNCHANGED <<managerVars, dout_pins>>
         /\ DoutHold(idx, v) \/ DoutHwPulse(idx, v) \/ DoutSwPulse(idx, v)

\* A mutation: stop forgets to release the hardware timer.
digital_out_sensor_stop_keeps_timer(idx) ==
    /\ Return("ERR_SUCCESS", PROTO_SENSOR_ID_NONE)
    /\ gpio' = gpio_reset_to_defaults(gpio, {dout[idx].pin})
    /\ dout_pins' = dout_pins \ {dout[idx].pin}
    /\ dout' = [dout EXCEPT ![idx] = DoutFree]
    /\ heap' = IF dout[idx].sw_timer = "NULL" THEN heap ELSE heap - 1
    /\ UNCHANGED timers

digital_out_sensor_stop(idx) ==
    IF ~dout[idx].in_use
    THEN /\ Reject("ERR_INVALID_SENSOR_ID")
         /\ UNCHANGED <<timers, gpio, heap, doutVars>>
    ELSE /\ Return("ERR_SUCCESS", PROTO_SENSOR_ID_NONE)
         /\ timers' = IF dout[idx].timer_kind = "HARDWARE"
                      THEN hw_timer_pulse_release(idx) ELSE timers
         /\ gpio' = gpio_reset_to_defaults(gpio, {dout[idx].pin})
         /\ dout_pins' = dout_pins \ {dout[idx].pin}
         /\ heap' = IF dout[idx].sw_timer = "NULL" THEN heap ELSE heap - 1
         /\ dout' = [dout EXCEPT ![idx] = DoutFree]

\* revert_to_idle_level: the pin goes to the level recorded by the last pulse.
revert_to_idle_level(idx) ==
    gpio' = IF idx \in DoutIndex /\ dout[idx].in_use
            THEN drive_level(gpio, dout[idx].pin, dout[idx].revert) ELSE gpio

\* The FreeRTOS timer of a sensor expires (sw_timer_callback).
sw_timer_callback(idx) ==
    /\ dout[idx].sw_timer = "RUNNING"
    /\ dout' = [dout EXCEPT ![idx].sw_timer = "STOPPED"]
    /\ revert_to_idle_level(idx)
    /\ UNCHANGED <<managerVars, timers, heap, dout_pins, ret>>

\* The update interrupt of an armed pulse timer (handle_pulse_isr, one-shot).
handle_pulse_isr(t) ==
    /\ timers[t].state = "PULSE" /\ timers[t].armed
    /\ timers' = [timers EXCEPT ![t].armed = FALSE]
    /\ revert_to_idle_level(timers[t].token)
    /\ UNCHANGED <<managerVars, heap, doutVars, ret>>
=============================================================================
