----------------------------- MODULE Dispatcher -----------------------------
(***************************************************************************)
(* The command side of the STM32 firmware: the dispatcher                  *)
(* (stm32/project/command/src/dispatcher.c) over the sensor table and the  *)
(* five sensor backends, with the pulse and SPI interrupts that change     *)
(* state behind its back.                                                  *)
(*                                                                         *)
(* A command is handled in one step of the protocol task.  The answer it   *)
(* sends is left in `ack`.                                                 *)
(***************************************************************************)
EXTENDS DigitalOut, Pwm, Dac, SpiSlaveSensor, I2cSensor

\* The table can name every sensor of every backend.
ASSUME DispatcherAssumption ==
    /\ {"I2C", "DIGITAL_OUT", "PWM", "DAC", "SPI"} \subseteq ProtocolIds
    /\ DoutIndex \cup PwmIndex \cup DacIndex \cup SpiPeriphs \cup I2cIndex \subseteq InternalIds

VARIABLE ack    \* the last answer: [type, error_code, sensor_id]

timerVars == <<timers, doutVars, pwmVars>>
busVars == <<spi, dacVars, spi_slaves, i2cVars>>
vars == <<managerVars, gpio, heap, ret, timerVars, busVars, ack>>

Init ==
    /\ BackendInit
    /\ hw_timer_init
    /\ i2c_sensor_init
    /\ digital_out_sensor_init
    /\ pwm_sensor_init
    /\ SpiInit
    /\ dac_sensor_init
    /\ spi_slave_sensor_init
    /\ ack = [type |-> "NONE", error_code |-> "ERR_SUCCESS", sensor_id |-> PROTO_SENSOR_ID_NONE]

protocol_send_ack(type, err, id) ==
    ack' = [type |-> type, error_code |-> err, sensor_id |-> id]

-----------------------------------------------------------------------------
(* Command handlers                                                         *)

\* Answered without touching the sensors: a sync, a scenario or unknown
\* command, a payload too short for its command, an unsupported protocol.
Answer(type, err) ==
    /\ protocol_send_ack(type, err, PROTO_SENSOR_ID_NONE)
    /\ Reject(err)
    /\ UNCHANGED <<backendVars, timerVars, busVars>>

handle_sync == Answer("SYNC", "ERR_SUCCESS")

HandleOther ==
    \/ Answer("SCENARIO", "ERR_NOT_IMPLEMENTED")
    \/ Answer("UNKNOWN", "ERR_UNKNOWN_CMD")
    \/ Answer("SETUP", "ERR_UNSUPPORTED")
    \/ \E type \in {"SETUP", "SET_OUTPUT", "STOP"} : Answer(type, "ERR_MALFORMED_PAYLOAD")

\* The answer of handle_setup, from what the backend returned.
SetupAck ==
    protocol_send_ack("SETUP", ret'.err,
        IF ret'.err = "ERR_SUCCESS" THEN ret'.id ELSE PROTO_SENSOR_ID_NONE)

SetupI2c(cfg) ==
    /\ i2c_sensor_setup(cfg) /\ SetupAck
    /\ UNCHANGED <<timerVars, spi, dacVars, spi_slaves>>
SetupDigitalOut(cfg) ==
    /\ digital_out_sensor_setup(cfg) /\ SetupAck
    /\ UNCHANGED <<pwmVars, busVars>>
SetupPwm(cfg) ==
    /\ pwm_sensor_setup(cfg) /\ SetupAck
    /\ UNCHANGED <<doutVars, busVars>>
SetupDac(cfg) ==
    /\ dac_sensor_setup(cfg) /\ SetupAck
    /\ UNCHANGED <<timerVars, spi_slaves, i2cVars>>
SetupSpi(cfg) ==
    /\ spi_slave_sensor_setup(cfg) /\ SetupAck
    /\ UNCHANGED <<timerVars, dacVars, i2cVars>>

handle_setup ==
    \/ \E cfg \in I2cCfgs : SetupI2c(cfg)
    \/ \E cfg \in DoutCfgs : SetupDigitalOut(cfg)
    \/ \E cfg \in PwmCfgs : SetupPwm(cfg)
    \/ \E cfg \in DacCfgs : SetupDac(cfg)
    \/ \E cfg \in SpiSlaveCfgs : SetupSpi(cfg)

\* The slot a command's id names.
SlotOf(id) == slots[sensor_manager_lookup(id)]

\* set_output and stop for an id that is not in the table.
UnknownSensor(type, id) ==
    /\ sensor_manager_lookup(id) = -1
    /\ protocol_send_ack(type, "ERR_INVALID_SENSOR_ID", id)
    /\ Reject("ERR_INVALID_SENSOR_ID")
    /\ UNCHANGED <<backendVars, timerVars, busVars>>

Routed(id, protocol_id) ==
    sensor_manager_lookup(id) # -1 /\ SlotOf(id).protocol_id = protocol_id

SetOutputI2c(id, v) ==
    /\ Routed(id, "I2C")
    /\ i2c_sensor_set_output(SlotOf(id).internal_id, v)
    /\ UNCHANGED <<timerVars, spi, dacVars, spi_slaves>>
SetOutputDigitalOut(id, v) ==
    /\ Routed(id, "DIGITAL_OUT")
    /\ digital_out_sensor_set_output(SlotOf(id).internal_id, v)
    /\ UNCHANGED <<pwmVars, busVars>>
SetOutputPwm(id, v) ==
    /\ Routed(id, "PWM")
    /\ pwm_sensor_set_output(SlotOf(id).internal_id, v)
    /\ UNCHANGED <<doutVars, busVars>>
SetOutputDac(id, v) ==
    /\ Routed(id, "DAC")
    /\ dac_sensor_set_output(SlotOf(id).internal_id, v)
    /\ UNCHANGED <<timerVars, spi_slaves, i2cVars>>
SetOutputSpi(id, v) ==
    /\ Routed(id, "SPI")
    /\ spi_slave_sensor_set_output(SlotOf(id).internal_id, v)
    /\ UNCHANGED <<timerVars, dacVars, i2cVars>>

handle_set_output ==
    \E id \in MaybeId :
        \/ UnknownSensor("SET_OUTPUT", id)
        \/ /\ \/ \E v \in I2cValues : SetOutputI2c(id, v)
              \/ \E v \in DoutValues : SetOutputDigitalOut(id, v)
              \/ \E v \in PwmValues : SetOutputPwm(id, v)
              \/ \E v \in DacValues : SetOutputDac(id, v)
              \/ \E v \in SpiSlaveValues : SetOutputSpi(id, v)
           /\ protocol_send_ack("SET_OUTPUT", ret'.err, id)

\* The slot is released only when the backend has stopped the sensor.
ReleaseIfStopped(id) ==
    IF ret'.err = "ERR_SUCCESS" THEN sensor_manager_release(id) ELSE UNCHANGED managerVars

StopI2c(id) ==
    /\ Routed(id, "I2C")
    /\ i2c_sensor_stop(SlotOf(id).internal_id)
    /\ UNCHANGED <<timerVars, spi, dacVars, spi_slaves>>
StopDigitalOut(id) ==
    /\ Routed(id, "DIGITAL_OUT")
    /\ digital_out_sensor_stop(SlotOf(id).internal_id)
    /\ UNCHANGED <<pwmVars, busVars>>
StopPwm(id) ==
    /\ Routed(id, "PWM")
    /\ pwm_sensor_stop(SlotOf(id).internal_id)
    /\ UNCHANGED <<doutVars, busVars>>
StopDac(id) ==
    /\ Routed(id, "DAC")
    /\ dac_sensor_stop(SlotOf(id).internal_id)
    /\ UNCHANGED <<timerVars, spi_slaves, i2cVars>>
StopSpi(id) ==
    /\ Routed(id, "SPI")
    /\ spi_slave_sensor_stop(SlotOf(id).internal_id)
    /\ UNCHANGED <<timerVars, dacVars, i2cVars>>

handle_stop ==
    \E id \in MaybeId :
        \/ UnknownSensor("STOP", id)
        \/ /\ StopI2c(id) \/ StopDigitalOut(id) \/ StopPwm(id) \/ StopDac(id) \/ StopSpi(id)
           /\ ReleaseIfStopped(id)
           /\ protocol_send_ack("STOP", ret'.err, id)

\* dispatcher_handle, on any command.
dispatcher_handle ==
    handle_sync \/ HandleOther \/ handle_setup \/ handle_set_output \/ handle_stop

-----------------------------------------------------------------------------
(* Interrupts and timer callbacks                                           *)

SwPulseExpires == \E i \in DoutIndex : sw_timer_callback(i)
                     /\ UNCHANGED <<pwmVars, busVars, ack>>
HwPulseExpires == \E t \in Timers : handle_pulse_isr(t)
                     /\ UNCHANGED <<pwmVars, busVars, ack>>
LateTransfer == \E p \in SpiPeriphs : spi_done_callback(p)
                     /\ UNCHANGED <<timerVars, spi_slaves, i2cVars, ack>>

Next == dispatcher_handle \/ SwPulseExpires \/ HwPulseExpires \/ LateTransfer

Spec == Init /\ [][Next]_vars

-----------------------------------------------------------------------------
(* Properties                                                               *)

\* Every variable has its type, and a reload value fits its timer's counter.
TypeOK ==
    /\ slots \in [SlotIndex -> Slot] /\ next_id_hint \in SensorId
    /\ GpioTypeOK /\ DoutTypeOK /\ PwmTypeOK /\ SpiTypeOK /\ DacTypeOK /\ SpiSlaveTypeOK /\ I2cTypeOK
    /\ timers \in [Timers -> [state : {"FREE", "PULSE", "PWM"}, token : DoutIndex, armed : BOOLEAN,
                              psc : 0 .. HW_TIMER_PSC_MAX, arr : 0 .. HW_TIMER_ARR_MAX_32,
                              pwm_ref_count : 0 .. HW_TIMER_MAX_CHANNELS]]
    /\ \A t \in Timers : timers[t].arr <= arr_max(t)
    /\ heap \in Nat

LiveSlots == {i \in SlotIndex : ~SlotFree(i)}

\* The (protocol, index) pairs the backends hold for themselves.
BackendSensors ==
    {<<"I2C", i>> : i \in {j \in I2cIndex : i2c[j].in_use}}
    \cup {<<"DIGITAL_OUT", i>> : i \in {j \in DoutIndex : dout[j].in_use}}
    \cup {<<"PWM", i>> : i \in {j \in PwmIndex : pwm[j].in_use}}
    \cup {<<"DAC", i>> : i \in {j \in DacIndex : dac[j].in_use}}
    \cup {<<"SPI", p>> : p \in {q \in SpiPeriphs : spi_slaves[q].in_use}}

\* The table, the backends' own pools and the heap agree: each live id names
\* exactly one sensor in use, each sensor in use has exactly one id, and the
\* live blocks are the register maps, semaphores and software timers sensors
\* point to.  It takes a setup whose rollback forgets a part, or a stop that
\* does half its work, to break it, and only a reset would repair it.
SensorsAccounted ==
    LET sensor(i) == <<slots[i].protocol_id, slots[i].internal_id>>
    IN  /\ {sensor(i) : i \in LiveSlots} = BackendSensors
        /\ \A i, j \in LiveSlots : sensor(i) = sensor(j) => i = j
        /\ heap = Cardinality({i \in I2cIndex : i2c[i].regmap # <<>>})
                  + Cardinality({i \in DoutIndex : dout[i].sw_timer # "NULL"})
                  + Cardinality({p \in SpiPeriphs : chips[p].initialized})

\* A timer runs PWM exactly as long as it has live channels, counts them
\* correctly over any sequence of setups, refusals and stops, and only live
\* channels drive their output (hw_timer_pwm_acquire/_release, channel_*).
PwmTimerOwnership ==
    \A t \in Timers :
        LET live == {c \in Channels : pwm[pwm_slot_for(t, c)].in_use}
        IN  /\ (timers[t].state = "PWM") <=> (live # {})
            /\ timers[t].state = "PWM" => timers[t].pwm_ref_count = Cardinality(live)
            /\ \A c \in Channels : pwm_out[<<t, c>>].enabled <=> c \in live

\* An armed hardware pulse belongs to a live hardware-timed output, so the
\* interrupt never drives the pin of a sensor that took over the index
\* (digital_out_sensor_stop releases the timer before the slot).
ArmedPulseHasOwner ==
    \A t \in Timers : timers[t].armed =>
        /\ timers[t].state = "PULSE"
        /\ dout[timers[t].token].in_use
        /\ dout[timers[t].token].timer_kind = "HARDWARE"

\* The drivers' ownership tables and the sensors tell the same story.  An SPI
\* peripheral is claimed as master exactly while its chip has channels and as
\* slave exactly while a slave sensor is live, a chip's channel mask is the set
\* of its live DAC sensors, and only a claimed master is ever busy; the I2C
\* interrupt serves a peripheral exactly while its sensor is live and its
\* register map allocated ("Deinit before free_slot").
BusOwnership ==
    /\ \A p \in SpiPeriphs :
        /\ (spi[p].role = "MASTER") <=> chips[p].initialized
        /\ chips[p].initialized <=> spi[p].master_init
        /\ chips[p].initialized <=> (chips[p].channels_active # {})
        /\ chips[p].channels_active =
              {c \in DacChannels : dac[dac_slot_for(p, c)].in_use}
        /\ (spi[p].role = "SLAVE") <=> spi_slaves[p].in_use
        /\ spi_slaves[p].in_use <=> spi[p].slave_init
        /\ spi[p].busy => spi[p].role = "MASTER"
    /\ \A i \in I2cIndex :
        /\ i2c_slave[i].initialized <=> i2c[i].in_use
        /\ i2c_slave[i].bound <=> i2c[i].regmap # <<>>
        /\ i2c[i].in_use <=> i2c[i].regmap # <<>>

\* The pins a live sensor has configured, and the mode it needs them in.
UserPins(mode) ==
    IF mode = "OUTPUT"
    THEN {dout[i].pin : i \in {j \in DoutIndex : dout[j].in_use}}
         \cup (UNION {{chips[p].cs} \cup LdacPins(chips[p]) : p \in {q \in SpiPeriphs : chips[q].initialized}})
    ELSE {pwm[i].pin : i \in {j \in PwmIndex : pwm[j].in_use}}
         \cup (UNION {{chips[p].mosi, chips[p].sck} : p \in {q \in SpiPeriphs : chips[q].initialized}})
         \cup (UNION {spi_slaves[p].pins : p \in {q \in SpiPeriphs : spi_slaves[q].in_use}})
         \cup (UNION {i2c[i].pins : i \in {j \in I2cIndex : i2c[j].in_use}})

\* A pin nobody uses is back to floating input, whatever failed or stopped on
\* the way there: the device under test never sees a pin driven by no sensor.
IdlePinsReleased ==
    \A p \in Pins : p \notin UserPins("OUTPUT") \cup UserPins("AF") => gpio[p].mode = "INPUT"

\* A reservation bit stands for exactly one live sensor: no two sensors of one
\* backend share a pin, and no failed setup or stop leaves a bit behind.
PinsReserved ==
    /\ dout_pins = {dout[i].pin : i \in {j \in DoutIndex : dout[j].in_use}}
    /\ pwm_pins = {pwm[i].pin : i \in {j \in PwmIndex : pwm[j].in_use}}
    /\ \A i, j \in DoutIndex : dout[i].in_use /\ dout[j].in_use /\ dout[i].pin = dout[j].pin => i = j
    /\ \A i, j \in PwmIndex : pwm[i].in_use /\ pwm[j].in_use /\ pwm[i].pin = pwm[j].pin => i = j

UsedPins == UserPins("OUTPUT") \cup UserPins("AF")

\* A request that is not refused for its format asks for pins no sensor uses.
AsksFree(cfg, pins) == cfg.check # "ERR_SUCCESS" \/ pins \cap UsedPins = {}

\* A host that asks for free pins, which the firmware does not check.  What a
\* backend checks by itself is left to it: digital outputs and PWM know the
\* pins of their own kind, a second channel has to name its chip's pins, a
\* second slave on a peripheral is refused.  A DAC chip that is brought up is
\* wired with its bus apart from its select lines.
SetupOnFreePins ==
    \/ \E cfg \in I2cCfgs : AsksFree(cfg, cfg.pins) /\ SetupI2c(cfg)
    \/ \E cfg \in DoutCfgs : AsksFree(cfg, {cfg.pin} \ dout_pins) /\ SetupDigitalOut(cfg)
    \/ \E cfg \in PwmCfgs : AsksFree(cfg, {cfg.pin} \ pwm_pins) /\ SetupPwm(cfg)
    \/ \E cfg \in DacCfgs :
          /\ \/ chips[cfg.periph].initialized
             \/ /\ AsksFree(cfg, ChipPins(cfg))
                /\ {cfg.mosi, cfg.sck} \cap ({cfg.cs} \cup LdacPins(cfg)) = {}
          /\ SetupDac(cfg)
    \/ \E cfg \in SpiSlaveCfgs :
          (spi_slaves[cfg.periph].in_use \/ AsksFree(cfg, cfg.pins)) /\ SetupSpi(cfg)

FreePinsNext ==
    \/ SetupOnFreePins
    \/ handle_sync \/ HandleOther \/ handle_set_output \/ handle_stop
    \/ SwPulseExpires \/ HwPulseExpires \/ LateTransfer

FreePinsSpec == Init /\ [][FreePinsNext]_vars

\* Reservations are exact and, as long as the host asks for free pins, each pin
\* is in the mode its sensor configured: no other sensor's setup, refusal or
\* stop takes it away.
PinsAccounted ==
    /\ PinsReserved
    /\ \A p \in UserPins("OUTPUT") : gpio[p].mode = "OUTPUT"
    /\ \A p \in UserPins("AF") : gpio[p].mode = "AF"

\* The level on a live digital output changes only when a set-output for it is
\* handled or its own pulse ends, as long as the host asks for free pins: no
\* command for another sensor, no other pulse and no DAC transfer reaches it.
OutputsIsolated ==
    [][\A i \in DoutIndex :
          dout[i].in_use /\ dout'[i].in_use /\ gpio'[dout[i].pin] # gpio[dout[i].pin] =>
              \/ \E id \in SensorId, v \in DoutValues :
                    SetOutputDigitalOut(id, v) /\ SlotOf(id).internal_id = i
              \/ sw_timer_callback(i)
              \/ \E t \in Timers : timers[t].token = i /\ handle_pulse_isr(t)]_vars

\* What a setup that is answered with an error may not have changed: the
\* table, the sensors in use, the reservations, the channel outputs, the heap.
SensorState ==
    <<managerVars, heap, dout, dout_pins, pwm, pwm_pins, pwm_out, dac, spi_slaves, i2c, i2c_slave>>

\* Answered with success a setup has put a new id into the table, the one in the
\* answer; refused it carries no id the host could use and leaves the table, the
\* five pools, the pin reservations, the PWM channels and the heap as they were
\* (the rollback paths of the five backends, the last of them behind a full
\* table).  Not said here: a refused setup may keep a timer (PulseTimerPinned)
\* and reset pins another sensor uses.
SetupAllOrNothing ==
    [][\A id \in MaybeId :
          ack'.type = "SETUP" /\ id = ack'.sensor_id =>
              \/ IF ack'.error_code = "ERR_SUCCESS"
                 THEN ~id_in_use(id) /\ id_in_use(id)'
                 ELSE id = PROTO_SENSOR_ID_NONE /\ UNCHANGED SensorState
              \/ ~handle_setup   \* the answer is an earlier setup's
       ]_vars

\* A set-output that holds a level was accepted for this digital output.
HoldAccepted(id) ==
    /\ ack' = [type |-> "SET_OUTPUT", error_code |-> "ERR_SUCCESS", sensor_id |-> id]
    /\ \E v \in DoutValues : v.pulse_us = 0 /\ SetOutputDigitalOut(id, v)

PulseInFlight(idx) ==
    \/ dout[idx].sw_timer = "RUNNING"
    \/ \E t \in Timers : timers[t].armed /\ timers[t].token = idx

\* A hold is final on an output timed by a FreeRTOS timer, also while a pulse
\* is in flight: no expiry reverts the held level (set_output stops the timer
\* before it drives the pin).
HoldCancelsSwPulse ==
    [][\A id \in SensorId :
          HoldAccepted(id) /\ dout[SlotOf(id).internal_id].timer_kind = "SOFTWARE" =>
              ~PulseInFlight(SlotOf(id).internal_id)']_vars

\* digital-io-spec.md:97-98: "the firmware reserves the specific timer
\* identified by timer_id at setup time and pins it to this sensor until
\* stop": a timer in pulse mode is pinned to a live hardware-timed output.
PulseTimerPinned ==
    \A t \in Timers : timers[t].state = "PULSE" =>
        \E i \in DoutIndex : dout[i].in_use /\ dout[i].timer_kind = "HARDWARE" /\ dout[i].timer_id = t

\* A duty cycle answered with success is the one on the pin, to within one
\* count of the timer (compute_ccr), unless the counter is wide: there the
\* product may wrap.
DutyWithinOneCount ==
    [][\A id \in SensorId, v \in PwmValues :
          ack'.sensor_id = id /\ ret'.err = "ERR_SUCCESS" /\ SetOutputPwm(id, v) =>
             LET t == pwm[SlotOf(id).internal_id].timer_id
                 c == pwm[SlotOf(id).internal_id].channel
                 diff == pwm_out'[<<t, c>>].ccr * PWM_DUTY_MAX - (timers[t].arr + 1) * v.duty
             IN  t \notin WideTimers => diff <= PWM_DUTY_MAX /\ -diff <= PWM_DUTY_MAX]_vars
=============================================================================
