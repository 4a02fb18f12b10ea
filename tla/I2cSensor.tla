----------------------------- MODULE I2cSensor -----------------------------
(***************************************************************************)
(* The I2C-slave backend (stm32/project/simulate/i2c/src/i2c_sensor.c) and *)
(* what it sees of the driver below it (drivers/i2c_slave).                *)
(*                                                                         *)
(* A sensor owns one peripheral, of the same index, two pins and a         *)
(* register map on the heap, which the driver's interrupt reads and writes *)
(* as long as it is bound to it.                                           *)
(***************************************************************************)
EXTENDS Backend, Sequences

CONSTANTS
    I2C_SENSOR_MAX_COUNT,   \* 3 in the firmware
    I2cCfgs,    \* setup: [check, pins, register_count, preset_start, preset]; <<>> = no preset
    I2cValues   \* set-output: [check, reg_start, values]

\* An empty register map does not pass validate_cfg.
ASSUME I2cAssumption ==
    /\ I2C_SENSOR_MAX_COUNT \in Nat \ {0}
    /\ I2cCfgs \subseteq [check : STRING, pins : SUBSET Pins, register_count : Nat \ {0},
                          preset_start : Nat, preset : Seq(Nat)]
    /\ I2cValues \subseteq [check : STRING, reg_start : Nat, values : Seq(Nat)]

VARIABLES
    i2c,        \* i2c_sensor_states[]: [in_use, pins, regmap]; <<>> = NULL
    i2c_slave   \* the driver, per peripheral: [initialized, bound]

i2cVars == <<i2c, i2c_slave>>

I2cIndex == 0 .. (I2C_SENSOR_MAX_COUNT - 1)

I2cFree == [in_use |-> FALSE, pins |-> {}, regmap |-> <<>>]
I2cOff  == [initialized |-> FALSE, bound |-> FALSE]

\* i2c_slave_init on a free peripheral: it now serves the caller's register map.
i2c_slave_init == [initialized |-> TRUE, bound |-> TRUE]

I2cTypeOK ==
    /\ i2c \in [I2cIndex -> [in_use : BOOLEAN, pins : SUBSET Pins, regmap : Seq(Nat)]]
    /\ i2c_slave \in [I2cIndex -> [initialized : BOOLEAN, bound : BOOLEAN]]

i2c_sensor_init ==
    /\ i2c = [i \in I2cIndex |-> I2cFree]
    /\ i2c_slave = [i \in I2cIndex |-> I2cOff]

i2c_alloc_slot ==
    {i \in I2cIndex : ~i2c[i].in_use /\ \A j \in 0 .. (i - 1) : i2c[j].in_use}

\* memcpy of values into a register map, from (0-based) register start.
Patch(regmap, start, values) ==
    [r \in DOMAIN regmap |-> IF r \in (start + 1) .. (start + Len(values))
                             THEN values[r - start] ELSE regmap[r]]

\* validate_cfg and the length checks (cfg.check), then the preset's range.
i2c_validate_cfg(cfg) ==
    IF cfg.check # "ERR_SUCCESS" THEN cfg.check
    ELSE IF cfg.preset_start + Len(cfg.preset) > cfg.register_count THEN "ERR_I2C_REGISTER_OOB"
    ELSE "ERR_SUCCESS"

I2cReject(err) ==
    /\ Reject(err)
    /\ UNCHANGED <<backendVars, i2cVars>>

\* A mutation: the rollback of a full table forgets to free the register map.
I2cInstall_leaks_regmap(cfg, idx) ==
    \E id \in MaybeId :
        /\ sensor_manager_register("I2C", idx, id)
        /\ heap' = heap + 1
        /\ IF id = PROTO_SENSOR_ID_NONE
           THEN /\ Reject("ERR_OUT_OF_RESOURCES")
                /\ gpio' = gpio_reset_to_defaults(gpio, cfg.pins)
                /\ UNCHANGED i2cVars
           ELSE /\ Return("ERR_SUCCESS", id)
                /\ gpio' = gpio_configure_af(gpio, cfg.pins)
                /\ i2c_slave' = [i2c_slave EXCEPT ![idx] = i2c_slave_init]
                /\ i2c' = [i2c EXCEPT ![idx] = [in_use |-> TRUE, pins |-> cfg.pins,
                      regmap |-> [r \in 1 .. cfg.register_count |-> 0]]]

\* The register map is there: load the preset, set up the pins, start the
\* driver, register; without an id the driver is stopped and all is freed.
I2cInstall(cfg, idx) ==
    \E id \in MaybeId :
        /\ sensor_manager_register("I2C", idx, id)
        /\ IF id = PROTO_SENSOR_ID_NONE
           THEN /\ Reject("ERR_OUT_OF_RESOURCES")
                /\ gpio' = gpio_reset_to_defaults(gpio, cfg.pins)
                /\ i2c' = [i2c EXCEPT ![idx] = I2cFree]
                /\ i2c_slave' = [i2c_slave EXCEPT ![idx] = I2cOff]
                /\ UNCHANGED heap
           ELSE /\ Return("ERR_SUCCESS", id)
                /\ gpio' = gpio_configure_af(gpio, cfg.pins)
                /\ i2c' = [i2c EXCEPT ![idx] = [in_use |-> TRUE, pins |-> cfg.pins,
                      regmap |-> Patch([r \in 1 .. cfg.register_count |-> 0],
                                       cfg.preset_start, cfg.preset)]]
                /\ i2c_slave' = [i2c_slave EXCEPT ![idx] = i2c_slave_init]
                /\ heap' = heap + 1

\* i2c_slave_init refuses a peripheral that is already initialised; the pins
\* and the register map are then given back.
I2cDriverBusy(cfg, idx) ==
    /\ Reject("ERR_PERIPHERAL_BUSY")
    /\ gpio' = gpio_reset_to_defaults(gpio, cfg.pins)
    /\ i2c' = [i2c EXCEPT ![idx] = I2cFree]
    /\ UNCHANGED <<managerVars, heap, i2c_slave>>

i2c_sensor_setup(cfg) ==
    IF i2c_alloc_slot = {} THEN I2cReject("ERR_I2C_NO_FREE_PERIPHERAL")
    ELSE IF i2c_validate_cfg(cfg) # "ERR_SUCCESS" THEN I2cReject(i2c_validate_cfg(cfg))
    ELSE \E idx \in i2c_alloc_slot :
         IF i2c_slave[idx].initialized THEN I2cDriverBusy(cfg, idx) ELSE I2cInstall(cfg, idx)

i2c_values_err(idx, v) ==
    IF ~i2c[idx].in_use THEN "ERR_INVALID_SENSOR_ID"
    ELSE IF v.check # "ERR_SUCCESS" THEN v.check
    ELSE IF \/ v.reg_start > Len(i2c[idx].regmap)
            \/ Len(v.values) > Len(i2c[idx].regmap) - v.reg_start
    THEN "ERR_I2C_REGISTER_OOB"
    ELSE "ERR_SUCCESS"

i2c_sensor_set_output(idx, v) ==
    IF i2c_values_err(idx, v) # "ERR_SUCCESS" THEN I2cReject(i2c_values_err(idx, v))
    ELSE /\ Return("ERR_SUCCESS", PROTO_SENSOR_ID_NONE)
         /\ i2c' = [i2c EXCEPT ![idx].regmap = Patch(@, v.reg_start, v.values)]
         /\ UNCHANGED <<backendVars, i2c_slave>>

\* i2c_sensor_stop: driver off, pins reset, then free_slot.
i2c_sensor_stop(idx) ==
    IF ~i2c[idx].in_use
    THEN Reject("ERR_INVALID_SENSOR_ID") /\ UNCHANGED <<heap, gpio, i2cVars>>
    ELSE /\ Return("ERR_SUCCESS", PROTO_SENSOR_ID_NONE)
         /\ i2c_slave' = [i2c_slave EXCEPT ![idx] = I2cOff]
         /\ gpio' = gpio_reset_to_defaults(gpio, i2c[idx].pins)
         /\ i2c' = [i2c EXCEPT ![idx] = I2cFree]
         /\ heap' = heap - 1
=============================================================================
