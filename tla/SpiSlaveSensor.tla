--------------------------- MODULE SpiSlaveSensor ---------------------------
(***************************************************************************)
(* The SPI-slave backend                                                   *)
(* (stm32/project/simulate/spi_slave/src/spi_slave_sensor.c): one sensor   *)
(* per SPI peripheral, serving a buffer to the device under test.          *)
(***************************************************************************)
EXTENDS Backend, SpiPort

CONSTANTS
    SpiSlaveCfgs,       \* setup requests: [check, periph, pins, buf]
    SpiSlaveValues      \* set-output requests: [check, buf]

ASSUME SpiSlaveAssumption ==
    /\ SpiSlaveCfgs \subseteq [check : STRING, periph : SpiPeriphs, pins : SUBSET Pins, buf : SpiTxBufs]
    /\ SpiSlaveValues \subseteq [check : STRING, buf : SpiTxBufs]

VARIABLE spi_slaves     \* states[]: [in_use, pins]; pins = MISO, SCK, NSS and MOSI if enabled

SpiSlaveFree == [in_use |-> FALSE, pins |-> {}]

SpiSlaveTypeOK == spi_slaves \in [SpiPeriphs -> [in_use : BOOLEAN, pins : SUBSET Pins]]

spi_slave_sensor_init == spi_slaves = [p \in SpiPeriphs |-> SpiSlaveFree]

SpiSlaveReject(err) ==
    /\ Reject(err)
    /\ UNCHANGED <<backendVars, spi, spi_slaves>>

\* The peripheral is claimed, the buffer loaded and the sensor registered;
\* without an id sensor_teardown takes it all back.
SpiSlaveInstall(cfg) ==
    \E id \in MaybeId :
        /\ sensor_manager_register("SPI", cfg.periph, id)
        /\ UNCHANGED heap
        /\ IF id = PROTO_SENSOR_ID_NONE
           THEN /\ Reject("ERR_OUT_OF_RESOURCES")
                /\ spi' = [spi EXCEPT ![cfg.periph] = spi_slave_deinit(spi_slave_init(@))]
                /\ gpio' = gpio_reset_to_defaults(gpio, cfg.pins)
                /\ UNCHANGED spi_slaves
           ELSE /\ Return("ERR_SUCCESS", id)
                /\ spi' = [spi EXCEPT ![cfg.periph] = spi_slave_set_tx(spi_slave_init(@), cfg.buf)]
                /\ gpio' = gpio_configure_af(gpio, cfg.pins)
                /\ spi_slaves' = [spi_slaves EXCEPT ![cfg.periph] =
                                     [in_use |-> TRUE, pins |-> cfg.pins]]

\* spi_slave_sensor_setup: the pins are switched to the peripheral before the
\* claim is tried, and reset when it is refused.
spi_slave_sensor_setup(cfg) ==
    IF cfg.check # "ERR_SUCCESS" THEN SpiSlaveReject(cfg.check)
    ELSE IF spi_slaves[cfg.periph].in_use THEN SpiSlaveReject("ERR_PERIPHERAL_BUSY")
    ELSE IF spi_claim_err(spi[cfg.periph]) # "ERR_SUCCESS"
    THEN /\ Reject(spi_claim_err(spi[cfg.periph]))
         /\ gpio' = gpio_reset_to_defaults(gpio, cfg.pins)
         /\ UNCHANGED <<managerVars, heap, spi, spi_slaves>>
    ELSE SpiSlaveInstall(cfg)

spi_slave_values_err(idx, v) ==
    IF ~spi_slaves[idx].in_use THEN "ERR_INVALID_SENSOR_ID"
    ELSE IF v.check # "ERR_SUCCESS" THEN v.check
    ELSE spi_slave_set_tx_err(spi[idx])

spi_slave_sensor_set_output(idx, v) ==
    IF spi_slave_values_err(idx, v) # "ERR_SUCCESS"
    THEN SpiSlaveReject(spi_slave_values_err(idx, v))
    ELSE /\ Return("ERR_SUCCESS", PROTO_SENSOR_ID_NONE)
         /\ spi' = [spi EXCEPT ![idx] = spi_slave_set_tx(@, v.buf)]
         /\ UNCHANGED <<backendVars, spi_slaves>>

spi_slave_sensor_stop(idx) ==
    IF ~spi_slaves[idx].in_use
    THEN Reject("ERR_INVALID_SENSOR_ID") /\ UNCHANGED <<heap, gpio, spi, spi_slaves>>
    ELSE /\ Return("ERR_SUCCESS", PROTO_SENSOR_ID_NONE)
         /\ spi' = [spi EXCEPT ![idx] = spi_slave_deinit(@)]
         /\ gpio' = gpio_reset_to_defaults(gpio, spi_slaves[idx].pins)
         /\ spi_slaves' = [spi_slaves EXCEPT ![idx] = SpiSlaveFree]
         /\ UNCHANGED heap
=============================================================================
