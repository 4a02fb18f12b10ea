-------------------------------- MODULE Dac --------------------------------
(***************************************************************************)
(* The DAC backend (stm32/project/simulate/dac/src/dac_sensor.c): at most  *)
(* one DAC8568 chip per SPI peripheral, brought up by its first channel    *)
(* and torn down with its last.                                            *)
(*                                                                         *)
(* A pin is a <<port, number>> pair; a disabled LDAC is <<"NULL", n>>,     *)
(* where n is whatever the ignored ldac_pin byte of the request holds.     *)
(***************************************************************************)
EXTENDS Backend, SpiPort

CONSTANTS
    DAC_CHANNELS_PER_CHIP,  \* 8 in the firmware
    DacCfgs,    \* [check, periph, clock, mosi, sck, cs, ldac, channel, reference]
    DacValues   \* set-output requests: [check]

DacChannels == 0 .. (DAC_CHANNELS_PER_CHIP - 1)

ASSUME DacAssumption ==
    /\ DAC_CHANNELS_PER_CHIP \in Nat \ {0}
    /\ DacCfgs \subseteq [check : STRING, periph : SpiPeriphs, clock : Nat, mosi : Pins, sck : Pins,
                          cs : Pins, ldac : Pins \cup ({"NULL"} \X Nat), channel : DacChannels,
                          reference : STRING]
    /\ DacValues \subseteq [check : STRING]

VARIABLES
    chips,      \* per SPI peripheral; `clock` stands for the (clock_hz, mode) pair
    dac         \* states[]: [in_use, periph, channel]

dacVars == <<chips, dac>>

DacIndex == 0 .. (SPI_PERIPH_COUNT * DAC_CHANNELS_PER_CHIP - 1)

DacFree == [in_use |-> FALSE, periph |-> 0, channel |-> 0]

\* The fields of a chip that is not initialised are never read: bring-up
\* overwrites them, so teardown goes back to this value.
ChipFree == LET p == CHOOSE q \in Pins : TRUE
            IN  [initialized |-> FALSE, clock |-> 0, mosi |-> p, sck |-> p, cs |-> p,
                 ldac |-> <<"NULL", 0>>, channels_active |-> {}, tx_done |-> FALSE]

DacTypeOK ==
    /\ dac \in [DacIndex -> [in_use : BOOLEAN, periph : SpiPeriphs, channel : DacChannels]]
    /\ chips \in [SpiPeriphs -> [initialized : BOOLEAN, clock : Nat, mosi : Pins, sck : Pins,
                     cs : Pins, ldac : Pins \cup {<<"NULL", 0>>},
                     channels_active : SUBSET DacChannels, tx_done : BOOLEAN]]

dac_sensor_init ==
    /\ dac = [i \in DacIndex |-> DacFree]
    /\ chips = [p \in SpiPeriphs |-> ChipFree]

dac_slot_for(periph, channel) == periph * DAC_CHANNELS_PER_CHIP + channel

\* ldac_en / ldac_enabled
LdacEnabled(r) == r.ldac[1] # "NULL"
LdacPins(r) == IF LdacEnabled(r) THEN {r.ldac} ELSE {}
ChipPins(r) == {r.mosi, r.sck, r.cs} \cup LdacPins(r)

\* What the completion interrupt does to the pins: CS high, LDAC pulsed low
\* and back high.
FrameDone(g, c) ==
    [p \in Pins |-> IF p \in {c.cs} \cup LdacPins(c) THEN [g[p] EXCEPT !.level = "HIGH"] ELSE g[p]]

\* The late completion of the previous transfer falls between CS going low and
\* the busy check: it raises CS again and gives tx_done, so the new transfer
\* starts with CS high and the wait for it ends at once, done or not.
LateWithinWrite(s, c, g) ==
    {[err |-> "ERR_SUCCESS", s |-> [s EXCEPT !.busy = running], c |-> [c EXCEPT !.tx_done = FALSE],
      g |-> FrameDone(g, c)] : running \in IF s.busy THEN BOOLEAN ELSE {}}

\* chip_write: CS goes low and the transfer starts, unless the previous one is
\* still running.  The task then waits for tx_done.  The transfer completes in
\* time (the ISR raises CS and gives tx_done), or the wait ends first: at once
\* when a late completion left tx_done set, else by the 10 ms timeout.
chip_write(s, c, g) ==
    IF spi_master_write_err(s) # "ERR_SUCCESS"
    THEN {[err |-> "ERR_INTERNAL", s |-> s, c |-> c, g |-> drive_level(g, c.cs, "HIGH")]}
         \cup LateWithinWrite(s, c, g)
    ELSE {[err |-> "ERR_SUCCESS", s |-> s, c |-> [c EXCEPT !.tx_done = FALSE],
           g |-> FrameDone(g, c)],
          [err |-> IF c.tx_done THEN "ERR_SUCCESS" ELSE "ERR_INTERNAL",
           s |-> [s EXCEPT !.busy = TRUE], c |-> [c EXCEPT !.tx_done = FALSE],
           g |-> drive_level(g, c.cs, "LOW")]}

\* The peripheral, its chip and the pins become s, c and g; a chip without
\* channels is torn down on the way (chip_teardown).
DacSettle(p, s, c, g) ==
    IF c.channels_active = {}
    THEN /\ spi' = [spi EXCEPT ![p] = spi_master_deinit(s)]
         /\ chips' = [chips EXCEPT ![p] = ChipFree]
         /\ gpio' = gpio_reset_to_defaults(g, ChipPins(c))
    ELSE /\ spi' = [spi EXCEPT ![p] = s]
         /\ chips' = [chips EXCEPT ![p] = c]
         /\ gpio' = g

\* A teardown deletes the chip's semaphore.
DacHeap(h, c) == IF c.channels_active = {} THEN h - 1 ELSE h

DacReject(err) ==
    /\ Reject(err)
    /\ UNCHANGED <<backendVars, spi, dacVars>>

\* The checks of dac_sensor_setup in order.  The LDAC comparison is made even
\* when LDAC is disabled.
dac_setup_err(cfg) ==
    LET c == chips[cfg.periph]
    IN  IF cfg.check # "ERR_SUCCESS" THEN cfg.check
        ELSE IF c.initialized /\ c.clock # cfg.clock THEN "ERR_DAC_CLOCK_MISMATCH"
        ELSE IF /\ c.initialized
                /\ <<c.mosi, c.sck, c.cs, c.ldac>> # <<cfg.mosi, cfg.sck, cfg.cs, cfg.ldac>>
        THEN "ERR_DAC_PIN_MISMATCH"
        ELSE IF \/ c.initialized /\ cfg.channel \in c.channels_active
                \/ dac[dac_slot_for(cfg.periph, cfg.channel)].in_use
        THEN "ERR_DAC_CHANNEL_IN_USE"
        ELSE "ERR_SUCCESS"

\* Second half of dac_sensor_setup, on an initialised chip: the initial value
\* is written and the sensor registered; either may fail and is then undone.
DacAddChannel(cfg, s, c, g, h) ==
    LET p == cfg.periph
        idx == dac_slot_for(p, cfg.channel)
        Undo(w) == DacSettle(p, w.s, w.c, w.g) /\ heap' = DacHeap(h, w.c) /\ UNCHANGED dac
    IN  \E w \in chip_write(s, c, g) :
        \/ /\ w.err # "ERR_SUCCESS"
           /\ Reject(w.err) /\ Undo(w) /\ UNCHANGED managerVars
        \/ /\ w.err = "ERR_SUCCESS"
           /\ \E id \in MaybeId :
                /\ sensor_manager_register("DAC", idx, id)
                /\ IF id = PROTO_SENSOR_ID_NONE
                   THEN Reject("ERR_OUT_OF_RESOURCES") /\ Undo(w)
                   ELSE /\ Return("ERR_SUCCESS", id)
                        /\ DacSettle(p, w.s, [w.c EXCEPT !.channels_active = @ \cup {cfg.channel}], w.g)
                        /\ dac' = [dac EXCEPT ![idx] = [in_use |-> TRUE, periph |-> p,
                                                        channel |-> cfg.channel]]
                        /\ heap' = h

\* First half, on a chip that is not initialised: pins, semaphore, SPI master,
\* and the reference command unless the reference is external.
DacBringUp(cfg) ==
    LET p == cfg.periph
        Ldac(g) == IF LdacEnabled(cfg) THEN gpio_configure_output(g, cfg.ldac, "HIGH") ELSE g
        g1 == Ldac(gpio_configure_output(gpio_configure_af(gpio, {cfg.mosi, cfg.sck}), cfg.cs, "HIGH"))
        s1 == spi_master_init(spi[p])
        c1 == [initialized |-> TRUE, clock |-> cfg.clock, mosi |-> cfg.mosi, sck |-> cfg.sck,
               cs |-> cfg.cs, ldac |-> IF LdacEnabled(cfg) THEN cfg.ldac ELSE <<"NULL", 0>>,
               channels_active |-> {}, tx_done |-> FALSE]
    IN  \/ /\ spi_claim_err(spi[p]) # "ERR_SUCCESS"
           /\ Reject("ERR_INVALID_PARAMETER")
           /\ gpio' = gpio_reset_to_defaults(g1, ChipPins(cfg))
           /\ UNCHANGED <<managerVars, heap, spi, dacVars>>
        \/ /\ spi_claim_err(spi[p]) = "ERR_SUCCESS"
           /\ IF cfg.reference = "EXTERNAL"
              THEN DacAddChannel(cfg, s1, c1, g1, heap + 1)
              ELSE \E w \in chip_write(s1, c1, g1) :
                     IF w.err = "ERR_SUCCESS"
                     THEN DacAddChannel(cfg, w.s, w.c, w.g, heap + 1)
                     ELSE /\ Reject(w.err)
                          /\ DacSettle(p, w.s, w.c, w.g)
                          /\ heap' = DacHeap(heap + 1, c1)
                          /\ UNCHANGED <<managerVars, dac>>

dac_sensor_setup(cfg) ==
    IF dac_setup_err(cfg) # "ERR_SUCCESS" THEN DacReject(dac_setup_err(cfg))
    ELSE IF chips[cfg.periph].initialized
    THEN DacAddChannel(cfg, spi[cfg.periph], chips[cfg.periph], gpio, heap)
    ELSE DacBringUp(cfg)

dac_values_err(idx, v) ==
    IF ~dac[idx].in_use THEN "ERR_INVALID_SENSOR_ID"
    ELSE IF v.check # "ERR_SUCCESS" THEN v.check
    ELSE IF ~chips[dac[idx].periph].initialized THEN "ERR_INTERNAL"
    ELSE "ERR_SUCCESS"

dac_sensor_set_output(idx, v) ==
    IF dac_values_err(idx, v) # "ERR_SUCCESS" THEN DacReject(dac_values_err(idx, v))
    ELSE LET p == dac[idx].periph
         IN  \E w \in chip_write(spi[p], chips[p], gpio) :
             /\ Return(w.err, PROTO_SENSOR_ID_NONE)
             /\ spi' = [spi EXCEPT ![p] = w.s]
             /\ chips' = [chips EXCEPT ![p] = w.c]
             /\ gpio' = w.g
             /\ UNCHANGED <<managerVars, heap, dac>>

\* A mutation: the teardown runs whenever a channel stops.
dac_sensor_stop_eager(idx) ==
    LET p == dac[idx].periph
    IN  /\ Return("ERR_SUCCESS", PROTO_SENSOR_ID_NONE)
        /\ dac' = [dac EXCEPT ![idx] = DacFree]
        /\ DacSettle(p, spi[p], [chips[p] EXCEPT !.channels_active = {}], gpio)
        /\ heap' = heap - 1

dac_sensor_stop(idx) ==
    IF ~dac[idx].in_use
    THEN Reject("ERR_INVALID_SENSOR_ID") /\ UNCHANGED <<heap, gpio, spi, dacVars>>
    ELSE LET p == dac[idx].periph
             c == [chips[p] EXCEPT !.channels_active = @ \ {dac[idx].channel}]
         IN  /\ Return("ERR_SUCCESS", PROTO_SENSOR_ID_NONE)
             /\ dac' = [dac EXCEPT ![idx] = DacFree]
             /\ DacSettle(p, spi[p], c, gpio)
             /\ heap' = DacHeap(heap, c)

\* A transfer that outlived its wait completes (spi_master_isr, then
\* spi_done_callback).
spi_done_callback(p) ==
    /\ spi[p].busy
    /\ spi' = [spi EXCEPT ![p].busy = FALSE]
    /\ chips' = [chips EXCEPT ![p].tx_done = TRUE]
    /\ gpio' = FrameDone(gpio, chips[p])
    /\ UNCHANGED <<managerVars, heap, dac, ret>>
=============================================================================
