---------------------------- MODULE MCDispatcher ----------------------------
(***************************************************************************)
(* Small instances of the dispatcher.  Counter widths are scaled down with *)
(* the ratio that matters kept: the product of compute_ccr fits the wide   *)
(* word for a narrow timer and may exceed it for a wide one.               *)
(***************************************************************************)
EXTENDS Dispatcher

MCProtocolIds == {"I2C", "DIGITAL_OUT", "PWM", "DAC", "SPI"}
MCInternalIds == 0 .. 3
NoRequests == {}
NoWide == {}
OneWide == {1}
MCMaxChannel == [t \in Timers |-> IF t = 0 THEN 2 ELSE 1]

PA == <<"A", 0>>
PB == <<"B", 0>>
PC == <<"C", 0>>
PD == <<"D", 0>>
PE == <<"E", 0>>
PF == <<"E", 1>>
Pins6 == {PA, PB, PC, PD, PE, PF}

OK == "ERR_SUCCESS"
Bad == "ERR_MALFORMED_PAYLOAD"

Dout(check, pin, kind, t) ==
    [check |-> check, pin |-> pin, initial_level |-> "LOW", timer_kind |-> kind, timer_id |-> t]
Pw(check, pin, t, c, f) ==
    [check |-> check, pin |-> pin, timer |-> t, channel |-> c, freq_hz |-> f, duty |-> 1]
DacReq(check, clock, cs, ldac, ch, ref) ==
    [check |-> check, periph |-> 0, clock |-> clock, mosi |-> PA, sck |-> PB, cs |-> cs,
     ldac |-> ldac, channel |-> ch, reference |-> ref]
SpiReq(check, pins) == [check |-> check, periph |-> 0, pins |-> pins, buf |-> "b0"]
I2cReq(check, pins, n, start, preset) ==
    [check |-> check, pins |-> pins, register_count |-> n, preset_start |-> start, preset |-> preset]

-----------------------------------------------------------------------------
(* The requests overlap, so that which of them can be made depends on the   *)
(* live sensors: a DAC chip on pins A-D, an SPI slave on the same           *)
(* peripheral, PWM channels on three of the chip's pins and on E, digital   *)
(* outputs on two pins of one port, I2C slaves on the same two.             *)

MCDoutCfgs == {Dout(OK, PE, "SOFTWARE", 0), Dout(OK, PF, "HARDWARE", 0), Dout(Bad, PE, "SOFTWARE", 0)}
MCDoutValues ==
    {[check |-> OK, level |-> "HIGH", pulse_us |-> u] : u \in {0, 1, HW_TIMER_ARR_MAX_16 + 1}}
    \cup {[check |-> Bad, level |-> "LOW", pulse_us |-> 0]}

\* At 2 Hz the period of 6 does not divide into the 4 counts of the narrow timer:
\* the prescaler has to round up.
MCPwmCfgs == {Pw(OK, PC, 0, 1, 1), Pw(OK, PD, 0, 2, 1), Pw(OK, PD, 0, 2, 2), Pw(OK, PD, 1, 2, 1),
              Pw(OK, PA, 1, 1, 2), Pw(OK, PE, 0, 1, 2)}
MCPwmValues == {[check |-> OK, duty |-> d] : d \in {3, PWM_DUTY_MAX}} \cup {[check |-> Bad, duty |-> 0]}

MCDacCfgs == {DacReq(OK, 1, PC, PD, 0, "EXTERNAL"), DacReq(OK, 1, PC, PD, 1, "STATIC"),
              DacReq(OK, 2, PC, PD, 1, "EXTERNAL"), DacReq(OK, 1, PC, <<"NULL", 0>>, 1, "EXTERNAL"),
              DacReq(Bad, 1, PC, PD, 0, "EXTERNAL")}
MCDacValues == {[check |-> OK], [check |-> Bad]}

MCTxBufs == {"b0", "b1"}
MCSpiSlaveCfgs == {SpiReq(OK, {PD, PE}), SpiReq(Bad, {PD, PE})}
MCSpiSlaveValues == {[check |-> OK, buf |-> "b1"], [check |-> Bad, buf |-> "b0"]}

MCI2cCfgs == {I2cReq(OK, {PE}, 1, 0, <<>>), I2cReq(OK, {PF}, 2, 1, <<1>>),
              I2cReq(OK, {PF}, 2, 1, <<1, 1>>), I2cReq(Bad, {PE}, 1, 0, <<>>)}
MCI2cValues == {[check |-> OK, reg_start |-> r, values |-> <<1>>] : r \in {0, 1}}
               \cup {[check |-> Bad, reg_start |-> 0, values |-> <<1>>]}

-----------------------------------------------------------------------------
(* States that only differ in names are the same state.  The answer is      *)
(* written by every command and read by none; which id a sensor has matters *)
(* only as its distance from the hint, and which slot it has not at all.    *)
(* Action properties still see the whole state.                             *)

Distance(id) == (id - next_id_hint) % PROTO_SENSOR_ID_MAX
LiveSensors == {[slots[i] EXCEPT !.id = Distance(@)] : i \in LiveSlots}
View == <<LiveSensors, gpio, heap, timerVars, busVars>>
=============================================================================
