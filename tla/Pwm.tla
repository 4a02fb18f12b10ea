-------------------------------- MODULE Pwm --------------------------------
(***************************************************************************)
(* The PWM backend (stm32/project/simulate/pwm/src/pwm_sensor.c): one slot *)
(* per (timer, channel), sharing the timers of module HwTimer with the     *)
(* digital outputs' pulses.                                                *)
(***************************************************************************)
EXTENDS Backend, HwTimer

CONSTANTS
    HW_TIMER_MAX_CHANNELS,  \* 4 in the firmware
    MaxChannel,             \* channels of each timer (hw_timer_max_channel)
    PWM_DUTY_MAX,           \* 10 000 in the firmware
    PwmCfgs,                \* setup requests: [check, pin, timer, channel, freq_hz, duty]
    PwmValues               \* set-output requests: [check, duty]

Channels == 1 .. HW_TIMER_MAX_CHANNELS

ASSUME PwmAssumption ==
    /\ HW_TIMER_MAX_CHANNELS \in Nat \ {0}
    /\ MaxChannel \in [Timers -> Channels]
    /\ PWM_DUTY_MAX \in Nat \ {0}
    /\ PwmCfgs \subseteq [check : STRING, pin : Pins, timer : Timers, channel : Channels,
                          freq_hz : Nat, duty : Nat]
    /\ PwmValues \subseteq [check : STRING, duty : Nat]

\* On a 16-bit timer the product of compute_ccr fits in 32 bits, and the range
\* check of set_output lets no larger duty pass.
ASSUME DutyAssumption ==
    /\ (HW_TIMER_ARR_MAX_16 + 1) * PWM_DUTY_MAX <= HW_TIMER_ARR_MAX_32 + 1
    /\ \A v \in PwmValues : v.check = "ERR_SUCCESS" => v.duty <= PWM_DUTY_MAX

VARIABLES
    pwm,        \* states[]: [in_use, pin, timer_id, channel]
    pwm_pins,   \* pin_owned of this backend
    pwm_out     \* the channel registers, CCxE and CCRx, of each timer

pwmVars == <<pwm, pwm_pins, pwm_out>>

PwmIndex == 0 .. (HW_TIMER_COUNT * HW_TIMER_MAX_CHANNELS - 1)

PwmFree == [in_use |-> FALSE, pin |-> CHOOSE p \in Pins : TRUE, timer_id |-> 0, channel |-> 1]
PwmChannelOff == [enabled |-> FALSE, ccr |-> 0]

\* The output compare channel: mode, compare value and enable bit together, or
\* the compare value alone.
channel_configure(ccr) == [enabled |-> TRUE, ccr |-> ccr]
channel_set_ccr(reg, ccr) == [reg EXCEPT !.ccr = ccr]

PwmTypeOK ==
    /\ pwm \in [PwmIndex -> [in_use : BOOLEAN, pin : Pins, timer_id : Timers, channel : Channels]]
    /\ pwm_pins \subseteq Pins
    /\ pwm_out \in [Timers \X Channels -> [enabled : BOOLEAN, ccr : 0 .. HW_TIMER_ARR_MAX_32]]

pwm_sensor_init ==
    /\ pwm = [i \in PwmIndex |-> PwmFree]
    /\ pwm_pins = {}
    /\ pwm_out = [tc \in Timers \X Channels |-> PwmChannelOff]

pwm_slot_for(timer_id, channel) == timer_id * HW_TIMER_MAX_CHANNELS + (channel - 1)

\* A mutation: the product is taken in 16 bits.
compute_ccr_16bit(arr, duty) ==
    CASE duty = 0 -> 0
      [] duty >= PWM_DUTY_MAX -> arr
      [] OTHER -> (((arr + 1) * duty) % (HW_TIMER_ARR_MAX_16 + 1)) \div PWM_DUTY_MAX

\* compute_ccr: the product is a 32-bit multiplication and wraps.
compute_ccr(arr, duty) ==
    CASE duty = 0 -> 0
      [] duty >= PWM_DUTY_MAX -> arr
      [] OTHER -> (((arr + 1) * duty) % (HW_TIMER_ARR_MAX_32 + 1)) \div PWM_DUTY_MAX

\* The checks of pwm_sensor_setup in order: lengths and ranges (cfg.check), the
\* timer's own channel count, pin and channel ownership, then the timer.
pwm_setup_err(cfg) ==
    IF cfg.check # "ERR_SUCCESS" THEN cfg.check
    ELSE IF cfg.channel > MaxChannel[cfg.timer] THEN "ERR_INVALID_PARAMETER"
    ELSE IF cfg.pin \in pwm_pins THEN "ERR_PIN_CONFLICT"
    ELSE IF pwm[pwm_slot_for(cfg.timer, cfg.channel)].in_use THEN "ERR_PWM_CHANNEL_IN_USE"
    ELSE hw_timer_pwm_acquire_err(cfg.timer, cfg.freq_hz)

PwmReject(err) ==
    /\ Reject(err)
    /\ UNCHANGED <<backendVars, timers, pwmVars>>

\* Timer, pin and channel are taken and the sensor registered; without an id
\* the channel is disabled and all of it given back.
PwmInstall(cfg) ==
    LET idx == pwm_slot_for(cfg.timer, cfg.channel)
        tim == hw_timer_pwm_acquire(cfg.timer, cfg.freq_hz)
        af  == gpio_configure_af(gpio, {cfg.pin})
    IN  \E id \in MaybeId :
        /\ sensor_manager_register("PWM", idx, id)
        /\ UNCHANGED heap
        /\ IF id = PROTO_SENSOR_ID_NONE
           THEN /\ Return("ERR_OUT_OF_RESOURCES", id)
                /\ timers' = hw_timer_pwm_release(tim, cfg.timer)
                /\ gpio' = gpio_reset_to_defaults(af, {cfg.pin})
                /\ pwm_out' = [pwm_out EXCEPT ![<<cfg.timer, cfg.channel>>] = PwmChannelOff]
                /\ pwm' = [pwm EXCEPT ![idx] = PwmFree]
                /\ UNCHANGED pwm_pins
           ELSE /\ Return("ERR_SUCCESS", id)
                /\ timers' = tim
                /\ gpio' = af
                /\ pwm_pins' = pwm_pins \cup {cfg.pin}
                /\ pwm_out' = [pwm_out EXCEPT ![<<cfg.timer, cfg.channel>>] =
                      channel_configure(compute_ccr(tim[cfg.timer].arr, cfg.duty))]
                /\ pwm' = [pwm EXCEPT ![idx] = [in_use |-> TRUE, pin |-> cfg.pin,
                                    timer_id |-> cfg.timer, channel |-> cfg.channel]]

pwm_sensor_setup(cfg) ==
    IF pwm_setup_err(cfg) # "ERR_SUCCESS" THEN PwmReject(pwm_setup_err(cfg))
    ELSE PwmInstall(cfg)

pwm_values_err(idx, v) ==
    IF ~pwm[idx].in_use THEN "ERR_INVALID_SENSOR_ID" ELSE v.check

\* The compare value is recomputed from the reload value the timer has now.
pwm_sensor_set_output(idx, v) ==
    IF pwm_values_err(idx, v) # "ERR_SUCCESS" THEN PwmReject(pwm_values_err(idx, v))
    ELSE LET tc == <<pwm[idx].timer_id, pwm[idx].channel>>
         IN  /\ pwm_out' = [pwm_out EXCEPT ![tc] =
                   channel_set_ccr(@, compute_ccr(timers[tc[1]].arr, v.duty))]
             /\ Return("ERR_SUCCESS", PROTO_SENSOR_ID_NONE)
             /\ UNCHANGED <<backendVars, timers, pwm, pwm_pins>>

pwm_sensor_stop(idx) ==
    IF ~pwm[idx].in_use
    THEN /\ Reject("ERR_INVALID_SENSOR_ID")
         /\ UNCHANGED <<timers, gpio, heap, pwmVars>>
    ELSE /\ Return("ERR_SUCCESS", PROTO_SENSOR_ID_NONE)
         /\ UNCHANGED heap
         /\ pwm_out' = [pwm_out EXCEPT ![<<pwm[idx].timer_id, pwm[idx].channel>>] = PwmChannelOff]
         /\ timers' = hw_timer_pwm_release(timers, pwm[idx].timer_id)
         /\ gpio' = gpio_reset_to_defaults(gpio, {pwm[idx].pin})
         /\ pwm_pins' = pwm_pins \ {pwm[idx].pin}
         /\ pwm' = [pwm EXCEPT ![idx] = PwmFree]
=============================================================================
