------------------------------ MODULE HwTimer ------------------------------
(***************************************************************************)
(* The hardware timer pool shared by one-shot pulses and PWM               *)
(* (stm32/project/drivers/timer/src/hw_timer.c).                           *)
(*                                                                         *)
(* A timer is FREE, owned by one pulse user (identified by its token) or   *)
(* shared by the PWM channels that run at its frequency.  The operators    *)
(* give the error code of a call and the timer file after it.              *)
(***************************************************************************)
EXTENDS Integers, FiniteSets

CONSTANTS
    HW_TIMER_COUNT,         \* 7 in the firmware
    WideTimers,             \* timers with the wide (32-bit) counter
    HW_TIMER_CLOCK_HZ,      \* 84 000 000
    HW_TIMER_ARR_MAX_16,    \* 2^16 - 1
    HW_TIMER_ARR_MAX_32,    \* 2^32 - 1
    HW_TIMER_PSC_MAX        \* 2^16 - 1

Timers == 0 .. (HW_TIMER_COUNT - 1)

ASSUME HwTimerAssumption ==
    /\ HW_TIMER_COUNT \in Nat \ {0}
    /\ WideTimers \subseteq Timers
    /\ HW_TIMER_CLOCK_HZ \in Nat \ {0}
    /\ HW_TIMER_ARR_MAX_16 \in Nat \ {0}
    /\ HW_TIMER_ARR_MAX_32 \in Nat /\ HW_TIMER_ARR_MAX_32 >= HW_TIMER_ARR_MAX_16
    /\ HW_TIMER_PSC_MAX \in Nat

VARIABLE timers

FreeTimer == [state |-> "FREE", token |-> 0, armed |-> FALSE,
              psc |-> 0, arr |-> 0, pwm_ref_count |-> 0]

hw_timer_init == timers = [t \in Timers |-> FreeTimer]

arr_max(t) == IF t \in WideTimers THEN HW_TIMER_ARR_MAX_32 ELSE HW_TIMER_ARR_MAX_16

\* compute_psc_arr: the smallest prescaler whose reload value fits the counter
\* (64-bit arithmetic in the source, so no wrap).
compute_psc_arr(freq_hz, max_arr) ==
    IF freq_hz = 0 \/ freq_hz > HW_TIMER_CLOCK_HZ \div 2
    THEN [ok |-> FALSE, psc |-> 0, arr |-> 0]
    ELSE LET period == HW_TIMER_CLOCK_HZ \div freq_hz
             ceil   == (period + max_arr) \div (max_arr + 1)
             psc_p1 == IF ceil = 0 THEN 1 ELSE ceil
             arr    == period \div psc_p1 - 1
         IN  IF psc_p1 > HW_TIMER_PSC_MAX + 1 \/ arr > max_arr
             THEN [ok |-> FALSE, psc |-> 0, arr |-> 0]
             ELSE [ok |-> TRUE, psc |-> psc_p1 - 1, arr |-> arr]

\* find_pulse_entry: the lowest timer in PULSE mode bound to the token, as a
\* set with at most one element.
find_pulse_entry(token) ==
    {t \in Timers : /\ timers[t].state = "PULSE" /\ timers[t].token = token
                    /\ \A u \in 0 .. (t - 1) :
                          ~(timers[u].state = "PULSE" /\ timers[u].token = token)}

-----------------------------------------------------------------------------
(* Pulse API                                                                *)

hw_timer_pulse_acquire_err(t) ==
    IF timers[t].state # "FREE" THEN "ERR_PERIPHERAL_BUSY" ELSE "ERR_SUCCESS"

hw_timer_pulse_acquire(t, token) ==
    IF timers[t].state # "FREE" THEN timers
    ELSE [timers EXCEPT ![t] = [FreeTimer EXCEPT !.state = "PULSE", !.token = token]]

\* Stops the counter, gates the clock and frees the timer bound to the token.
hw_timer_pulse_release(token) ==
    [t \in Timers |-> IF t \in find_pulse_entry(token) THEN FreeTimer ELSE timers[t]]

\* The longest pulse of the timer bound to the token, 0 when none is.
hw_timer_pulse_max_us(token) ==
    IF find_pulse_entry(token) = {} THEN 0
    ELSE arr_max(CHOOSE t \in find_pulse_entry(token) : TRUE)

hw_timer_pulse_start_err(token, pulse_us) ==
    IF \/ find_pulse_entry(token) = {} \/ pulse_us = 0
       \/ pulse_us > hw_timer_pulse_max_us(token)
    THEN "ERR_INVALID_PARAMETER"
    ELSE "ERR_SUCCESS"

\* Restarts the counter: an older countdown of the same timer is dropped.
hw_timer_pulse_start(token, pulse_us) ==
    IF hw_timer_pulse_start_err(token, pulse_us) # "ERR_SUCCESS" THEN timers
    ELSE [t \in Timers |-> IF t \in find_pulse_entry(token)
                           THEN [timers[t] EXCEPT !.armed = TRUE] ELSE timers[t]]

-----------------------------------------------------------------------------
(* PWM API                                                                  *)

hw_timer_pwm_acquire_err(t, freq_hz) ==
    LET c == compute_psc_arr(freq_hz, arr_max(t))
    IN  CASE timers[t].state = "PULSE" -> "ERR_PERIPHERAL_BUSY"
          [] timers[t].state # "PULSE" /\ ~c.ok -> "ERR_INVALID_PARAMETER"
          [] /\ timers[t].state = "PWM" /\ c.ok
             /\ <<timers[t].psc, timers[t].arr>> # <<c.psc, c.arr>> -> "ERR_PWM_FREQ_CONFLICT"
          [] OTHER -> "ERR_SUCCESS"

\* A mutation: joining a running timer does not count the new channel.
hw_timer_pwm_acquire_uncounted(t, freq_hz) ==
    LET c == compute_psc_arr(freq_hz, arr_max(t))
    IN  IF hw_timer_pwm_acquire_err(t, freq_hz) # "ERR_SUCCESS" \/ timers[t].state = "PWM"
        THEN timers
        ELSE [timers EXCEPT ![t] = [FreeTimer EXCEPT !.state = "PWM", !.psc = c.psc,
                                        !.arr = c.arr, !.pwm_ref_count = 1]]

\* A mutation: every counter is taken for a wide one.
hw_timer_pwm_acquire_wide(t, freq_hz) ==
    LET c == compute_psc_arr(freq_hz, HW_TIMER_ARR_MAX_32)
    IN  IF hw_timer_pwm_acquire_err(t, freq_hz) # "ERR_SUCCESS" THEN timers
        ELSE IF timers[t].state = "PWM"
        THEN [timers EXCEPT ![t].pwm_ref_count = @ + 1]
        ELSE [timers EXCEPT ![t] = [FreeTimer EXCEPT !.state = "PWM", !.psc = c.psc,
                                        !.arr = c.arr, !.pwm_ref_count = 1]]

\* The first channel configures the timer, later ones join it.
hw_timer_pwm_acquire(t, freq_hz) ==
    LET c == compute_psc_arr(freq_hz, arr_max(t))
    IN  IF hw_timer_pwm_acquire_err(t, freq_hz) # "ERR_SUCCESS" THEN timers
        ELSE IF timers[t].state = "PWM"
        THEN [timers EXCEPT ![t].pwm_ref_count = @ + 1]
        ELSE [timers EXCEPT ![t] = [FreeTimer EXCEPT !.state = "PWM", !.psc = c.psc,
                                        !.arr = c.arr, !.pwm_ref_count = 1]]

\* The last channel stops the timer.
hw_timer_pwm_release(tim, t) ==
    IF tim[t].state # "PWM" THEN tim
    ELSE IF tim[t].pwm_ref_count > 1
    THEN [tim EXCEPT ![t].pwm_ref_count = @ - 1]
    ELSE [tim EXCEPT ![t] = FreeTimer]
=============================================================================
