-------------------------------- MODULE Gpio --------------------------------
(***************************************************************************)
(* The GPIO driver (stm32/project/drivers/gpio/src/gpio.c): per pin, the   *)
(* MODER setting and the output latch.  Slew rate, pull, output type and   *)
(* the alternate-function number carry no control and are left out, and so *)
(* is the port clock, which is only ever switched on.                      *)
(*                                                                         *)
(* The operators return the new value of the pin file, so that a handler   *)
(* that touches several pins is one assignment.                            *)
(***************************************************************************)
EXTENDS Integers, FiniteSets

CONSTANT Pins       \* (port, pin) pairs

ASSUME GpioAssumption == Pins # {}

VARIABLE gpio       \* gpio[p] = [mode, level]

Level == {"LOW", "HIGH"}
PinMode == {"INPUT", "OUTPUT", "AF"}

GpioTypeOK == gpio \in [Pins -> [mode : PinMode, level : Level]]

GpioInit == gpio = [p \in Pins |-> [mode |-> "INPUT", level |-> "LOW"]]

\* gpio_configure_output: the latch is driven before the pin leaves Hi-Z.
gpio_configure_output(g, pin, level) ==
    [g EXCEPT ![pin] = [mode |-> "OUTPUT", level |-> level]]

\* gpio_configure_af on each pin of a set.
gpio_configure_af(g, pins) ==
    [p \in Pins |-> IF p \in pins THEN [g[p] EXCEPT !.mode = "AF"] ELSE g[p]]

\* A mutation: a pin in output mode keeps driving.
gpio_reset_to_defaults_not_output(g, pins) ==
    [p \in Pins |-> IF p \in pins /\ g[p].mode = "AF" THEN [g[p] EXCEPT !.mode = "INPUT"] ELSE g[p]]

\* gpio_reset_to_defaults on each pin of a set: floating input, the latch is
\* left as it is.
gpio_reset_to_defaults(g, pins) ==
    [p \in Pins |-> IF p \in pins THEN [g[p] EXCEPT !.mode = "INPUT"] ELSE g[p]]

\* A mutation: the level is written to the whole port register.
drive_level_whole_port(g, pin, level) ==
    [p \in Pins |-> IF p[1] = pin[1] THEN [g[p] EXCEPT !.level = level] ELSE g[p]]

\* gpio_set / gpio_reset
drive_level(g, pin, level) == [g EXCEPT ![pin].level = level]

Opposite(level) == IF level = "HIGH" THEN "LOW" ELSE "HIGH"
=============================================================================
