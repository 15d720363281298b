------------------------------ MODULE FanCurve ------------------------------
(***************************************************************************)
(* The validated fan curve (app/config.py) and the duty a temperature      *)
(* calls for under it (requested_duty in app/fan_control.py).              *)
(*                                                                         *)
(* Temperatures are whole degrees: the code's floats only matter where a   *)
(* temperature is compared with a threshold, and one unit either side of   *)
(* it is enough for that.                                                  *)
(***************************************************************************)
EXTENDS Integers

AllowedGpios == {12, 13, 14, 18, 19}

(* A configuration record, as normalize_fan_config returns it.  "force" is *)
(* the key _force_full_speed, which only the fail-safe configuration has.  *)
Config == [gpio : Int, start_temp : Int, full_temp : Int,
           min_duty : Int, hysteresis : Int, force : BOOLEAN]

ValidConfig(c) ==
    /\ c \in Config
    /\ c.gpio \in AllowedGpios
    /\ c.start_temp \in 20 .. 75
    /\ c.full_temp \in (c.start_temp + 5) .. 90
    /\ c.min_duty \in 35 .. 100
    /\ c.hysteresis \in 0 .. 10
    /\ ~c.force

FailSafeConfig == [gpio |-> 14, start_temp |-> 20, full_temp |-> 25,
                   min_duty |-> 100, hysteresis |-> 0, force |-> TRUE]

(* Python's round(n / d) for d > 0: to nearest, a tie to the even integer. *)
RoundHalfEven(n, d) ==
    LET q == n \div d
        r == n % d
    IN  IF 2 * r < d \/ (2 * r = d /\ q % 2 = 0) THEN q ELSE q + 1

(* Slip: no hysteresis.                                                    *)
BelowThresholdPlain(t, c, wasRunning) == t < c.start_temp

(* A fan at rest starts at start_temp; a running one stops only once the   *)
(* temperature has fallen a further hysteresis below it.                   *)
BelowThreshold(t, c, wasRunning) ==
    t < IF wasRunning THEN c.start_temp - c.hysteresis ELSE c.start_temp

Interpolated(t, c) ==
    LET span  == c.full_temp - c.start_temp
        above == IF t < c.start_temp THEN 0 ELSE t - c.start_temp
    IN  RoundHalfEven(c.min_duty * span + above * (100 - c.min_duty), span)

(* Slip: no cap at full_temp.                                              *)
RequestedDutyUncapped(t, c, wasRunning) ==
    IF c.force THEN 100
    ELSE IF BelowThreshold(t, c, wasRunning) THEN 0 ELSE Interpolated(t, c)

RequestedDuty(t, c, wasRunning) ==
    IF c.force THEN 100
    ELSE IF BelowThreshold(t, c, wasRunning) THEN 0
    ELSE IF t >= c.full_temp THEN 100 ELSE Interpolated(t, c)
=============================================================================
