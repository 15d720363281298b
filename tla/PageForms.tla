----------------------------- MODULE PageForms -----------------------------
(***************************************************************************)
(* The rules of the forms of js/script.js beside those of the server that  *)
(* answers them: app/config.py for the curve, app/state.py for a Pi.  The  *)
(* rules are written down twice, in two languages; where they differed, a  *)
(* form would be refused that the page takes for good, or a list that the  *)
(* server keeps would not load.                                            *)
(*                                                                         *)
(* The numbers of a curve may be fractions.  They are counted in units of  *)
(* 1/u, for a u that the rules take as a parameter: whatever five floats   *)
(* are typed, some power of two makes whole numbers of them.  The pattern  *)
(* of a name is the same on both sides and left out.                       *)
(***************************************************************************)
EXTENDS FanCurve

(* readFanForm, in units; a number input that is empty or not a number is  *)
(* read as 0.                                                              *)
FanForm == [gpio : Int, start_temp : Int, full_temp : Int, min_duty : Int, hysteresis : Int]

FormGpios == {12, 13, 14, 18, 19}

(* What exact_integer accepts.                                             *)
Whole(x, u) == \E k \in Int : x = k * u

(* validateFanConfig finds nothing to object to; it does not ask for whole *)
(* numbers.                                                                *)
FormAccepts(f, u) ==
    /\ \E g \in FormGpios : f.gpio = g * u
    /\ ~(f.start_temp < 20 * u \/ f.start_temp > 75 * u)
    /\ ~(f.full_temp < f.start_temp + 5 * u \/ f.full_temp > 90 * u)
    /\ ~(f.min_duty < 35 * u \/ f.min_duty > 100 * u)
    /\ ~(f.hysteresis < 0 \/ f.hysteresis > 10 * u)

(* normalize_fan_config does not return None.                              *)
ServerAccepts(f, u) ==
    /\ Whole(f.gpio, u) /\ Whole(f.min_duty, u)
    /\ \E g \in AllowedGpios : f.gpio = g * u
    /\ f.start_temp \in 20 * u .. 75 * u
    /\ f.full_temp \in (f.start_temp + 5 * u) .. 90 * u
    /\ f.min_duty \in 35 * u .. 100 * u
    /\ f.hysteresis \in 0 .. 10 * u

(* The browser submits the form: min, max and step of each input.          *)
InputsAllow(f, u) ==
    /\ f.min_duty \in 35 * u .. 100 * u /\ Whole(f.min_duty, u)
    /\ f.start_temp \in 20 * u .. 75 * u /\ Whole(f.start_temp, u)
    /\ f.full_temp \in 25 * u .. 90 * u /\ Whole(f.full_temp, u)
    /\ f.hysteresis \in 0 .. 10 * u /\ Whole(2 * f.hysteresis, u)

(* The body of PUT /fan-config, as the server reads it, of whole numbers.  *)
AsConfig(f) ==
    [gpio |-> f.gpio, start_temp |-> f.start_temp, full_temp |-> f.full_temp,
     min_duty |-> f.min_duty, hysteresis |-> f.hysteresis, force |-> FALSE]

(* validIpv4 and validatePi, of the four numbers of an address and a port. *)
FormAcceptsEntry(ip, port) ==
    /\ \A i \in 1 .. 4 : ip[i] >= 0 /\ ip[i] <= 255
    /\ ~(port < 1024 \/ port > 65535)

(* private_ipv4: an IPv4 address of one of PRIVATE_NETWORKS.               *)
Private(ip) ==
    /\ \A i \in 1 .. 4 : ip[i] \in 0 .. 255
    /\ \/ ip[1] \in {10, 127}
       \/ ip[1] = 172 /\ ip[2] \in 16 .. 31
       \/ ip[1] = 192 /\ ip[2] = 168

(* normalize_pi                                                            *)
NormalEntry(ip, port) == Private(ip) /\ port \in 1024 .. 65535
=============================================================================
