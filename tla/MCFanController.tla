--------------------------- MODULE MCFanController ---------------------------
(* Small instances of FanController.                                       *)
EXTENDS FanController

Quiet == [gpio |-> 14, start_temp |-> 45, full_temp |-> 50, min_duty |-> 45,
          hysteresis |-> 2, force |-> FALSE]
Eager == [gpio |-> 14, start_temp |-> 43, full_temp |-> 48, min_duty |-> 60,
          hysteresis |-> 1, force |-> FALSE]
Moved == [Eager EXCEPT !.gpio = 18]
\* full_temp one degree too near start_temp: rejected by normalize_fan_config
Steep == [Quiet EXCEPT !.full_temp = 49]

SomeFiles == {Quiet, Moved, Steep}
\* below the stop threshold, at it (in the hysteresis band), at start, at full
AllTemps == {42, 43, 45, 50}
FewTemps == {42, 50}
=============================================================================
