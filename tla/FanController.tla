---------------------------- MODULE FanController ----------------------------
(***************************************************************************)
(* The fan controller: main() of app/fan_control.py, one action per step   *)
(* between two points where the outside can act, run by the systemd unit   *)
(* pifandashboard-fan.service (Restart=always, RuntimeDirectory=).         *)
(*                                                                         *)
(* Around it: the thermal sensor, the GPIO library (any call may raise     *)
(* RuntimeError), systemctl, a kill at any moment, and the two writers of  *)
(* fan.json - put_fan_config of the dashboard and a root user's editor or  *)
(* installer.                                                              *)
(***************************************************************************)
EXTENDS FanCurve

CONSTANTS
    ActiveGpio,     \* ACTIVE_GPIO, from PIFAN_GPIO in fan.env
    Files,          \* what fan.json may hold: valid and invalid Config records
    Temps,          \* what the sensor may measure
    MaxKills,       \* bound: how often the process is killed
    MaxFaults       \* bound: how many GPIO calls raise RuntimeError

ASSUME ActiveGpioAssumption == ActiveGpio \in AllowedGpios
ASSUME FilesAssumption == Files \subseteq Config /\ \E f \in Files : ValidConfig(f)
ASSUME TempsAssumption == Temps \subseteq Nat /\ Temps # {}
ASSUME BoundsAssumption == MaxKills \in Nat /\ MaxFaults \in Nat

Unknown == -1       \* the temperature written to the status in fail-safe
NoPwm   == -1       \* no PWM is running: the pin keeps its level
Absent  == [temp |-> Unknown, speed |-> NoPwm, err |-> "absent"]

VARIABLES
    pc,         \* where the process is; "off" when there is none
    curve,      \* last_valid_config
    prev,       \* previous_duty
    duty,       \* duty
    reading,    \* temperature
    err,        \* error_message
    stop,       \* stop_event
    pwm,        \* duty cycle of the running PWM, or NoPwm
    pin,        \* level of the pin without PWM: 0 or 100
    status,     \* status.json, Absent when there is none
    disk,       \* fan.json
    temp,       \* the true temperature
    wanted,     \* systemd wants the unit up
    kills,      \* kills so far
    faults,     \* GPIO errors so far
    stoppedAt   \* history: readings at which the present curve stopped the fan

locals  == <<curve, prev, duty, reading, err>>
gpio    == <<pwm, pin>>
outside == <<disk, temp, wanted, kills>>
vars    == <<pc, locals, stop, gpio, status, outside, faults, stoppedAt>>

OwnGpio(c) == [c EXCEPT !.gpio = ActiveGpio]
NoCurve    == OwnGpio(FailSafeConfig)
Output     == IF pwm = NoPwm THEN pin ELSE pwm

(* The level a pin keeps when the PWM driving it dies with its process.    *)
Leftover == {level \in {0, 100} :
                /\ pwm = NoPwm => level = pin
                /\ pwm \in {0, 100} => level = pwm}

Init ==
    /\ pc = "off" /\ stop = FALSE /\ status = Absent
    /\ curve = NoCurve /\ prev = 0 /\ duty = 0 /\ reading = Unknown /\ err = "none"
    /\ pwm = NoPwm /\ pin \in {0, 100}
    /\ disk \in Files /\ temp \in Temps /\ wanted \in BOOLEAN
    /\ kills = 0 /\ faults = 0 /\ stoppedAt = {}

-----------------------------------------------------------------------------
(* The process.                                                            *)

(* The process ends: its locals are gone, and so is RuntimeDirectory.      *)
Exit ==
    /\ pc' = "off" /\ stop' = FALSE /\ status' = Absent
    /\ curve' = NoCurve /\ prev' = 0 /\ duty' = 0 /\ reading' = Unknown /\ err' = "none"
    /\ pwm' = NoPwm /\ stoppedAt' = {}

(* A GPIO call raises RuntimeError.                                        *)
GpioFault == faults < MaxFaults /\ faults' = faults + 1
GpioOk    == UNCHANGED faults

ServiceStart ==
    /\ pc = "off" /\ wanted
    /\ pc' = "import"
    /\ UNCHANGED <<locals, stop, gpio, status, outside, faults, stoppedAt>>

(* Signal handlers, then initial_config().                                 *)
InitialConfig ==
    /\ pc = "import"
    /\ pc' = "setup"
    /\ curve' = OwnGpio(IF ValidConfig(disk) THEN disk ELSE FailSafeConfig)
    /\ UNCHANGED <<prev, duty, reading, err, stop, gpio, status, outside, faults, stoppedAt>>

(* Slip: the PWM starts at 0.                                              *)
SetupIdle ==
    /\ pc = "setup" /\ pc' = "top"
    /\ pin' = 100 /\ pwm' = 0 /\ prev' = 0
    /\ UNCHANGED <<curve, duty, reading, err, stop, status, outside, faults, stoppedAt>>

(* GPIO.setup drives the pin high, then the PWM starts at 100.  A failure  *)
(* of GPIO.setup leaves the pin unclaimed; a later one finds it high, with *)
(* fan not assigned ("high") or assigned ("final").                        *)
Setup ==
    /\ pc = "setup"
    /\ \/ /\ pin' = 100 /\ pwm' = 100 /\ prev' = 100
          /\ pc' = "top"
          /\ GpioOk
       \/ /\ \/ pin' = 100 /\ pc' \in {"high", "final"}
             \/ pin' = pin /\ pc' = "unset"
          /\ GpioFault
          /\ UNCHANGED <<pwm, prev>>
    /\ UNCHANGED <<curve, duty, reading, err, stop, status, outside, stoppedAt>>

(* Slip: the GPIO of the file is taken over.                               *)
ReadConfigOtherGpio ==
    /\ pc = "top" /\ ~stop /\ pc' = "sample"
    /\ curve' = IF ValidConfig(disk) THEN disk ELSE curve
    /\ err' = IF ValidConfig(disk) THEN "none" ELSE "config"
    /\ stoppedAt' = IF curve' = curve THEN stoppedAt ELSE {}
    /\ UNCHANGED <<prev, duty, reading, stop, gpio, status, outside, faults>>

(* Slip: a curve once read is never read again.                            *)
ReadConfigOnce ==
    /\ pc = "top" /\ ~stop /\ pc' = "sample"
    /\ curve' = IF curve.force /\ ValidConfig(disk) THEN OwnGpio(disk) ELSE curve
    /\ stoppedAt' = IF curve' = curve THEN stoppedAt ELSE {}
    /\ UNCHANGED <<prev, duty, reading, err, stop, gpio, status, outside, faults>>

(* The while test, and the first try of its body.                          *)
ReadConfig ==
    /\ pc = "top" /\ ~stop
    /\ pc' = "sample"
    /\ IF ValidConfig(disk)
       THEN /\ curve' = OwnGpio(disk)
            /\ err' = IF disk.gpio # ActiveGpio THEN "gpio" ELSE "none"
       ELSE /\ err' = "config"
            /\ UNCHANGED curve
    /\ stoppedAt' = IF curve' = curve THEN stoppedAt ELSE {}
    /\ UNCHANGED <<prev, duty, reading, stop, gpio, status, outside, faults>>

LeaveLoop ==
    /\ pc = "top" /\ stop
    /\ pc' = "final"
    /\ UNCHANGED <<locals, stop, gpio, status, outside, faults, stoppedAt>>

(* Slip: no boost for a fan at rest.                                       *)
SampleNoBoost ==
    /\ pc = "sample"
    /\ \/ /\ reading' = temp /\ duty' = RequestedDuty(temp, curve, prev > 0)
          /\ pc' = "command"
       \/ pc' = "failsafe" /\ UNCHANGED <<reading, duty>>
    /\ UNCHANGED <<curve, prev, err, stop, gpio, status, outside, faults, stoppedAt>>

(* Slip: a round without a temperature is skipped.                         *)
SampleSkips ==
    /\ pc = "sample"
    /\ \/ /\ reading' = temp /\ duty' = RequestedDuty(temp, curve, prev > 0)
          /\ pc' = IF prev = 0 /\ duty' > 0 THEN "boost" ELSE "command"
       \/ pc' = "wait" /\ UNCHANGED <<reading, duty>>
    /\ UNCHANGED <<curve, prev, err, stop, gpio, status, outside, faults, stoppedAt>>

Sample ==
    /\ pc = "sample"
    /\ \/ /\ reading' = temp
          /\ duty' = RequestedDuty(temp, curve, prev > 0)
          /\ pc' = IF prev = 0 /\ duty' > 0 THEN "boost" ELSE "command"
       \/ /\ pc' = "failsafe"                           \* the sensor fails
          /\ UNCHANGED <<reading, duty>>
    /\ UNCHANGED <<curve, prev, err, stop, gpio, status, outside, faults, stoppedAt>>

Boost ==
    /\ pc = "boost"
    /\ \/ pwm' = 100 /\ pc' = "boosting" /\ GpioOk
       \/ GpioFault /\ pc' = "failsafe" /\ UNCHANGED pwm
    /\ UNCHANGED <<locals, stop, pin, status, outside, stoppedAt>>

BoostWait ==
    /\ pc = "boosting"
    /\ pc' = IF stop THEN "final" ELSE "command"
    /\ UNCHANGED <<locals, stop, gpio, status, outside, faults, stoppedAt>>

Command ==
    /\ pc = "command"
    /\ \/ /\ pwm' = duty
          /\ pc' = "publish"
          /\ stoppedAt' = IF duty > 0 THEN {}
                          ELSE IF prev > 0 THEN {reading} ELSE stoppedAt
          /\ GpioOk
       \/ GpioFault /\ pc' = "failsafe" /\ UNCHANGED <<pwm, stoppedAt>>
    /\ UNCHANGED <<locals, stop, pin, status, outside>>

(* The except branch; its own RuntimeError leaves the loop.                *)
Failsafe ==
    /\ pc = "failsafe"
    /\ reading' = Unknown /\ duty' = 100 /\ err' = "failsafe"
    /\ stoppedAt' = {}
    /\ \/ pwm' = 100 /\ pc' = "publish" /\ GpioOk
       \/ GpioFault /\ pc' = "final" /\ UNCHANGED pwm
    /\ UNCHANGED <<curve, prev, stop, pin, status, outside>>

(* Slip: the duty of the round before is published.                        *)
PublishPrevious ==
    /\ pc = "publish"
    /\ prev' = duty
    /\ status' \in {status, [temp |-> reading, speed |-> prev, err |-> err]}
    /\ pc' = "wait"
    /\ UNCHANGED <<curve, duty, reading, err, stop, gpio, outside, faults, stoppedAt>>

(* previous_duty = duty, and write_status, which may raise OSError.        *)
Publish ==
    /\ pc = "publish"
    /\ prev' = duty
    /\ status' \in {status, [temp |-> reading, speed |-> duty, err |-> err]}
    /\ pc' = "wait"
    /\ UNCHANGED <<curve, duty, reading, err, stop, gpio, outside, faults, stoppedAt>>

Wait ==
    /\ pc = "wait"
    /\ pc' = "top"
    /\ UNCHANGED <<locals, stop, gpio, status, outside, faults, stoppedAt>>

(* The finally block, entered with fan assigned: full duty, then stop(),   *)
(* which leaves the pin at either level.                                   *)
Final ==
    /\ pc = "final"
    /\ pc' = "stopping"
    /\ \/ pwm' = (IF pwm = NoPwm THEN NoPwm ELSE 100) /\ GpioOk
       \/ GpioFault /\ UNCHANGED pwm
    /\ UNCHANGED <<locals, stop, pin, status, outside, stoppedAt>>

StopPwm ==
    /\ pc = "stopping"
    /\ pc' = "high"
    /\ \/ pwm' = NoPwm /\ pin' \in {0, 100} /\ GpioOk
       \/ GpioFault /\ UNCHANGED gpio
    /\ UNCHANGED <<locals, stop, status, outside, stoppedAt>>

(* Slip: the pin is left as stop() left it.                                *)
DriveNothing ==
    /\ pc = "high"
    /\ pin' \in Leftover
    /\ Exit
    /\ UNCHANGED <<outside, faults>>

(* GPIO.output(gpio, GPIO.HIGH), and the process is gone.                  *)
DriveHigh ==
    /\ pc = "high"
    /\ \/ pin' \in (IF pwm = NoPwm THEN {100} ELSE Leftover) /\ GpioOk
       \/ pin' \in Leftover /\ GpioFault
    /\ Exit
    /\ UNCHANGED outside

(* GPIO.output on a pin that was never set up raises, and is caught.       *)
OutputFails ==
    /\ pc = "unset"
    /\ Exit
    /\ UNCHANGED <<pin, outside, faults>>

Controller ==
    \/ InitialConfig \/ Setup \/ ReadConfig \/ LeaveLoop \/ Sample \/ Boost
    \/ BoostWait \/ Command \/ Failsafe \/ Publish \/ Wait
    \/ Final \/ StopPwm \/ DriveHigh \/ OutputFails

-----------------------------------------------------------------------------
(* The outside.                                                            *)

(* SIGKILL, the out-of-memory killer, the stop timeout of systemd.         *)
Kill ==
    /\ pc # "off" /\ kills < MaxKills
    /\ kills' = kills + 1
    /\ pin' \in Leftover
    /\ Exit
    /\ UNCHANGED <<disk, temp, wanted, faults>>

(* SIGTERM: before signal.signal() ran it simply ends the process.         *)
SystemctlStop ==
    /\ wanted
    /\ wanted' = FALSE
    /\ IF pc = "import" THEN Exit
       ELSE /\ stop' = (pc # "off")
            /\ UNCHANGED <<pc, locals, pwm, status, stoppedAt>>
    /\ UNCHANGED <<pin, disk, temp, kills, faults>>

SystemctlStart ==
    /\ ~wanted
    /\ wanted' = TRUE
    /\ UNCHANGED <<pc, locals, stop, gpio, status, disk, temp, kills, faults, stoppedAt>>

(* The dashboard's PUT /fan-config: refuses an invalid curve, any change   *)
(* while the present file is invalid, and a change of GPIO.                *)
PutFanConfig ==
    /\ ValidConfig(disk)
    /\ \E c \in Files : ValidConfig(c) /\ c.gpio = disk.gpio /\ disk' = c
    /\ UNCHANGED <<pc, locals, stop, gpio, status, temp, wanted, kills, faults, stoppedAt>>

(* Anyone with write access to the file, by hand or through the installer. *)
EditFile ==
    /\ disk' \in Files
    /\ UNCHANGED <<pc, locals, stop, gpio, status, temp, wanted, kills, faults, stoppedAt>>

Heat ==
    /\ temp' \in Temps
    /\ UNCHANGED <<pc, locals, stop, gpio, status, disk, wanted, kills, faults, stoppedAt>>

Outside == Kill \/ SystemctlStop \/ SystemctlStart \/ PutFanConfig \/ EditFile \/ Heat

Next == ServiceStart \/ Controller \/ Outside

Spec == Init /\ [][Next]_vars

(* The process runs, and systemd restarts it (Restart=always).             *)
Fairness == WF_vars(ServiceStart) /\ WF_vars(Controller)

FairSpec == Spec /\ Fairness

-----------------------------------------------------------------------------
(* Properties.                                                             *)

Locations == {"off", "import", "setup", "top", "sample", "boost", "boosting", "command",
              "failsafe", "publish", "wait", "final", "stopping", "high", "unset"}

Status == [temp : Temps \cup {Unknown}, speed : 0 .. 100 \cup {NoPwm},
           err : {"none", "config", "gpio", "failsafe", "absent"}]

(* The types of all variables: fan_control.py's locals stay numbers and    *)
(* records of the documented ranges.                                       *)
TypeOK ==
    /\ pc \in Locations
    /\ curve \in Config
    /\ prev \in 0 .. 100 /\ duty \in 0 .. 100
    /\ reading \in Temps \cup {Unknown}
    /\ err \in {"none", "config", "gpio", "failsafe"}
    /\ stop \in BOOLEAN /\ wanted \in BOOLEAN
    /\ pwm \in 0 .. 100 \cup {NoPwm} /\ pin \in {0, 100}
    /\ status \in Status
    /\ disk \in Files /\ temp \in Temps
    /\ kills \in 0 .. MaxKills /\ faults \in 0 .. MaxFaults
    /\ stoppedAt \in SUBSET Temps

(* Whatever was written to fan.json and whenever, the curve in use is one  *)
(* that passed validation, or the full-speed one, on the installed GPIO.   *)
CurveSound ==
    /\ ValidConfig(curve) \/ curve = NoCurve
    /\ curve.gpio = ActiveGpio

(* previous_duty is what the PWM really runs at whenever the loop uses it, *)
(* after failed GPIO calls and fail-safe rounds too.                       *)
DutyTracked ==
    /\ pc \in {"top", "sample", "boost", "wait"} => pwm = prev
    /\ pc = "publish" => pwm = duty

(* The start-up fail-safe holds until a valid file is read: with no valid  *)
(* curve the running PWM is at full duty (initial_config's promise).       *)
NoCurveIsFullSpeed ==
    curve.force /\ pwm # NoPwm => pwm = 100

(* Hysteresis: under one curve, a fan that was stopped for the cold is     *)
(* started again only after the temperature rose by more than the          *)
(* hysteresis - no rapid on/off cycling, whatever the readings.            *)
NoChatter ==
    pc = "boost" => \A s \in stoppedAt : reading > s + curve.hysteresis

(* What ties the locals of one round to the PWM and to the readings: the   *)
(* part that makes the invariants above inductive.                         *)
RoundConsistent ==
    /\ pc \in {"off", "import", "setup"} => pwm = NoPwm /\ stoppedAt = {}
    /\ pc \in {"boost", "boosting", "command"} =>
          reading # Unknown /\ (curve.force => duty = 100)
    /\ pc \in {"boost", "boosting"} => duty > 0
    /\ pc = "boost" => curve.force \/ reading >= curve.start_temp
    /\ pc = "boosting" => pwm = 100
    /\ pc = "command" =>
          /\ pwm = 0 => duty = 0
          /\ duty = 0 /\ prev > 0 => reading < curve.start_temp - curve.hysteresis
    /\ pc = "publish" => (reading = Unknown => duty = 100)
    /\ \A s \in stoppedAt : ~curve.force /\ s < curve.start_temp - curve.hysteresis

IInv == TypeOK /\ CurveSound /\ DutyTracked /\ NoCurveIsFullSpeed /\ RoundConsistent

(* A fan at rest is never started at a partial duty: from 0 the PWM goes   *)
(* to 100 first, on every path, also after faults and curve changes.       *)
NoColdStart ==
    [][pwm = 0 => pwm' \in {0, 100, NoPwm}]_vars

(* A status the controller publishes gives the duty the PWM really has,    *)
(* and a round without a temperature is at full speed.                     *)
StatusHonest ==
    [][status' # status /\ status' # Absent =>
          /\ status'.speed = pwm
          /\ status'.temp = Unknown => pwm = 100]_vars

(* README.md:54 as it stands: invalid configuration requests full speed.   *)
InvalidConfigIsFullSpeed ==
    pc = "wait" /\ err = "config" => pwm = 100

(* A Pi that stays hot ends up cooled at full speed for good, through      *)
(* faults, a kill, restarts and bad files, while the unit is wanted.       *)
Hot == \A f \in Files : ValidConfig(f) => temp >= f.full_temp
HotIsCooled ==
    <>[](Hot /\ wanted) => <>[](Output = 100)

(* A curve that stays on disk is in use sooner or later and stays so.      *)
ConfigAdopted ==
    \A f \in Files : ValidConfig(f) =>
        (<>[](disk = f /\ wanted) => <>[](curve = OwnGpio(f)))

(* A stop request reaches the end of the process from every point of the  *)
(* loop, with the pin left high unless it was killed or a GPIO call failed.*)
StopLeavesFull ==
    stop ~> pc = "off" /\ (kills + faults = 0 => pin = 100)
=============================================================================
