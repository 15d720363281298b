------------------------ MODULE FanControllerProofs ------------------------
(***************************************************************************)
(* Theorems about FanController, for every set of files and temperatures   *)
(* and every number of kills and GPIO errors.                              *)
(***************************************************************************)
EXTENDS FanController, TLAPS

-----------------------------------------------------------------------------
(* The duty a curve asks for.                                              *)

LEMMA MulMono ==
    ASSUME NEW a \in Int, NEW b \in Int, NEW d \in Nat, a <= b
    PROVE  a * d <= b * d
<1>1. (b - a) \in Nat
    OBVIOUS
<1>2. (b - a) * d >= 0
    BY <1>1, Z3
<1> QED
    BY <1>2, Z3

(* Rounding n / d gives a value between any integer bounds of n / d.       *)
LEMMA RoundBounds ==
    ASSUME NEW n \in Int, NEW d \in Nat \ {0}, NEW a \in Int, NEW b \in Int,
           a * d <= n, n <= b * d
    PROVE  RoundHalfEven(n, d) \in a .. b
<1> DEFINE q == n \div d
           r == n % d
<1>1. /\ q \in Int /\ r \in 0 .. (d - 1)
      /\ n = q * d + r
    BY Z3
<1> HIDE DEF q, r
<1>2. a <= q
    <2>1. SUFFICES ASSUME q + 1 <= a PROVE FALSE
        BY <1>1
    <2>2. (q + 1) * d <= a * d
        BY <2>1, <1>1, MulMono
    <2>3. (q + 1) * d = q * d + d
        BY <1>1, Z3
    <2>4. q * d \in Int /\ a * d \in Int
        BY <1>1, Z3
    <2> QED
        BY <2>2, <2>3, <2>4, <1>1
<1>3. q <= b /\ (q = b => r = 0)
    <2>1. q * d \in Int /\ b * d \in Int
        BY <1>1, Z3
    <2>2. q <= b
        <3>1. SUFFICES ASSUME b + 1 <= q PROVE FALSE
            BY <1>1
        <3>2. (b + 1) * d <= q * d
            BY <3>1, <1>1, MulMono
        <3>3. (b + 1) * d = b * d + d
            BY Z3
        <3> QED
            BY <3>2, <3>3, <2>1, <1>1
    <2> QED
        BY <2>1, <2>2, <1>1
<1>4. RoundHalfEven(n, d) =
        IF 2 * r < d \/ (2 * r = d /\ q % 2 = 0) THEN q ELSE q + 1
    BY DEF RoundHalfEven, q, r
<1>5. CASE r = 0
    <2>1. 2 * r < d
        BY <1>5
    <2> QED
        BY <2>1, <1>4, <1>2, <1>3, <1>1
<1>6. CASE r # 0
    <2>1. q + 1 <= b
        BY <1>6, <1>3, <1>1
    <2>2. RoundHalfEven(n, d) = q \/ RoundHalfEven(n, d) = q + 1
        BY <1>4
    <2> QED
        BY <2>1, <2>2, <1>2, <1>3, <1>1
<1> QED
    BY <1>5, <1>6

LEMMA InterpolatedRange ==
    ASSUME NEW c, ValidConfig(c), NEW t \in Int, t < c.full_temp
    PROVE  Interpolated(t, c) \in c.min_duty .. 100
<1> DEFINE s == c.full_temp - c.start_temp
           m == c.min_duty
           e == IF t < c.start_temp THEN 0 ELSE t - c.start_temp
           n == m * s + e * (100 - m)
<1>1. /\ s \in Nat \ {0} /\ m \in 35 .. 100 /\ e \in Nat /\ e <= s
    BY DEF ValidConfig, Config
<1> HIDE DEF s, m, e
<1>2. 0 <= e * (100 - m)
    BY <1>1, Z3
<1>3. e * (100 - m) <= s * (100 - m)
    BY <1>1, MulMono, 100 - m \in Nat
<1>4. m * s + s * (100 - m) = 100 * s
    BY <1>1, Z3
<1>5. /\ m * s \in Int /\ e * (100 - m) \in Int /\ s * (100 - m) \in Int
    BY <1>1, Z3
<1>6. m * s <= n /\ n <= 100 * s /\ n \in Int
    BY <1>2, <1>3, <1>4, <1>5
<1>7. Interpolated(t, c) = RoundHalfEven(n, s)
    BY DEF Interpolated, s, m, e
<1> HIDE DEF n
<1>8. RoundHalfEven(n, s) \in m .. 100
    <2>1. m \in Int /\ 100 \in Int /\ s \in Nat \ {0}
        BY <1>1
    <2> QED
        BY <2>1, <1>6, RoundBounds, Zenon
<1> QED
    BY <1>7, <1>8 DEF m

(* A duty is 0 or within min_duty .. 100, and it is 0 exactly below the    *)
(* threshold that applies: a running fan is never asked for less than the  *)
(* minimum duty it needs to turn.                                          *)
THEOREM DutyRange ==
    ASSUME NEW c, ValidConfig(c), NEW t \in Int, NEW wasRunning \in BOOLEAN
    PROVE  /\ RequestedDuty(t, c, wasRunning) \in {0} \cup c.min_duty .. 100
           /\ RequestedDuty(t, c, wasRunning) = 0 <=> BelowThreshold(t, c, wasRunning)
<1>1. ~c.force /\ c.min_duty \in 35 .. 100 /\ c.full_temp \in Int
    BY DEF ValidConfig, Config
<1>2. CASE BelowThreshold(t, c, wasRunning)
    BY <1>1, <1>2 DEF RequestedDuty
<1>3. CASE ~BelowThreshold(t, c, wasRunning) /\ t >= c.full_temp
    BY <1>1, <1>3 DEF RequestedDuty
<1>4. CASE ~BelowThreshold(t, c, wasRunning) /\ t < c.full_temp
    <2>1. RequestedDuty(t, c, wasRunning) = Interpolated(t, c)
        BY <1>1, <1>4 DEF RequestedDuty
    <2>2. Interpolated(t, c) \in c.min_duty .. 100
        BY <1>4, InterpolatedRange
    <2> QED
        BY <1>1, <1>4, <2>1, <2>2
<1> QED
    BY <1>1, <1>2, <1>3, <1>4

-----------------------------------------------------------------------------
(* The inductive invariant.                                                *)

LEMMA NoCurveShape ==
    /\ NoCurve \in Config /\ NoCurve.force /\ NoCurve.gpio = ActiveGpio
    /\ NoCurve.start_temp = 20 /\ NoCurve.hysteresis = 0
<1>1. FailSafeConfig \in Config /\ FailSafeConfig.force
      /\ FailSafeConfig.start_temp = 20 /\ FailSafeConfig.hysteresis = 0
    BY DEF FailSafeConfig, Config
<1>2. ActiveGpio \in Int
    BY ActiveGpioAssumption DEF AllowedGpios
<1> HIDE DEF FailSafeConfig
<1> QED
    BY <1>1, <1>2 DEF NoCurve, OwnGpio, Config

LEMMA AbsentShape == Absent \in Status
    BY DEF Absent, Status, Unknown, NoPwm

LEMMA OwnGpioValid ==
    ASSUME NEW c, ValidConfig(c)
    PROVE  /\ ValidConfig(OwnGpio(c)) /\ OwnGpio(c).gpio = ActiveGpio
           /\ OwnGpio(c).force = c.force
    BY ActiveGpioAssumption DEF ValidConfig, OwnGpio, Config, AllowedGpios

(* The process ends cleanly: whatever the step, its locals are reset.      *)
LEMMA ExitIInv ==
    ASSUME IInv, Exit, pin' \in {0, 100},
           disk' \in Files, temp' \in Temps, wanted' \in BOOLEAN,
           kills' \in 0 .. MaxKills, faults' \in 0 .. MaxFaults
    PROVE  IInv'
<1>1. TypeOK'
    <2>1. pc' \in Locations /\ err' \in {"none", "config", "gpio", "failsafe"}
        BY DEF Exit, Locations
    <2>2. curve' \in Config /\ status' \in Status
        BY NoCurveShape, AbsentShape DEF Exit
    <2>3. prev' \in 0 .. 100 /\ duty' \in 0 .. 100 /\ reading' \in Temps \cup {Unknown}
        BY DEF Exit
    <2>4. stop' \in BOOLEAN /\ pwm' \in 0 .. 100 \cup {NoPwm} /\ stoppedAt' \in SUBSET Temps
        BY DEF Exit
    <2> QED
        BY <2>1, <2>2, <2>3, <2>4 DEF TypeOK
<1>2. CurveSound'
    BY NoCurveShape DEF Exit, CurveSound
<1> QED
    BY <1>1, <1>2 DEF Exit, IInv, DutyTracked, NoCurveIsFullSpeed, RoundConsistent, NoPwm

LEMMA FaultsBounded ==
    ASSUME TypeOK, GpioFault \/ GpioOk
    PROVE  faults' \in 0 .. MaxFaults
    BY BoundsAssumption DEF TypeOK, GpioFault, GpioOk

LEMMA InitIInv == Init => IInv
<1> SUFFICES ASSUME Init PROVE IInv
    OBVIOUS
<1>1. TypeOK
    <2>1. pc \in Locations /\ err \in {"none", "config", "gpio", "failsafe"}
        BY DEF Init, Locations
    <2>2. curve \in Config /\ status \in Status
        BY NoCurveShape, AbsentShape DEF Init
    <2>3. prev \in 0 .. 100 /\ duty \in 0 .. 100 /\ reading \in Temps \cup {Unknown}
        BY DEF Init
    <2>4. stop \in BOOLEAN /\ pwm \in 0 .. 100 \cup {NoPwm} /\ stoppedAt \in SUBSET Temps
        BY DEF Init
    <2>5. kills \in 0 .. MaxKills /\ faults \in 0 .. MaxFaults
        BY BoundsAssumption DEF Init
    <2>6. pin \in {0, 100} /\ disk \in Files /\ temp \in Temps /\ wanted \in BOOLEAN
        BY DEF Init
    <2> QED
        BY <2>1, <2>2, <2>3, <2>4, <2>5, <2>6 DEF TypeOK
<1>2. CurveSound
    BY NoCurveShape DEF Init, CurveSound
<1> QED
    BY <1>1, <1>2 DEF Init, IInv, DutyTracked, NoCurveIsFullSpeed, RoundConsistent, NoPwm

LEMMA NextIInv == IInv /\ [Next]_vars => IInv'
<1> SUFFICES ASSUME IInv, [Next]_vars PROVE IInv'
    OBVIOUS
<1> USE DEF IInv, GpioOk, Unknown, NoPwm
<1> DEFINE Other == CurveSound /\ DutyTracked /\ NoCurveIsFullSpeed /\ RoundConsistent
<1>0. Temps \subseteq Nat
    BY TempsAssumption
<1>1. CASE ServiceStart
    <2>1. TypeOK'
        BY <1>1 DEF ServiceStart, TypeOK, Locations, locals, gpio, outside
    <2>2. CurveSound' /\ DutyTracked' /\ NoCurveIsFullSpeed' /\ RoundConsistent'
        BY <1>1 DEF ServiceStart, locals, gpio, outside, CurveSound, DutyTracked,
                    NoCurveIsFullSpeed, RoundConsistent
    <2> QED
        BY <2>1, <2>2
<1>2. CASE InitialConfig
    <2>1. CurveSound' /\ curve' \in Config
        <3>1. CASE ValidConfig(disk)
            <4>1. curve' = OwnGpio(disk)
                BY <1>2, <3>1 DEF InitialConfig
            <4>2. ValidConfig(curve') /\ curve'.gpio = ActiveGpio
                BY <3>1, <4>1, OwnGpioValid
            <4>3. curve' \in Config
                BY <4>2 DEF ValidConfig
            <4> QED
                BY <4>2, <4>3 DEF CurveSound
        <3>2. CASE ~ValidConfig(disk)
            <4>1. curve' = NoCurve
                BY <1>2, <3>2 DEF InitialConfig, NoCurve
            <4> QED
                BY <4>1, NoCurveShape DEF CurveSound
        <3> QED
            BY <3>1, <3>2
    <2>2. TypeOK'
        BY <1>2, <2>1 DEF InitialConfig, TypeOK, Locations, gpio, outside
    <2>3. DutyTracked' /\ NoCurveIsFullSpeed' /\ RoundConsistent'
        BY <1>2 DEF InitialConfig, gpio, outside, DutyTracked, NoCurveIsFullSpeed,
                    RoundConsistent
    <2> QED
        BY <2>1, <2>2, <2>3
<1>3. CASE Setup
    <2>1. faults' \in 0 .. MaxFaults
        BY <1>3, FaultsBounded DEF Setup
    <2>2. TypeOK'
        BY <1>3, <2>1 DEF Setup, TypeOK, Locations, outside
    <2>3. CurveSound' /\ DutyTracked' /\ NoCurveIsFullSpeed' /\ RoundConsistent'
        BY <1>3 DEF Setup, outside, CurveSound, DutyTracked,
                    NoCurveIsFullSpeed, RoundConsistent
    <2> QED
        BY <2>2, <2>3
<1>4. CASE ReadConfig
    <2>1. CurveSound' /\ curve' \in Config
        <3>1. CASE ValidConfig(disk)
            <4>1. curve' = OwnGpio(disk)
                BY <1>4, <3>1 DEF ReadConfig
            <4>2. ValidConfig(curve') /\ curve'.gpio = ActiveGpio
                BY <3>1, <4>1, OwnGpioValid
            <4>3. curve' \in Config
                BY <4>2 DEF ValidConfig
            <4> QED
                BY <4>2, <4>3 DEF CurveSound
        <3>2. CASE ~ValidConfig(disk)
            BY <1>4, <3>2 DEF ReadConfig, CurveSound, TypeOK
        <3> QED
            BY <3>1, <3>2
    <2>2. TypeOK'
        BY <1>4, <2>1 DEF ReadConfig, TypeOK, Locations, gpio, outside
    <2>3. DutyTracked'
        BY <1>4 DEF ReadConfig, gpio, DutyTracked
    <2>4. curve' = curve \/ ~curve'.force
        BY <1>4, OwnGpioValid DEF ReadConfig, ValidConfig
    <2>5. NoCurveIsFullSpeed'
        BY <1>4, <2>4 DEF ReadConfig, gpio, NoCurveIsFullSpeed
    <2>6. RoundConsistent'
        BY <1>4 DEF ReadConfig, gpio, RoundConsistent
    <2> QED
        BY <2>1, <2>2, <2>3, <2>5, <2>6
<1>5. CASE LeaveLoop
    <2>1. TypeOK'
        BY <1>5 DEF LeaveLoop, TypeOK, Locations, locals, gpio, outside
    <2>2. CurveSound' /\ DutyTracked' /\ NoCurveIsFullSpeed' /\ RoundConsistent'
        BY <1>5 DEF LeaveLoop, locals, gpio, CurveSound, DutyTracked,
                    NoCurveIsFullSpeed, RoundConsistent
    <2> QED
        BY <2>1, <2>2
<1>6. CASE Sample
    <2>1. /\ temp \in Nat /\ curve \in Config /\ (prev > 0) \in BOOLEAN
          /\ ValidConfig(curve) \/ curve = NoCurve
        BY <1>0 DEF TypeOK, CurveSound
    <2> DEFINE d == RequestedDuty(temp, curve, prev > 0)
    <2>2. ASSUME ValidConfig(curve)
          PROVE  /\ d \in 0 .. 100 /\ (curve.force => d = 100)
                 /\ d > 0 /\ ~(prev > 0) => temp >= curve.start_temp
                 /\ d = 0 /\ prev > 0 => temp < curve.start_temp - curve.hysteresis
        <3>1. ~curve.force /\ curve.min_duty \in 35 .. 100
            BY <2>2 DEF ValidConfig
        <3>2. d \in {0} \cup curve.min_duty .. 100
              /\ (d = 0 <=> BelowThreshold(temp, curve, prev > 0))
            <4>1. temp \in Int
                BY <2>1
            <4> QED
                BY <4>1, <2>1, <2>2, DutyRange, Zenon
        <3> HIDE DEF d
        <3>3. /\ d \in 0 .. 100 /\ (curve.force => d = 100)
              /\ d > 0 /\ ~(prev > 0) => temp >= curve.start_temp
              /\ d = 0 /\ prev > 0 => temp < curve.start_temp - curve.hysteresis
            BY <2>1, <3>1, <3>2 DEF BelowThreshold, Config
        <3> QED
            BY <3>3
    <2>4. /\ d \in 0 .. 100 /\ (curve.force => d = 100)
          /\ d > 0 /\ ~(prev > 0) => curve.force \/ temp >= curve.start_temp
          /\ d = 0 /\ prev > 0 => temp < curve.start_temp - curve.hysteresis
        <3>1. CASE ValidConfig(curve)
            BY <3>1, <2>2
        <3>2. CASE curve = NoCurve
            BY <3>2, NoCurveShape DEF RequestedDuty
        <3> QED
            BY <3>1, <3>2, <2>1
    <2>5. \/ reading' = temp /\ duty' = d /\ pc' = (IF prev = 0 /\ duty' > 0 THEN "boost" ELSE "command")
          \/ pc' = "failsafe" /\ UNCHANGED <<reading, duty>>
        BY <1>6 DEF Sample
    <2>6. pc = "sample" /\ UNCHANGED <<curve, prev, err, stop, gpio, status, outside, faults, stoppedAt>>
        BY <1>6 DEF Sample
    <2> HIDE DEF d
    <2>7. TypeOK'
        BY <2>4, <2>5, <2>6 DEF TypeOK, Locations, gpio, outside
    <2>8. CurveSound' /\ DutyTracked' /\ NoCurveIsFullSpeed'
        BY <2>5, <2>6 DEF gpio, CurveSound, DutyTracked, NoCurveIsFullSpeed
    <2>9. RoundConsistent'
        BY <2>1, <2>4, <2>5, <2>6 DEF gpio, RoundConsistent, TypeOK, DutyTracked
    <2> QED
        BY <2>7, <2>8, <2>9
<1>7. CASE Boost
    <2>1. faults' \in 0 .. MaxFaults
        BY <1>7, FaultsBounded DEF Boost
    <2>2. TypeOK'
        BY <1>7, <2>1 DEF Boost, TypeOK, Locations, locals, gpio, outside
    <2>3. CurveSound' /\ DutyTracked' /\ NoCurveIsFullSpeed'
        BY <1>7 DEF Boost, locals, gpio, CurveSound, DutyTracked,
                    NoCurveIsFullSpeed, RoundConsistent, TypeOK
    <2>4. RoundConsistent'
        BY <1>7 DEF Boost, locals, gpio, RoundConsistent, TypeOK, DutyTracked
    <2> QED
        BY <2>2, <2>3, <2>4
<1>8. CASE BoostWait
    <2>1. TypeOK'
        BY <1>8 DEF BoostWait, TypeOK, Locations, locals, gpio, outside
    <2>2. CurveSound' /\ DutyTracked' /\ NoCurveIsFullSpeed' /\ RoundConsistent'
        BY <1>8 DEF BoostWait, locals, gpio, CurveSound, DutyTracked,
                    NoCurveIsFullSpeed, RoundConsistent, TypeOK
    <2> QED
        BY <2>1, <2>2
<1>9. CASE Command
    <2>1. faults' \in 0 .. MaxFaults
        BY <1>9, FaultsBounded DEF Command
    <2>2. TypeOK'
        BY <1>9, <2>1, <1>0 DEF Command, TypeOK, Locations, locals, gpio, outside,
                                RoundConsistent
    <2>3. CurveSound' /\ DutyTracked' /\ NoCurveIsFullSpeed'
        BY <1>9 DEF Command, locals, gpio, CurveSound, DutyTracked,
                    NoCurveIsFullSpeed, RoundConsistent, TypeOK
    <2>4. RoundConsistent'
        <3>1. /\ pc = "command" /\ curve' = curve
              /\ reading' = reading /\ duty' = duty /\ prev' = prev
            BY <1>9 DEF Command, locals
        <3>2. ~curve.force \/ duty = 100
            BY <3>1 DEF RoundConsistent
        <3>3. \A s \in stoppedAt' : ~curve.force /\ s < curve.start_temp - curve.hysteresis
            BY <1>9, <3>1, <3>2 DEF Command, RoundConsistent, TypeOK
        <3>4. pc' \in {"publish", "failsafe"}
            BY <1>9 DEF Command
        <3> QED
            BY <3>1, <3>3, <3>4 DEF RoundConsistent
    <2> QED
        BY <2>2, <2>3, <2>4
<1>10. CASE Failsafe
    <2>1. faults' \in 0 .. MaxFaults
        BY <1>10, FaultsBounded DEF Failsafe
    <2>2. TypeOK'
        BY <1>10, <2>1 DEF Failsafe, TypeOK, Locations, locals, gpio, outside
    <2>3. CurveSound' /\ DutyTracked' /\ NoCurveIsFullSpeed'
        BY <1>10 DEF Failsafe, locals, gpio, CurveSound, DutyTracked,
                    NoCurveIsFullSpeed, RoundConsistent, TypeOK
    <2>4. RoundConsistent'
        BY <1>10 DEF Failsafe, locals, gpio, RoundConsistent, TypeOK, DutyTracked
    <2> QED
        BY <2>2, <2>3, <2>4
<1>11. CASE Publish
    <2>1. TypeOK'
        BY <1>11 DEF Publish, TypeOK, Status, Locations, locals, gpio, outside
    <2>2. CurveSound' /\ DutyTracked' /\ NoCurveIsFullSpeed' /\ RoundConsistent'
        BY <1>11 DEF Publish, locals, gpio, CurveSound, DutyTracked,
                    NoCurveIsFullSpeed, RoundConsistent, TypeOK
    <2> QED
        BY <2>1, <2>2
<1>12. CASE Wait
    <2>1. TypeOK'
        BY <1>12 DEF Wait, TypeOK, Locations, locals, gpio, outside
    <2>2. CurveSound' /\ DutyTracked' /\ NoCurveIsFullSpeed' /\ RoundConsistent'
        BY <1>12 DEF Wait, locals, gpio, CurveSound, DutyTracked,
                    NoCurveIsFullSpeed, RoundConsistent, TypeOK
    <2> QED
        BY <2>1, <2>2
<1>13. CASE Final
    <2>1. faults' \in 0 .. MaxFaults
        BY <1>13, FaultsBounded DEF Final
    <2>2. TypeOK'
        BY <1>13, <2>1 DEF Final, TypeOK, Locations, locals, gpio, outside
    <2>3. CurveSound' /\ DutyTracked' /\ NoCurveIsFullSpeed'
        BY <1>13 DEF Final, locals, gpio, CurveSound, DutyTracked,
                    NoCurveIsFullSpeed, RoundConsistent, TypeOK
    <2>4. RoundConsistent'
        BY <1>13 DEF Final, locals, gpio, RoundConsistent, TypeOK, DutyTracked
    <2> QED
        BY <2>2, <2>3, <2>4
<1>14. CASE StopPwm
    <2>1. faults' \in 0 .. MaxFaults
        BY <1>14, FaultsBounded DEF StopPwm
    <2>2. TypeOK'
        BY <1>14, <2>1 DEF StopPwm, TypeOK, Locations, locals, gpio, outside
    <2>3. CurveSound' /\ DutyTracked' /\ NoCurveIsFullSpeed'
        BY <1>14 DEF StopPwm, locals, gpio, CurveSound, DutyTracked,
                    NoCurveIsFullSpeed, RoundConsistent, TypeOK
    <2>4. RoundConsistent'
        BY <1>14 DEF StopPwm, locals, gpio, RoundConsistent, TypeOK, DutyTracked
    <2> QED
        BY <2>2, <2>3, <2>4
<1>15. CASE DriveHigh
    <2>1. faults' \in 0 .. MaxFaults
        BY <1>15, FaultsBounded DEF DriveHigh
    <2>2. pin' \in {0, 100}
        BY <1>15 DEF DriveHigh, Leftover
    <2>3. disk' \in Files /\ temp' \in Temps /\ wanted' \in BOOLEAN /\ kills' \in 0 .. MaxKills
        BY <1>15 DEF DriveHigh, outside, TypeOK
    <2>4. Exit
        BY <1>15 DEF DriveHigh
    <2> QED
        BY <2>1, <2>2, <2>3, <2>4, ExitIInv
<1>23. CASE OutputFails
    <2>1. /\ pin' \in {0, 100} /\ disk' \in Files /\ temp' \in Temps /\ wanted' \in BOOLEAN
          /\ kills' \in 0 .. MaxKills /\ faults' \in 0 .. MaxFaults
        BY <1>23 DEF OutputFails, outside, TypeOK
    <2>2. Exit
        BY <1>23 DEF OutputFails
    <2> QED
        BY <2>1, <2>2, ExitIInv
<1>16. CASE Kill
    <2>1. kills' \in 0 .. MaxKills
        BY <1>16, BoundsAssumption DEF Kill, TypeOK
    <2>2. pin' \in {0, 100}
        BY <1>16 DEF Kill, Leftover
    <2>3. disk' \in Files /\ temp' \in Temps /\ wanted' \in BOOLEAN /\ faults' \in 0 .. MaxFaults
        BY <1>16 DEF Kill, TypeOK
    <2>4. Exit
        BY <1>16 DEF Kill
    <2> QED
        BY <2>1, <2>2, <2>3, <2>4, ExitIInv
<1>17. CASE SystemctlStop
    <2>1. CASE pc = "import"
        <3>1. /\ pin' \in {0, 100} /\ disk' \in Files /\ temp' \in Temps /\ wanted' \in BOOLEAN
              /\ kills' \in 0 .. MaxKills /\ faults' \in 0 .. MaxFaults
            BY <1>17 DEF SystemctlStop, TypeOK
        <3>2. Exit
            BY <1>17, <2>1 DEF SystemctlStop
        <3> QED
            BY <3>1, <3>2, ExitIInv
    <2>2. CASE pc # "import"
        <3>1. TypeOK'
            <4>1. stop' \in BOOLEAN
                BY <1>17, <2>2, Zenon DEF SystemctlStop
            <4>2. wanted' \in BOOLEAN
                BY <1>17 DEF SystemctlStop
            <4>3. UNCHANGED <<pc, locals, pwm, status, stoppedAt, pin, disk, temp, kills, faults>>
                BY <1>17, <2>2 DEF SystemctlStop
            <4> QED
                BY <4>1, <4>2, <4>3 DEF TypeOK, locals
        <3>2. CurveSound' /\ DutyTracked' /\ NoCurveIsFullSpeed' /\ RoundConsistent'
            BY <1>17, <2>2 DEF SystemctlStop, locals, CurveSound, DutyTracked,
                        NoCurveIsFullSpeed, RoundConsistent
        <3> QED
            BY <3>1, <3>2
    <2> QED
        BY <2>1, <2>2
<1>18. CASE SystemctlStart
    <2>1. TypeOK'
        BY <1>18 DEF SystemctlStart, TypeOK, Locations, locals, gpio, outside
    <2>2. CurveSound' /\ DutyTracked' /\ NoCurveIsFullSpeed' /\ RoundConsistent'
        BY <1>18 DEF SystemctlStart, locals, gpio, CurveSound, DutyTracked,
                    NoCurveIsFullSpeed, RoundConsistent, TypeOK
    <2> QED
        BY <2>1, <2>2
<1>19. CASE PutFanConfig
    <2>1. TypeOK'
        BY <1>19 DEF PutFanConfig, TypeOK, Locations, locals, gpio, outside
    <2>2. CurveSound' /\ DutyTracked' /\ NoCurveIsFullSpeed' /\ RoundConsistent'
        BY <1>19 DEF PutFanConfig, locals, gpio, CurveSound, DutyTracked,
                    NoCurveIsFullSpeed, RoundConsistent, TypeOK
    <2> QED
        BY <2>1, <2>2
<1>20. CASE EditFile
    <2>1. TypeOK'
        BY <1>20 DEF EditFile, TypeOK, Locations, locals, gpio, outside
    <2>2. CurveSound' /\ DutyTracked' /\ NoCurveIsFullSpeed' /\ RoundConsistent'
        BY <1>20 DEF EditFile, locals, gpio, CurveSound, DutyTracked,
                    NoCurveIsFullSpeed, RoundConsistent, TypeOK
    <2> QED
        BY <2>1, <2>2
<1>21. CASE Heat
    <2>1. TypeOK'
        BY <1>21 DEF Heat, TypeOK, Locations, locals, gpio, outside
    <2>2. CurveSound' /\ DutyTracked' /\ NoCurveIsFullSpeed' /\ RoundConsistent'
        BY <1>21 DEF Heat, locals, gpio, CurveSound, DutyTracked,
                    NoCurveIsFullSpeed, RoundConsistent, TypeOK
    <2> QED
        BY <2>1, <2>2
<1>22. CASE UNCHANGED vars
    BY <1>22 DEF vars, locals, gpio, outside, TypeOK, CurveSound, DutyTracked,
                 NoCurveIsFullSpeed, RoundConsistent
<1> QED
    BY <1>1, <1>2, <1>3, <1>4, <1>5, <1>6, <1>7, <1>8, <1>9, <1>10, <1>11, <1>12, <1>13,
       <1>14, <1>15, <1>16, <1>17, <1>18, <1>19, <1>20, <1>21, <1>22, <1>23
       DEF Next, Controller, Outside

THEOREM IInvHolds == Spec => []IInv
<1>1. Init => IInv
    BY InitIInv
<1>2. IInv /\ [Next]_vars => IInv'
    BY NextIInv
<1> QED
    BY <1>1, <1>2, PTL DEF Spec

-----------------------------------------------------------------------------
(* What follows from it.                                                   *)

(* Every local and every file record of the controller keeps its range.    *)
THEOREM TypeCorrect == Spec => []TypeOK
<1>1. IInv => TypeOK
    BY DEF IInv
<1> QED
    BY <1>1, IInvHolds, PTL

(* The curve in use is always a validated one, or the full-speed one, on   *)
(* the GPIO the installer chose.                                           *)
THEOREM CurveAlwaysSound == Spec => []CurveSound
<1>1. IInv => CurveSound
    BY DEF IInv
<1> QED
    BY <1>1, IInvHolds, PTL

(* previous_duty never drifts from the PWM, through every GPIO error.      *)
THEOREM DutyAlwaysTracked == Spec => []DutyTracked
<1>1. IInv => DutyTracked
    BY DEF IInv
<1> QED
    BY <1>1, IInvHolds, PTL

(* Without a valid curve a running fan is at full speed.                   *)
THEOREM FailsafeStart == Spec => []NoCurveIsFullSpeed
<1>1. IInv => NoCurveIsFullSpeed
    BY DEF IInv
<1> QED
    BY <1>1, IInvHolds, PTL

(* Hysteresis works for every curve and every series of readings.          *)
THEOREM Hysteresis == Spec => []NoChatter
<1>1. IInv => NoChatter
    <2> SUFFICES ASSUME IInv, pc = "boost", NEW s \in stoppedAt
                 PROVE  reading > s + curve.hysteresis
        BY DEF NoChatter
    <2>1. reading >= curve.start_temp /\ s < curve.start_temp - curve.hysteresis
        BY DEF IInv, RoundConsistent
    <2>2. s \in Nat /\ reading \in Int /\ curve.start_temp \in Int /\ curve.hysteresis \in Int
        BY TempsAssumption DEF IInv, TypeOK, Config, Unknown
    <2> QED
        BY <2>1, <2>2
<1> QED
    BY <1>1, IInvHolds, PTL

(* No step takes a resting fan to a partial duty.                          *)
THEOREM ColdStartsBoosted == Spec => NoColdStart
<1>1. IInv /\ [Next]_vars => [pwm = 0 => pwm' \in {0, 100, NoPwm}]_vars
    <2> SUFFICES ASSUME IInv, Next, pwm = 0 PROVE pwm' \in {0, 100, NoPwm}
        OBVIOUS
    <2>1. pc = "command" => duty = 0
        BY DEF IInv, RoundConsistent
    <2> QED
        BY <2>1 DEF Next, Controller, Outside, ServiceStart, InitialConfig, Setup, ReadConfig,
            LeaveLoop, Sample, Boost, BoostWait, Command, Failsafe, Publish, Wait, Final,
            StopPwm, DriveHigh, OutputFails, Kill, SystemctlStop, SystemctlStart, PutFanConfig, EditFile,
            Heat, Exit, gpio
<1> QED
    BY <1>1, IInvHolds, PTL DEF Spec, NoColdStart

(* Every published status tells the true duty, and a lost sensor is at     *)
(* full speed.                                                             *)
THEOREM StatusIsHonest == Spec => StatusHonest
<1>1. IInv /\ [Next]_vars =>
        [status' # status /\ status' # Absent =>
            /\ status'.speed = pwm
            /\ status'.temp = Unknown => pwm = 100]_vars
    <2> SUFFICES ASSUME IInv, Next, status' # status, status' # Absent
                 PROVE  status'.speed = pwm /\ (status'.temp = Unknown => pwm = 100)
        OBVIOUS
    <2>1. Publish
        BY DEF Next, Controller, Outside, ServiceStart, InitialConfig, Setup, ReadConfig,
            LeaveLoop, Sample, Boost, BoostWait, Command, Failsafe, Wait, Final,
            StopPwm, DriveHigh, OutputFails, Kill, SystemctlStop, SystemctlStart, PutFanConfig, EditFile,
            Heat, Exit
    <2>2. status' = [temp |-> reading, speed |-> duty, err |-> err]
        BY <2>1 DEF Publish
    <2>3. pwm = duty /\ (reading = Unknown => duty = 100)
        BY <2>1 DEF Publish, IInv, DutyTracked, RoundConsistent
    <2> QED
        BY <2>2, <2>3
<1> QED
    BY <1>1, IInvHolds, PTL DEF Spec, StatusHonest

-----------------------------------------------------------------------------
(* How the process ends.                                                   *)

(* Where main() gave up its pin: it got past GPIO.setup only, or kept its  *)
(* PWM, when a GPIO call had failed.                                       *)
EndsExplained ==
    /\ pc = "unset" => faults > 0
    /\ pc = "high" /\ pwm # NoPwm => faults > 0

LEMMA FaultCounts ==
    ASSUME TypeOK, GpioFault
    PROVE  faults' > 0
    BY BoundsAssumption DEF TypeOK, GpioFault

LEMMA EndsStayExplained == TypeOK /\ EndsExplained /\ [Next]_vars => EndsExplained'
<1> SUFFICES ASSUME TypeOK, EndsExplained, [Next]_vars PROVE EndsExplained'
    OBVIOUS
<1>1. CASE Setup
    BY <1>1, FaultCounts DEF Setup, EndsExplained
<1>2. CASE StopPwm
    BY <1>2, FaultCounts DEF StopPwm, EndsExplained
<1>3. CASE InitialConfig \/ ReadConfig \/ LeaveLoop \/ Sample \/ Boost \/ BoostWait
           \/ Command \/ Failsafe \/ Publish \/ Wait \/ Final
    BY <1>3 DEF InitialConfig, ReadConfig, LeaveLoop, Sample, Boost, BoostWait, Command,
                Failsafe, Publish, Wait, Final, EndsExplained
<1>4. CASE ServiceStart \/ DriveHigh \/ OutputFails \/ Kill
    BY <1>4 DEF ServiceStart, DriveHigh, OutputFails, Kill, Exit, EndsExplained
<1>5. CASE SystemctlStop
    BY <1>5 DEF SystemctlStop, Exit, EndsExplained
<1>6. CASE SystemctlStart \/ PutFanConfig \/ EditFile \/ Heat
    BY <1>6 DEF SystemctlStart, PutFanConfig, EditFile, Heat, gpio, EndsExplained
<1>7. CASE UNCHANGED vars
    BY <1>7 DEF vars, gpio, EndsExplained
<1> QED
    BY <1>1, <1>2, <1>3, <1>4, <1>5, <1>6, <1>7 DEF Next, Controller, Outside

(* The finally block keeps its promise on every path that reaches the end  *)
(* of main(): unless the process was killed or a GPIO call failed, it ends *)
(* with the pin high, whatever stop() left on it.  What StopLeavesFull     *)
(* says of the end, without that a stop request ever gets there.           *)
THEOREM EndLeavesFull ==
    Spec => [][pc \notin {"off", "import"} /\ pc' = "off" /\ kills' + faults' = 0
                   => pin' = 100]_vars
<1>1. Init => EndsExplained
    BY DEF Init, EndsExplained
<1>2. TypeOK /\ EndsExplained /\ [Next]_vars =>
        [pc \notin {"off", "import"} /\ pc' = "off" /\ kills' + faults' = 0
             => pin' = 100]_vars
    <2> SUFFICES ASSUME TypeOK, EndsExplained, Next, pc \notin {"off", "import"},
                        pc' = "off", kills' + faults' = 0
                 PROVE  pin' = 100
        OBVIOUS
    <2>0. kills \in Nat /\ faults \in Nat
        BY BoundsAssumption DEF TypeOK
    <2>1. DriveHigh \/ OutputFails \/ Kill
        BY DEF Next, Controller, Outside, ServiceStart, InitialConfig, Setup, ReadConfig,
            LeaveLoop, Sample, Boost, BoostWait, Command, Failsafe, Publish, Wait, Final,
            StopPwm, SystemctlStop, SystemctlStart, PutFanConfig, EditFile, Heat
    <2>2. ~Kill
        <3>1. Kill => kills' = kills + 1 /\ faults' = faults
            BY DEF Kill
        <3> QED
            BY <2>0, <3>1
    <2>3. CASE DriveHigh
        <3>1. kills' = kills /\ (faults' = faults \/ faults' = faults + 1)
            BY <2>3 DEF DriveHigh, outside, GpioOk, GpioFault
        <3>2. faults = 0 /\ faults' = faults
            BY <2>0, <3>1
        <3>3. pwm = NoPwm
            BY <2>3, <3>2 DEF DriveHigh, EndsExplained
        <3>4. ~GpioFault
            BY <2>0, <3>2 DEF GpioFault
        <3> QED
            BY <2>3, <3>3, <3>4 DEF DriveHigh
    <2>4. CASE OutputFails
        <3>1. kills' = kills /\ faults' = faults
            BY <2>4 DEF OutputFails, outside
        <3>2. faults > 0
            BY <2>4 DEF OutputFails, EndsExplained
        <3> QED
            BY <2>0, <3>1, <3>2
    <2> QED
        BY <2>1, <2>2, <2>3, <2>4
<1> QED
    BY <1>1, <1>2, EndsStayExplained, TypeCorrect, PTL DEF Spec
=============================================================================
