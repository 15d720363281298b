SPECIFICATION Spec
CONSTANTS
    ActiveGpio = 14
    Files <- SomeFiles
    Temps <- AllTemps
    MaxKills = 1
    MaxFaults = 1
INVARIANTS TypeOK CurveSound NoCurveIsFullSpeed NoChatter
PROPERTIES NoColdStart StatusHonest
