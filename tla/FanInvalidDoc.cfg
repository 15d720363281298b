SPECIFICATION Spec
CONSTANTS
    ActiveGpio = 14
    Files <- SomeFiles
    Temps <- FewTemps
    MaxKills = 0
    MaxFaults = 0
INVARIANTS InvalidConfigIsFullSpeed
