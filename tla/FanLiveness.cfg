SPECIFICATION FairSpec
CONSTANTS
    ActiveGpio = 14
    Files <- SomeFiles
    Temps <- FewTemps
    MaxKills = 1
    MaxFaults = 1
PROPERTIES HotIsCooled ConfigAdopted StopLeavesFull
