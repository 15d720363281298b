SPECIFICATION Spec
CONSTANTS
    Chunk = 2
    MaxHead = 4
    Term = 2
    MaxBody = 3
    Deadline = 2
    Stale = 2
    Pause = 1
    Foreign <- Others
    OwnHead = 3
    OwnBody = 2
    MaxSetBack = 2
    MaxNow = 10
INVARIANTS TypeOK EndsInTime JudgedRight AgeBounded
CHECK_DEADLOCK FALSE
