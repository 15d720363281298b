SPECIFICATION Spec
CONSTANTS
    Threads = {t1, t2}
    login = login
    status = status
    general = general
    Keys = {login, status, general}
    NoKey = NoKey
    Limit <- Limits
    Window <- Windows
    MaxKeys = 2
    Pause = 1
    MaxNow = 5
INVARIANTS TypeOK WindowKept
PROPERTIES RefusedForAReason
