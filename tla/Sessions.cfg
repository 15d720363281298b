SPECIFICATION Spec
CONSTANTS
    Threads = {t1, t2}
    Tokens = {k1, k2, k3}
    MaxSessions = 2
    Ttl = 2
    MaxVersion = 2
    MaxClock = 2
    NoToken = none
SYMMETRY Symmetry
INVARIANTS TypeOK AcceptedIsCurrent Bounded
PROPERTIES EndsForAReason
