SPECIFICATION FairSpec
CONSTANTS
    Readers = {r1, r2}  Nobody = Nobody
    Keys = {k1, k2}     NoKey = NoKey
    Ttl = 1  FetchMax = 1  Pause = 1  MaxNow = 5
INVARIANTS TypeOK OwnFleet FreshIsRecent
PROPERTIES AllAnswered
