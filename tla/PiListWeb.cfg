SPECIFICATION FairSpec
CONSTANTS
    Names <- MCNames
    Ips <- MCIps
    Fold <- MCFold
    Entries <- MCEntries
    Self <- MCSelf
    MaxPis = 2
    Clients = {c1, c2}
    Nobody = nobody
    Missing = missing
    Bad = bad
    Installer = FALSE
    Tampering = FALSE
INVARIANTS TypeOK
PROPERTIES ImplementsRegistry LockReleased
