SPECIFICATION Spec
CONSTANTS
    Names <- MCNames
    Ips <- MCIps
    Fold <- MCFold
    Entries <- MCEntries
    Self <- MCSelf
    MaxPis = 2
    Clients = {c1, c2}
    Nobody = nobody
    Missing = missing
    Bad = bad
    Installer = TRUE
    Tampering = TRUE
SYMMETRY Symmetry
INVARIANTS FileValid
PROPERTIES BadIsKept
