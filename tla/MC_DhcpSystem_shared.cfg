CONSTANTS
    c1 = c1
    c2 = c2
    l1 = l1
    l2 = l2
    m1 = m1
    m2 = m2
    noLink = noLink
    Clients <- TwoClients
    Links <- MCLinks
    Macs <- MCMacs
    ClientLink <- SharedLink
    ClientMac <- OwnMacs
    ExcludeLink <- noLink
    PoolStart = 1
    PoolEnd = 1
    MaxXid = 3
    LittleEndian = TRUE
INIT Init
NEXT Next
INVARIANTS
    AckIsLease
