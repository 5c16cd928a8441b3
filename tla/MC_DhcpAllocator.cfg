CONSTANTS
    l1 = l1
    l2 = l2
    m1 = m1
    m2 = m2
    m3 = m3
    Links <- MCLinks
    Macs <- MCMacs
    PoolStart = 252
    PoolEnd = 254
INIT AllocInit
NEXT AllocNext
INVARIANTS
    AllocTypeOK
    LeaseUnique
PROPERTIES
    LeaseStable
    ImplementsLeaseTable
\* With the pool ending at .254 the fourth new key makes getOfferAddress spin
\* in its skip loop: the server thread really stops there.
CHECK_DEADLOCK FALSE
