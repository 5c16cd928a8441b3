INIT LeaseInit
NEXT LeaseNext
INVARIANT T1IsHalfLease
