CONSTANTS
    Addrs <- MCAddrs
    MaxDns = 4
    LeaseBytes <- MCLeaseBytes
INIT RoundTripInit
NEXT RoundTripNext
INVARIANTS
    RoundTrip
