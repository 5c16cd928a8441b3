--------------------------- MODULE DhcpAllocator ---------------------------
(***************************************************************************)
(* The DHCP server's address allocator, DhcpServer::getOfferAddress in     *)
(* src/dhcp/server/dhcpserver.cpp.  A lease is keyed by the pair          *)
(* (interface index, client MAC address) (struct Lease in lease.h); the    *)
(* table mLeases maps a key to an IPv4 address, 0 standing for "no entry" *)
(* (operator[] creates a zero entry).  One cursor, mNextAddressOffset, is *)
(* shared by every key and only grows.                                     *)
(*                                                                         *)
(* Addresses are modelled in host byte order (the code converts with      *)
(* ntohl/htonl around the arithmetic), so the low byte of address a is    *)
(* a % 256.                                                                *)
(***************************************************************************)
EXTENDS Naturals

CONSTANTS
    Links,      \* interface indices the server receives on (nonzero)
    Macs,       \* client hardware addresses
    PoolStart,  \* ntohl(mDhcpRangeStart)
    PoolEnd     \* ntohl(mDhcpRangeEnd)

\* main.cpp refuses a zero range start or end; addresses are 32-bit.
ASSUME PoolAssumption ==
    /\ PoolStart \in Nat \ {0}
    /\ PoolEnd \in Nat \ {0}

VARIABLES
    leases,   \* mLeases: key -> address, 0 when the key has no address
    cursor,   \* mNextAddressOffset
    hung      \* TRUE once a call of getOfferAddress never returns

allocVars == <<leases, cursor, hung>>

Keys == Links \X Macs

\* The address the cursor designates: ntohl(mDhcpRangeStart) + offset.
Candidate == PoolStart + cursor

\* lastAddressByte == 0xFF || lastAddressByte == 0: a broadcast- or
\* network-looking address.
Reserved(a) == a % 256 \in {0, 255}

(***************************************************************************)
(* The three outcomes of getOfferAddress for key k.  The skip loop        *)
(*     while (lastAddressByte == 0xFF || lastAddressByte == 0) {          *)
(*         ++nextAddress; ++mNextAddressOffset; }                          *)
(* never recomputes lastAddressByte, so once entered it never exits: the  *)
(* call, and the server's single-threaded loop with it, hangs.            *)
(***************************************************************************)
AllocHangs(k) == leases[k] = 0 /\ Reserved(Candidate)

\* Plausible fault: allocating without testing for a stored address.
AllocFreshAlways(k) ==
    /\ ~Reserved(Candidate)
    /\ Candidate <= PoolEnd

AllocFresh(k) ==
    /\ leases[k] = 0
    /\ ~Reserved(Candidate)
    /\ Candidate <= PoolEnd

\* The address getOfferAddress returns for k, 0 for the "out of
\* addresses" error.  Only meaningful when ~AllocHangs(k).
OfferAddress(k) == IF AllocFresh(k) THEN Candidate ELSE leases[k]

\* The table and cursor after a call that returns.
LeasesAfter(k) ==
    IF AllocFresh(k) THEN [leases EXCEPT ![k] = Candidate] ELSE leases

\* Plausible faults: forgetting ++mNextAddressOffset after storing, or
\* stepping the cursor back when the pool is exhausted.
CursorAfterNoAdvance(k) == cursor
CursorAfterRollback(k) == IF AllocFresh(k) THEN cursor + 1 ELSE cursor - 1

CursorAfter(k) == IF AllocFresh(k) THEN cursor + 1 ELSE cursor

(***************************************************************************)
(* One call of getOfferAddress(k), as a step of a caller that has no      *)
(* other effect.                                                           *)
(***************************************************************************)
GetOfferAddress(k) ==
    \/ /\ AllocHangs(k)
       /\ hung' = TRUE
       /\ UNCHANGED <<leases, cursor>>
    \/ /\ ~AllocHangs(k)
       /\ leases' = LeasesAfter(k)
       /\ cursor' = CursorAfter(k)
       /\ UNCHANGED hung

AllocInit ==
    /\ leases = [k \in Keys |-> 0]
    /\ cursor = 0
    /\ hung = FALSE

\* The server thread handles one request at a time (DhcpServer::run); after a
\* hang it spins in the skip loop for ever and takes no further step.
AllocNext == ~hung /\ \E k \in Keys : GetOfferAddress(k)

AllocSpec == AllocInit /\ [][AllocNext]_allocVars

-----------------------------------------------------------------------------
AllocTypeOK ==
    /\ leases \in [Keys -> Nat]
    /\ cursor \in Nat
    /\ hung \in BOOLEAN

(***************************************************************************)
(* Two different (interface, MAC) keys never hold the same address: the   *)
(* shared cursor must move past every address it hands out.               *)
(***************************************************************************)
LeaseUnique ==
    \A k1, k2 \in Keys :
        k1 # k2 /\ leases[k1] # 0 => leases[k1] # leases[k2]

(***************************************************************************)
(* A key that has an address keeps it: repeated DISCOVERs and REQUESTs of *)
(* the same client get the same address (getOfferAddress allocates only   *)
(* when the stored value is 0).                                            *)
(***************************************************************************)
LeaseStable ==
    [][\A k \in Keys : leases[k] # 0 => leases'[k] = leases[k]]_allocVars

(***************************************************************************)
(* The inductive form of LeaseUnique: every address handed out lies in    *)
(* the pool, is not reserved, and is below the cursor's candidate.        *)
(***************************************************************************)
LeaseBelowCursor ==
    \A k \in Keys :
        leases[k] # 0 => /\ PoolStart <= leases[k]
                         /\ leases[k] < Candidate
                         /\ leases[k] <= PoolEnd
                         /\ ~Reserved(leases[k])

(***************************************************************************)
(* The allocator implements the lease table of the specification: under  *)
(* the mapping that forgets the cursor and the hang, every call of        *)
(* getOfferAddress either leaves the table as it was or gives a key that  *)
(* had no address a free, non-reserved address of the pool.  This is      *)
(* about the cursor arithmetic, the pool-end test and the lookup before   *)
(* allocation taken together.                                              *)
(***************************************************************************)
LT == INSTANCE LeaseTable WITH table <- leases

ImplementsLeaseTable == LT!TableSpec

AllocInv == AllocTypeOK /\ LeaseBelowCursor /\ LeaseUnique
=============================================================================
