-------------------------- MODULE MC_DhcpLeaseTime --------------------------
(* The lease times a client of this server computes, on a host of either  *)
(* byte order.                                                             *)
EXTENDS DhcpLeaseTime

VARIABLE littleEndian

LeaseInit == littleEndian \in BOOLEAN
LeaseNext == UNCHANGED littleEndian

(***************************************************************************)
(* Spec section 8, full handshake: for a lease time of 600 s sent without *)
(* a T1 option the client is Bound with T1 = leaseTime / 2 = 300 s.  The  *)
(* client's T1 from the server's DHCPACK (Message::ack, configureDhcp).   *)
(***************************************************************************)
T1IsHalfLease ==
    T1Of(LeaseTimeRead(kDefaultLeaseTime, littleEndian))
        = kDefaultLeaseTime \div 2
=============================================================================
