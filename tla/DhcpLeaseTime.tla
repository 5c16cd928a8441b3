---------------------------- MODULE DhcpLeaseTime ----------------------------
(***************************************************************************)
(* The lease times a client derives from a DHCPACK.                       *)
(*                                                                         *)
(* The server appends its lease time with the template                    *)
(* Message::addOption<uint32_t>(OPT_LEASE_TIME, kDefaultLeaseTime), which *)
(* memcpy's the value in host byte order.  DhcpClient::configureDhcp      *)
(* reads the option with ntohl.  On a little-endian host (the Raspberry   *)
(* Pi 3 this repository builds for) the two disagree: the client reads    *)
(* the byte-reversed value.  configureDhcp then computes, in uint32_t,    *)
(*     T1 = leaseTime / 2,  T2 = (leaseTime * 7) / 8                      *)
(* when the reply carries no T1/T2 option, which this server never sends. *)
(*                                                                         *)
(* TLC's integers stop at 2^31 - 1, so 32-bit arithmetic is done on       *)
(* 16-bit halves.                                                          *)
(***************************************************************************)
EXTENDS Naturals

Half == 65536

\* kDefaultLeaseTime in message.cpp: 10 minutes.
kDefaultLeaseTime == 600

\* The bytes of a uint32_t written in one byte order and read in the other.
ByteSwap32(x) ==
    LET b0 == x % 256
        b1 == (x \div 256) % 256
        b2 == (x \div Half) % 256
        b3 == x \div (Half * 256)
    IN  ((b0 * 256 + b1) * 256 + b2) * 256 + b3

\* ntohl(*reinterpret_cast<const uint32_t*>(opt)) of the option the server
\* wrote: on a little-endian host ntohl swaps, on a big-endian one it does
\* not, and the host-order write then agrees with the wire order.
LeaseTimeRead(value, littleEndian) ==
    IF littleEndian THEN ByteSwap32(value) ELSE value

\* mDhcpInfo.leaseTime / 2
T1Of(lease) == lease \div 2

\* (mDhcpInfo.leaseTime * 7) / 8 with the product taken modulo 2^32.
T2Of(lease) ==
    LET lo   == (lease % Half) * 7
        hi   == ((lease \div Half) * 7 + lo \div Half) % Half
    IN  hi * (Half \div 8) + (lo % Half) \div 8
=============================================================================
