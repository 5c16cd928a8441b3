--------------------------- MODULE MC_DhcpChecksum ---------------------------
(***************************************************************************)
(* sendRawUdp and receiveRawUdp on every message of at most MaxMessage    *)
(* bytes drawn from ByteVals.  A state is one datagram's addressing (the  *)
(* client's broadcast to the server port, or a reply addressed to the     *)
(* client port) and the message built so far; each step appends a byte.  *)
(***************************************************************************)
EXTENDS DhcpChecksum

CONSTANTS ByteVals, MaxMessage, Headers

ASSUME ChecksumMCAssumption ==
    /\ ByteVals \subseteq 0..255
    /\ MaxMessage \in Nat
    /\ Headers \subseteq [src : [1..4 -> 0..255], sport : {PORT_BOOTP_SERVER, PORT_BOOTP_CLIENT},
                          dst : [1..4 -> 0..255], dport : {PORT_BOOTP_SERVER, PORT_BOOTP_CLIENT}]

VARIABLES hdr, message

vars == <<hdr, message>>

\* DhcpClient::sendMessage: INADDR_ANY:68 to INADDR_BROADCAST:67; a server
\* reply broadcast from 192.168.1.1:67 to port 68, as the client's packet
\* socket sees both.
MCHeaders ==
    {[src |-> <<0, 0, 0, 0>>, sport |-> PORT_BOOTP_CLIENT,
      dst |-> <<255, 255, 255, 255>>, dport |-> PORT_BOOTP_SERVER],
     [src |-> <<192, 168, 1, 1>>, sport |-> PORT_BOOTP_SERVER,
      dst |-> <<255, 255, 255, 255>>, dport |-> PORT_BOOTP_CLIENT]}

ChecksumInit == hdr \in Headers /\ message = <<>>

ChecksumNext ==
    /\ Len(message) < MaxMessage
    /\ \E b \in ByteVals : message' = Append(message, b)
    /\ UNCHANGED hdr

Datagram == SendRawUdp(hdr.src, hdr.sport, hdr.dst, hdr.dport, message)

-----------------------------------------------------------------------------
(***************************************************************************)
(* The receiving host's check (RFC 1071): the one's complement sum of the *)
(* 16-bit words in network order, an odd last byte padded with a zero     *)
(* byte on its right, is 0xFFFF over a correctly checksummed area.  A     *)
(* UDP checksum field of zero means that no checksum was sent.            *)
(***************************************************************************)
RECURSIVE NetSum(_, _)
NetSum(bytes, acc) ==
    IF Len(bytes) > 1
        THEN NetSum(SubSeq(bytes, 3, Len(bytes)), acc + 256 * bytes[1] + bytes[2])
    ELSE IF Len(bytes) = 1 THEN acc + 256 * bytes[1]
    ELSE acc

OnesSum(bytes) == FoldCarries(NetSum(bytes, 0))

IpPart == SubSeq(Datagram, 1, IpHeaderSize)
UdpPart == SubSeq(Datagram, IpHeaderSize + 1, Len(Datagram))
PseudoHeader ==
    SubSeq(Datagram, 13, 20) \o <<0, Datagram[10]>> \o SubSeq(UdpPart, 5, 6)

(***************************************************************************)
(* The checksums sendRawUdp writes are the ones the receiving host        *)
(* verifies: the IP header checksum, and the UDP checksum over the pseudo *)
(* header, the UDP header and the message, whatever the message's length  *)
(* and bytes.  This is about addChecksum's host-order words, its odd-byte *)
(* case and its carry folding, and finishChecksum.                        *)
(***************************************************************************)
ChecksumsVerify ==
    /\ OnesSum(IpPart) = 65535
    /\ SubSeq(UdpPart, 7, 8) = <<0, 0>> \/ OnesSum(PseudoHeader \o UdpPart) = 65535

(***************************************************************************)
(* receiveRawUdp on the client's port accepts a datagram exactly when it  *)
(* is addressed to that port (the client's own broadcasts, which the      *)
(* packet socket also reads, are dropped) and gives back the message that *)
(* was sent, byte for byte.                                                *)
(***************************************************************************)
RawUdpRoundTrip ==
    LET r == ReceiveRawUdp(PORT_BOOTP_CLIENT, Datagram)
    IN  /\ r.isValid <=> hdr.dport = PORT_BOOTP_CLIENT
        /\ r.message = message
=============================================================================
