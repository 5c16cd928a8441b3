---------------------------- MODULE DhcpChecksum ----------------------------
(***************************************************************************)
(* The client's raw UDP framing (src/dhcp/common/socket.cpp): the IP and  *)
(* UDP headers and checksums Socket::sendRawUdp writes in front of a      *)
(* message, and the header checks Socket::receiveRawUdp applies to what   *)
(* the packet socket reads.                                                *)
(*                                                                         *)
(* Everything is a sequence of byte values in memory order.  addChecksum  *)
(* reads the buffer as uint16_t words in the HOST's byte order, so the    *)
(* constant LittleEndian decides how two bytes make a word and how the    *)
(* uint16_t result of finishChecksum is laid out in the header; htons     *)
(* values and in_addr_t addresses are in network order whatever the host. *)
(***************************************************************************)
EXTENDS Naturals, Sequences

CONSTANT LittleEndian

ASSUME EndianAssumption == LittleEndian \in BOOLEAN

\* dhcp.h and the netinet constants sendRawUdp uses.
PORT_BOOTP_SERVER == 67
PORT_BOOTP_CLIENT == 68
IPVERSION == 4
IPDEFTTL == 64
IPPROTO_UDP == 17
IpHeaderSize == 20
UdpHeaderSize == 8

\* A uint16_t word read from two bytes of memory, and the memory bytes of
\* a uint16_t value, in host order; htons(v) as it lies in memory.
HostWord(b0, b1) == IF LittleEndian THEN b0 + 256 * b1 ELSE 256 * b0 + b1
HostBytes16(v) == IF LittleEndian THEN <<v % 256, v \div 256>>
                  ELSE <<v \div 256, v % 256>>
Htons(v) == <<v \div 256, v % 256>>

(***************************************************************************)
(* addChecksum(buffer, size, checksum): add the host-order words, then an *)
(* odd last byte as it is (the low half of a word), then fold the carries *)
(* back in until the sum fits 16 bits.  The sum is a uint32_t; a message  *)
(* is at most sizeof(dhcpData) bytes, so it never wraps.                  *)
(***************************************************************************)
RECURSIVE WordSum(_, _)
WordSum(bytes, acc) ==
    IF Len(bytes) > 1
        THEN WordSum(SubSeq(bytes, 3, Len(bytes)), acc + HostWord(bytes[1], bytes[2]))
    ELSE IF Len(bytes) = 1 THEN acc + bytes[1]
    ELSE acc

RECURSIVE FoldCarries(_)
FoldCarries(c) == IF c \div 65536 # 0 THEN FoldCarries((c % 65536) + (c \div 65536)) ELSE c

\* Plausible fault: the odd last byte is left out of the sum.
AddChecksumDropOdd(bytes, checksum) ==
    FoldCarries(WordSum(SubSeq(bytes, 1, 2 * (Len(bytes) \div 2)), checksum))

AddChecksum(bytes, checksum) == FoldCarries(WordSum(bytes, checksum))

\* ~checksum & 0xFFFF, for a checksum below 2^16.
FinishChecksum(checksum) == 65535 - (checksum % 65536)

(***************************************************************************)
(* sendRawUdp: the IP header with ip.check = 0 is summed and its checksum *)
(* stored; the UDP checksum covers the pseudo header (saddr, daddr,       *)
(* htons(IPPROTO_UDP), udp.len), the UDP header with check = 0 and the    *)
(* message.  The result is the bytes the three iovecs hand to sendmsg.    *)
(***************************************************************************)
IpHeader(source, destination, totLen, check) ==
    <<IPVERSION * 16 + IpHeaderSize \div 4, 0>> \o Htons(totLen) \o
    <<0, 0, 0, 0, IPDEFTTL, IPPROTO_UDP>> \o HostBytes16(check) \o
    source \o destination

UdpHeader(sourcePort, destinationPort, udpLen, check) ==
    Htons(sourcePort) \o Htons(destinationPort) \o Htons(udpLen) \o
    HostBytes16(check)

SendRawUdp(source, sourcePort, destination, destinationPort, message) ==
    LET totLen == IpHeaderSize + UdpHeaderSize + Len(message)
        ipCheck == FinishChecksum(AddChecksum(IpHeader(source, destination, totLen, 0), 0))
        udpLen == UdpHeaderSize + Len(message)
        c1 == AddChecksum(source, 0)
        c2 == AddChecksum(destination, c1)
        c3 == AddChecksum(Htons(IPPROTO_UDP), c2)
        c4 == AddChecksum(Htons(udpLen), c3)
        c5 == AddChecksum(UdpHeader(sourcePort, destinationPort, udpLen, 0), c4)
        c6 == AddChecksum(message, c5)
    IN  IpHeader(source, destination, totLen, ipCheck) \o
        UdpHeader(sourcePort, destinationPort, udpLen, FinishChecksum(c6)) \o
        message

(***************************************************************************)
(* receiveRawUdp: readv scatters the bytes read into ip, udp and the      *)
(* message; fewer than 28 bytes is invalid, otherwise the datagram is     *)
(* valid when version, ihl, protocol and the destination port match, and  *)
(* the message size is whatever follows the two headers.  No checksum is  *)
(* verified here.                                                          *)
(***************************************************************************)
\* Plausible fault: the size leaves the UDP header in the message.
ReceiveRawUdpUdpInMessage(expectedPort, datagram) ==
    IF Len(datagram) < IpHeaderSize + UdpHeaderSize
        THEN [isValid |-> FALSE, message |-> <<>>]
    ELSE [isValid |-> /\ datagram[1] \div 16 = IPVERSION
                      /\ datagram[1] % 16 = IpHeaderSize \div 4
                      /\ datagram[10] = IPPROTO_UDP
                      /\ <<datagram[23], datagram[24]>> = Htons(expectedPort),
          message |-> SubSeq(datagram, IpHeaderSize + 1, Len(datagram))]

ReceiveRawUdp(expectedPort, datagram) ==
    IF Len(datagram) < IpHeaderSize + UdpHeaderSize
        THEN [isValid |-> FALSE, message |-> <<>>]
    ELSE [isValid |-> /\ datagram[1] \div 16 = IPVERSION
                      /\ datagram[1] % 16 = IpHeaderSize \div 4
                      /\ datagram[10] = IPPROTO_UDP
                      /\ <<datagram[23], datagram[24]>> = Htons(expectedPort),
          message |-> SubSeq(datagram, IpHeaderSize + UdpHeaderSize + 1,
                             Len(datagram))]
=============================================================================
