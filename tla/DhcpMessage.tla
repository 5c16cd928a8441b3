---------------------------- MODULE DhcpMessage ----------------------------
(***************************************************************************)
(* DHCP messages as the protocol engine sees them (class Message,         *)
(* src/dhcp/common/message.cpp).  The byte layout, the cookie, the        *)
(* parameter list and the options that neither side reads (subnet mask,  *)
(* gateway, DNS, server identifier) are abstracted away: a message is the *)
(* record of the fields that some handler tests or copies.                *)
(*   type   - the MESSAGE_TYPE option                                     *)
(*   xid    - dhcpData.xid                                                 *)
(*   chaddr - the first ETH_ALEN bytes of dhcpData.chaddr                 *)
(*   link   - the interface the datagram travels on                       *)
(*   yiaddr - dhcpData.yiaddr (replies), 0 otherwise                      *)
(*   reqIp  - the REQUESTED_IP option (DHCPREQUEST), 0 otherwise          *)
(***************************************************************************)
EXTENDS Naturals

\* dhcp.h: DHCPDISCOVER, DHCPOFFER, DHCPREQUEST, DHCPACK, DHCPNAK.
DHCPDISCOVER == 1
DHCPOFFER == 2
DHCPREQUEST == 3
DHCPACK == 5
DHCPNAK == 6

RequestTypes == {DHCPDISCOVER, DHCPREQUEST}
ReplyTypes == {DHCPOFFER, DHCPACK, DHCPNAK}

\* Message::discover(sourceMac) with the transaction id the builder takes
\* from the process-wide counter.
Discover(mac, link, xid) ==
    [type |-> DHCPDISCOVER, xid |-> xid, chaddr |-> mac, link |-> link,
     yiaddr |-> 0, reqIp |-> 0]

\* Message::request(sourceMac, requestAddress, serverAddress).
Request(mac, link, xid, addr) ==
    [type |-> DHCPREQUEST, xid |-> xid, chaddr |-> mac, link |-> link,
     yiaddr |-> 0, reqIp |-> addr]

\* Message::offer / Message::ack: copy xid and chaddr from the source
\* message, set yiaddr to the offered address.
Reply(type, src, addr) ==
    [type |-> type, xid |-> src.xid, chaddr |-> src.chaddr,
     link |-> src.link, yiaddr |-> addr, reqIp |-> 0]

Offer(src, addr) == Reply(DHCPOFFER, src, addr)
Ack(src, addr) == Reply(DHCPACK, src, addr)

\* Message::nack leaves yiaddr zero.
Nak(src) == Reply(DHCPNAK, src, 0)

Messages(MacSet, LinkSet, XidSet, AddrSet) ==
    [type : RequestTypes \cup ReplyTypes, xid : XidSet, chaddr : MacSet,
     link : LinkSet, yiaddr : AddrSet, reqIp : AddrSet]
=============================================================================
