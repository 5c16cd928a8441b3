------------------------ MODULE MC_DhcpOptionRoundTrip ------------------------
(***************************************************************************)
(* Every message the builders of message.cpp produce, decoded by the code *)
(* that reads it: the server's type() and requestedIp() for a client's    *)
(* DISCOVER and REQUEST, the client's type(), serverId() and              *)
(* configureDhcp for the server's OFFER, ACK and NAK.  A state is the last *)
(* message built; each step builds another from the addresses Addrs and   *)
(* up to MaxDns DNS servers (kMaxDnsServers is 4).  LeaseBytes is how     *)
(* addOption<uint32_t> lays kDefaultLeaseTime out in memory.              *)
(***************************************************************************)
EXTENDS DhcpOptions

CONSTANTS Addrs, MaxDns, LeaseBytes

ASSUME RoundTripAssumption ==
    /\ Addrs \subseteq [1..4 -> 0..255]
    /\ MaxDns \in 0..4
    /\ LeaseBytes \in [1..4 -> 0..255]

VARIABLE built

\* Two addresses, one of whose bytes are option codes (OPT_END,
\* OPT_MESSAGE_TYPE, OPT_DNS), and kDefaultLeaseTime = 600 in the memory
\* order of a little-endian host.
MCAddrs == {<<10, 0, 0, 5>>, <<255, 53, 6, 0>>}
MCLeaseBytes == <<88, 2, 0, 0>>

DnsLists == UNION {[1..n -> Addrs] : n \in 0..MaxDns}

Built ==
    {[type |-> DHCPDISCOVER, opts |-> DiscoverOptions, server |-> Zero4,
      req |-> Zero4, mask |-> Zero4, gw |-> Zero4, dns |-> <<>>]}
    \cup
    {[type |-> DHCPREQUEST, opts |-> RequestOptions(r, s), server |-> s,
      req |-> r, mask |-> Zero4, gw |-> Zero4, dns |-> <<>>] : r, s \in Addrs}
    \cup
    {[type |-> t, opts |-> ReplyOptions(t, s, LeaseBytes, m, g, d), server |-> s,
      req |-> Zero4, mask |-> m, gw |-> g, dns |-> d] :
        t \in {DHCPOFFER, DHCPACK}, s \in Addrs, m \in Addrs, g \in Addrs,
        d \in DnsLists}
    \cup
    {[type |-> DHCPNAK, opts |-> NackOptions(s), server |-> s, req |-> Zero4,
      mask |-> Zero4, gw |-> Zero4, dns |-> <<>>] : s \in Addrs}

\* Message() starts empty; each step is one call of a builder.
RoundTripInit == built = [type |-> 0, opts |-> Cookie, server |-> Zero4,
                          req |-> Zero4, mask |-> Zero4, gw |-> Zero4, dns |-> <<>>]

RoundTripNext == built' \in Built

Decoded == ConfigureOptions(built.opts, Len(built.opts))

-----------------------------------------------------------------------------
(***************************************************************************)
(* Round trip (specification section 8): what a builder encodes, the      *)
(* decoding side reads back.  type() gives the message type; serverId()   *)
(* gives the server address of every message carrying one; requestedIp()  *)
(* gives the address a REQUEST asks for; configureDhcp accepts every      *)
(* OFFER and ACK and recovers its lease time, mask, gateway and each DNS  *)
(* server, the unused DNS slots staying zero.                             *)
(***************************************************************************)
RoundTrip ==
    built.type # 0 =>
        /\ MessageType(built.opts, Len(built.opts)) = built.type
        /\ ServerId(built.opts, Len(built.opts)) = built.server
        /\ RequestedIp(built.opts, Len(built.opts)) = built.req
        /\ built.type \in {DHCPOFFER, DHCPACK} =>
              /\ Decoded.ok
              /\ Decoded.leaseTime = LeaseBytes
              /\ Decoded.subnetMask = built.mask
              /\ Decoded.gateway = built.gw
              /\ \A k \in 0..3 :
                    Decoded.dns[k] = IF k < Len(built.dns) THEN built.dns[k + 1]
                                     ELSE Zero4

=============================================================================
