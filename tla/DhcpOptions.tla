---------------------------- MODULE DhcpOptions ----------------------------
(***************************************************************************)
(* The byte-level DHCP option area (src/dhcp/common/message.cpp and the   *)
(* option scan of DhcpClient::configureDhcp).                              *)
(*                                                                         *)
(* buf is dhcpData.options as a sequence of byte values and optsSize is    *)
(* Message::optionsSize(), i.e. mSize minus the fixed header.  Indices in  *)
(* the operators below are the code's 0-based indices into options[]; the *)
(* bytes of buf beyond optsSize are whatever the buffer held before (zero *)
(* for a fresh Message, an earlier datagram for the server's reused one). *)
(* A multi-byte value is kept as the sequence of its bytes in memory      *)
(* order, as the code copies it; DhcpLeaseTime gives their meaning.       *)
(***************************************************************************)
EXTENDS DhcpMessage, Sequences

\* dhcp.h: the cookie and the option codes the code reads or writes.
OPT_COOKIE1 == 99
OPT_COOKIE2 == 130
OPT_COOKIE3 == 83
OPT_COOKIE4 == 99
OPT_PAD == 0
OPT_SUBNET_MASK == 1
OPT_GATEWAY == 3
OPT_DNS == 6
OPT_MTU == 26
OPT_BROADCAST_ADDR == 28
OPT_REQUESTED_IP == 50
OPT_LEASE_TIME == 51
OPT_MESSAGE_TYPE == 53
OPT_SERVER_ID == 54
OPT_PARAMETER_LIST == 55
OPT_T1 == 58
OPT_T2 == 59
OPT_END == 255

Cookie == <<OPT_COOKIE1, OPT_COOKIE2, OPT_COOKIE3, OPT_COOKIE4>>

\* options[i] and the n bytes options[from] .. options[from + n - 1].
At(buf, i) == buf[i + 1]
BytesAt(buf, from, n) == [j \in 1..n |-> buf[from + j]]

Zero4 == <<0, 0, 0, 0>>
Zero2 == <<0, 0>>

(***************************************************************************)
(* Encoding: Message::Message writes the cookie and the message-type      *)
(* option, addOption appends code, length and the bytes at the end of the *)
(* message, endOptions appends OPT_END.                                    *)
(***************************************************************************)
NewOptions(type) == Cookie \o <<OPT_MESSAGE_TYPE, 1, type>>

\* Plausible fault: the length byte is not written.
AddOptionNoLength(opts, type, data) == opts \o <<type>> \o data

AddOption(opts, type, data) == opts \o <<type, Len(data)>> \o data

EndOptions(opts) == Append(opts, OPT_END)

kRequestParameters ==
    <<OPT_SUBNET_MASK, OPT_GATEWAY, OPT_DNS, OPT_BROADCAST_ADDR,
      OPT_LEASE_TIME, OPT_T1, OPT_T2, OPT_MTU>>

DiscoverOptions ==
    EndOptions(AddOption(NewOptions(DHCPDISCOVER), OPT_PARAMETER_LIST,
                         kRequestParameters))

RequestOptions(requestAddress, serverAddress) ==
    LET o1 == AddOption(NewOptions(DHCPREQUEST), OPT_PARAMETER_LIST,
                        kRequestParameters)
        o2 == AddOption(o1, OPT_REQUESTED_IP, requestAddress)
    IN  EndOptions(AddOption(o2, OPT_SERVER_ID, serverAddress))

\* Message::offer and Message::ack: dns is the sequence of DNS servers, whose
\* bytes are written as one DNS option.
ReplyOptions(type, server, lease, netmask, gateway, dns) ==
    LET o1 == AddOption(NewOptions(type), OPT_SERVER_ID, server)
        o2 == AddOption(o1, OPT_LEASE_TIME, lease)
        o3 == AddOption(o2, OPT_SUBNET_MASK, netmask)
        o4 == AddOption(o3, OPT_GATEWAY, gateway)
        dnsBytes == [j \in 1..4 * Len(dns) |-> dns[((j - 1) \div 4) + 1][((j - 1) % 4) + 1]]
    IN  EndOptions(AddOption(o4, OPT_DNS, dnsBytes))

NackOptions(server) ==
    EndOptions(AddOption(NewOptions(DHCPNAK), OPT_SERVER_ID, server))

(***************************************************************************)
(* Message::getOption: walks from index 4 while i + 2 < optsSize and      *)
(* returns a pointer to the value and its length byte, without checking   *)
(* that the value lies inside the message.  at = 0 stands for nullptr.    *)
(***************************************************************************)
NoOption == [at |-> 0, len |-> 0]

RECURSIVE GetOptionFrom(_, _, _, _)

\* Plausible fault: the step forgets the length byte of the header.
GetOptionFromShortStep(buf, optsSize, code, i) ==
    IF ~(i + 2 < optsSize) \/ At(buf, i) = OPT_END THEN NoOption
    ELSE IF At(buf, i) = code THEN [at |-> i + 2, len |-> At(buf, i + 1)]
    ELSE GetOptionFrom(buf, optsSize, code, i + 1 + At(buf, i + 1))

GetOptionFrom(buf, optsSize, code, i) ==
    IF ~(i + 2 < optsSize) \/ At(buf, i) = OPT_END THEN NoOption
    ELSE IF At(buf, i) = code THEN [at |-> i + 2, len |-> At(buf, i + 1)]
    ELSE GetOptionFrom(buf, optsSize, code, i + 2 + At(buf, i + 1))

GetOption(buf, optsSize, code) == GetOptionFrom(buf, optsSize, code, 4)

\* Message::type, Message::serverId and Message::requestedIp.
MessageType(buf, optsSize) ==
    LET o == GetOption(buf, optsSize, OPT_MESSAGE_TYPE)
    IN  IF o.at # 0 /\ o.len = 1 THEN At(buf, o.at) ELSE 0

AddressOption(buf, optsSize, code) ==
    LET o == GetOption(buf, optsSize, code)
    IN  IF o.at # 0 /\ o.len = 4 THEN BytesAt(buf, o.at, 4) ELSE Zero4

ServerId(buf, optsSize) == AddressOption(buf, optsSize, OPT_SERVER_ID)
RequestedIp(buf, optsSize) == AddressOption(buf, optsSize, OPT_REQUESTED_IP)

(***************************************************************************)
(* DhcpClient::configureDhcp, lines 301-394: mDhcpInfo is cleared, then   *)
(* every option is visited while i + 1 < optsSize; an option is refused   *)
(* (the whole message is) when options + optLength + i >= msg.end(), i.e. *)
(* i + optLength >= optsSize.  The switch has no break after OPT_DNS, so  *)
(* a DNS option also runs the OPT_SERVER_ID case.                         *)
(***************************************************************************)
NoInfo ==
    [ok |-> TRUE, leaseTime |-> Zero4, t1 |-> Zero4, t2 |-> Zero4,
     subnetMask |-> Zero4, gateway |-> Zero4, mtu |-> Zero2,
     dns |-> [k \in 0..3 |-> Zero4], serverId |-> Zero4]

StoreIf(info, field, cond, value) ==
    IF cond THEN [info EXCEPT ![field] = value] ELSE info

StoreDns(info, len, buf, at) ==
    [info EXCEPT !.dns = [k \in 0..3 |->
        IF len >= 4 * (k + 1) THEN BytesAt(buf, at + 4 * k, 4) ELSE info.dns[k]]]

StoreOption(info, code, len, buf, at) ==
    CASE code = OPT_LEASE_TIME -> StoreIf(info, "leaseTime", len = 4, BytesAt(buf, at, 4))
      [] code = OPT_T1 -> StoreIf(info, "t1", len = 4, BytesAt(buf, at, 4))
      [] code = OPT_T2 -> StoreIf(info, "t2", len = 4, BytesAt(buf, at, 4))
      [] code = OPT_SUBNET_MASK -> StoreIf(info, "subnetMask", len = 4, BytesAt(buf, at, 4))
      [] code = OPT_GATEWAY -> StoreIf(info, "gateway", len >= 4, BytesAt(buf, at, 4))
      [] code = OPT_MTU -> StoreIf(info, "mtu", len = 2, BytesAt(buf, at, 2))
      [] code = OPT_DNS ->
            StoreIf(StoreDns(info, len, buf, at), "serverId", len = 4, BytesAt(buf, at, 4))
      [] code = OPT_SERVER_ID -> StoreIf(info, "serverId", len = 4, BytesAt(buf, at, 4))
      [] OTHER -> info

RECURSIVE ConfigureFrom(_, _, _, _)

\* Plausible fault: OPT_END is not recognised and is parsed as an option.
ConfigureFromNoEnd(buf, optsSize, i, info) ==
    IF ~(i + 1 < optsSize) THEN info
    ELSE IF i + At(buf, i + 1) >= optsSize THEN [info EXCEPT !.ok = FALSE]
    ELSE ConfigureFrom(buf, optsSize, i + 2 + At(buf, i + 1),
                       StoreOption(info, At(buf, i), At(buf, i + 1), buf, i + 2))

ConfigureFrom(buf, optsSize, i, info) ==
    IF ~(i + 1 < optsSize) \/ At(buf, i) = OPT_END THEN info
    ELSE IF i + At(buf, i + 1) >= optsSize THEN [info EXCEPT !.ok = FALSE]
    ELSE ConfigureFrom(buf, optsSize, i + 2 + At(buf, i + 1),
                       StoreOption(info, At(buf, i), At(buf, i + 1), buf, i + 2))

ConfigureOptions(buf, optsSize) ==
    IF optsSize < 4 THEN [NoInfo EXCEPT !.ok = FALSE]
    ELSE ConfigureFrom(buf, optsSize, 4, NoInfo)
=============================================================================
