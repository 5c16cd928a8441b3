----------------------------- MODULE DhcpServer -----------------------------
(***************************************************************************)
(* The DHCP server's dispatch loop, DhcpServer::run and the handlers it   *)
(* calls (src/dhcp/server/dhcpserver.cpp).  The loop is single threaded:  *)
(* one iteration takes one datagram from the socket and runs its handler  *)
(* to completion, so a handler is one atomic step.                        *)
(*                                                                         *)
(* The network is the set net of datagrams ever sent.  A datagram stays  *)
(* in net, so it may be received any number of times, in any order, or  *)
(* never: UDP loss, duplication and reordering.  A send that fails        *)
(* (sendMessage returning an error, which is only logged) is the same as *)
(* a datagram that is lost.                                               *)
(***************************************************************************)
EXTENDS DhcpAllocator, DhcpMessage

CONSTANT
    ExcludeLink   \* mExcludeInterface; a value outside Links when unset

VARIABLE net

serverVars == <<leases, cursor, hung, net>>

\* Plausible fault: a lease keyed by the MAC alone, as if every interface
\* were the same (lease.h explains why the interface is part of the key).
KeyOfMacOnly(m) == <<CHOOSE l \in Links : TRUE, m.chaddr>>

KeyOf(m) == <<m.link, m.chaddr>>

\* Sending msg when getInterfaceAddress succeeded (ok), nothing otherwise:
\* every handler asks for the interface's own address, to put in the
\* SERVER_ID option, and returns without replying when that fails.
SendIf(msg, ok) == net' = IF ok THEN net \cup {msg} ELSE net

\* The guards of the run loop before the switch on message.type():
\* the ingress interface is known and not excluded, and the datagram is a
\* BOOTREQUEST (isValidDhcpMessage(OP_BOOTREQUEST)).
Accepted(m) ==
    /\ m \in net
    /\ m.type \in RequestTypes
    /\ m.link # ExcludeLink

(***************************************************************************)
(* case DHCPDISCOVER: sendDhcpOffer.  updateDnsServers only refreshes the *)
(* DNS option's data.  getOfferAddress may allocate; its failure, or the  *)
(* failure of getInterfaceAddress after it, sends nothing.                *)
(***************************************************************************)
SendDhcpOffer(m) ==
    LET k == KeyOf(m) IN
    /\ Accepted(m)
    /\ m.type = DHCPDISCOVER
    /\ GetOfferAddress(k)
    /\ IF AllocHangs(k) \/ OfferAddress(k) = 0
          THEN UNCHANGED net
          ELSE \E ok \in BOOLEAN : SendIf(Offer(m, OfferAddress(k)), ok)

(***************************************************************************)
(* case DHCPREQUEST: isValidDhcpRequest calls getOfferAddress (which      *)
(* allocates for a client never seen before) and compares the result with *)
(* the REQUESTED_IP option; on a match sendAck calls getOfferAddress a    *)
(* second time, which returns the now stored address unchanged, otherwise *)
(* sendNack replies.  An exhausted pool makes the request invalid.        *)
(***************************************************************************)
\* Plausible fault: acknowledging whatever address the client requests.
HandleRequestNoCheck(m) ==
    LET k == KeyOf(m) IN
    /\ Accepted(m)
    /\ m.type = DHCPREQUEST
    /\ GetOfferAddress(k)
    /\ IF AllocHangs(k)
          THEN UNCHANGED net
          ELSE \E ok \in BOOLEAN : SendIf(Ack(m, m.reqIp), ok)

HandleRequest(m) ==
    LET k == KeyOf(m) IN
    /\ Accepted(m)
    /\ m.type = DHCPREQUEST
    /\ GetOfferAddress(k)
    /\ IF AllocHangs(k)
          THEN UNCHANGED net
          ELSE \E ok \in BOOLEAN :
                 IF OfferAddress(k) # 0 /\ m.reqIp = OfferAddress(k)
                    THEN SendIf(Ack(m, OfferAddress(k)), ok)
                    ELSE SendIf(Nak(m), ok)

ServerInit == AllocInit

ServerNext == ~hung /\ \E m \in net : SendDhcpOffer(m) \/ HandleRequest(m)
=============================================================================
