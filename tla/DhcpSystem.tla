----------------------------- MODULE DhcpSystem -----------------------------
(***************************************************************************)
(* One DHCP server (DhcpServer) and a set of DHCP client processes         *)
(* (DhcpClient) sharing the network net.  Each client runs on one link    *)
(* (interface); the server listens on every link.  A step is one          *)
(* iteration of one process's loop, or time expiring a client's timer.    *)
(***************************************************************************)
EXTENDS DhcpServer

CONSTANTS Clients, ClientLink, ClientMac, MaxXid, LittleEndian

ASSUME ClientAssumption ==
    /\ ClientLink \in [Clients -> Links]
    /\ ClientMac \in [Clients -> Macs]
    /\ MaxXid \in Nat
    /\ LittleEndian \in BOOLEAN

VARIABLES state, phase, nextTimeout, nextXid, requestAddr, ifaddr, ifup,
          t1Expired, t2Expired

Client == INSTANCE DhcpClient

clientVars == <<state, phase, nextTimeout, nextXid, requestAddr, ifaddr,
                ifup, t1Expired, t2Expired>>
vars == <<leases, cursor, hung, net, clientVars>>

Init ==
    /\ ServerInit
    /\ Client!ClientInit
    /\ net = {}

Next ==
    \/ ServerNext /\ UNCHANGED clientVars
    \/ \E c \in Clients :
          Client!ClientNext(c) /\ UNCHANGED <<leases, cursor, hung>>

Spec == Init /\ [][Next]_vars

-----------------------------------------------------------------------------
ClientKey(c) == <<ClientLink[c], ClientMac[c]>>

Addresses == 0..PoolEnd

\* kNoTimeout, a remaining lease time, and the backoff ladder from
\* kInitialTimeout to kMaxTimeout.
TimeoutValues ==
    {Client!kNoTimeout, Client!TimerRemaining, 4000, 8000, 16000, 32000, 64000}

(***************************************************************************)
(* Types; nextTimeout stays on the backoff ladder 4000, 8000, ..., 64000  *)
(* (increaseTimeout never exceeds kMaxTimeout).                           *)
(***************************************************************************)
TypeOK ==
    /\ AllocTypeOK
    /\ net \subseteq Messages(Macs, Links, 1..MaxXid, Addresses)
    /\ state \in [Clients -> Client!States]
    /\ phase \in [Clients -> {"act", "wait"}]
    /\ nextTimeout \in [Clients -> TimeoutValues]
    /\ nextXid \in [Clients -> 1..MaxXid + 1]
    /\ requestAddr \in [Clients -> Addresses]
    /\ ifaddr \in [Clients -> Addresses]
    /\ ifup \in [Clients -> BOOLEAN]
    /\ t1Expired \in [Clients -> BOOLEAN]
    /\ t2Expired \in [Clients -> BOOLEAN]

(***************************************************************************)
(* An address configured on a client's interface is the lease the server *)
(* holds for that client's (interface, MAC).  It spans both processes:   *)
(* the client takes yiaddr from whichever DHCPACK carries its current    *)
(* transaction id, and the server must have allocated exactly that       *)
(* address to the client and never moved it since.                        *)
(***************************************************************************)
AddressLeased ==
    \A c \in Clients :
        ifaddr[c] # 0 => leases[ClientKey(c)] = ifaddr[c]

(***************************************************************************)
(* No two clients configure the same address on their interfaces.         *)
(***************************************************************************)
AddressUnique ==
    \A c1, c2 \in Clients :
        c1 # c2 /\ ifaddr[c1] # 0 => ifaddr[c1] # ifaddr[c2]

(***************************************************************************)
(* Every DHCPACK the server has sent carries the address it holds for the *)
(* (interface, MAC) of the request it answers: the server never          *)
(* acknowledges an address that is, or later becomes, someone else's.    *)
(***************************************************************************)
AckIsLease ==
    \A m \in net : m.type = DHCPACK => leases[KeyOf(m)] = m.yiaddr

(***************************************************************************)
(* A client moves to Bound only with an address on its interface, and    *)
(* that address is its lease: the step that enters Bound (a DHCPACK whose *)
(* configureDhcp succeeded) has set a nonzero yiaddr that the server      *)
(* holds for the client's (interface, MAC).  It relies on the server      *)
(* never acknowledging address 0, on the client checking configureDhcp's  *)
(* result, and on the link the reply arrived on.                          *)
(***************************************************************************)
EntersBoundOnLease ==
    \A c \in Clients :
        state[c] # "Bound" /\ state'[c] = "Bound" =>
            ifaddr'[c] # 0 /\ leases'[ClientKey(c)] = ifaddr'[c]

\* Every step of every behaviour satisfies EntersBoundOnLease.
BoundOnLease == [][EntersBoundOnLease]_vars

(***************************************************************************)
(* The server's loop keeps serving: no handler call fails to return.     *)
(* Spec section 7: pool exhaustion is reported as an error and the       *)
(* server simply does not respond to that request.                       *)
(***************************************************************************)
ServerResponsive == ~hung
=============================================================================
