----------------------------- MODULE DhcpClient -----------------------------
(***************************************************************************)
(* The DHCP client, DhcpClient::run (src/dhcp/client/dhcpclient.cpp), one *)
(* process per client.  Each iteration of run's loop first takes the      *)
(* action of the current state (the switch on mState) and then calls     *)
(* waitAndReceive, which returns at once when mNextTimeout is kNoTimeout, *)
(* otherwise polls until the timeout ends or a reply of interest arrives. *)
(* phase[c] says which of the two halves client c executes next.          *)
(*                                                                         *)
(* Time is abstract: the length of a wait, and the jitter that            *)
(* calculateTimeoutMillis adds to it, are not modelled, so a wait may end *)
(* by timeout at any moment.  The lease timers mT1 and mT2 are modelled   *)
(* by whether they have expired; time passing expires them in the order   *)
(* of their durations.                                                     *)
(*                                                                         *)
(* Replies that receiveDhcpMessage rejects (wrong port, wrong op, wrong   *)
(* transaction id) and replies of no interest in the current state leave *)
(* the state unchanged and are not modelled as steps.                    *)
(***************************************************************************)
EXTENDS DhcpMessage, DhcpLeaseTime

CONSTANTS
    Clients,       \* the client processes
    ClientLink,    \* ClientLink[c]: the interface client c runs on
    ClientMac,     \* ClientMac[c]: mInterface.getMacAddress()
    MaxXid,        \* bound on the transaction ids a client uses
    LittleEndian   \* byte order of the hosts

VARIABLES
    state,        \* mState
    phase,        \* "act": the switch runs next; "wait": waitAndReceive
    nextTimeout,  \* mNextTimeout, in milliseconds
    nextXid,      \* sNextTransactionId of the client's process
    requestAddr,  \* mRequestAddress
    ifaddr,       \* the IPv4 address configured on the interface, 0 if none
    ifup,         \* whether the interface is up
    t1Expired,    \* mT1.expired()
    t2Expired,    \* mT2.expired()
    net

clientVars == <<state, phase, nextTimeout, nextXid, requestAddr, ifaddr,
                ifup, t1Expired, t2Expired>>

States == {"Init", "Selecting", "Requesting", "Bound", "Renewing",
           "Rebinding"}

kInitialTimeout == 4000
kMaxTimeout == 64000
kNoTimeout == 0

\* mT1.remainingMillis() while mT1 has not expired: some positive number
\* of milliseconds.  Only its being nonzero is observed.
TimerRemaining == 1

\* The lease times every DHCPACK of this server yields (DhcpLeaseTime).
LeaseRead == LeaseTimeRead(kDefaultLeaseTime, LittleEndian)
T1Secs == T1Of(LeaseRead)
T2Secs == T2Of(LeaseRead)

\* The transaction id of mLastMsg: the id of the last message built, 0
\* (the default Message) before the first one.
LastXid(c) == nextXid[c] - 1

\* Plausible fault: doubling without the mNextTimeout < kMaxTimeout test
\* and without the clamp.
IncreasedTimeoutUncapped(t) ==
    IF t = kNoTimeout THEN kInitialTimeout ELSE 2 * t

\* DhcpClient::increaseTimeout
IncreasedTimeout(t) ==
    IF t = kNoTimeout
       THEN kInitialTimeout
       ELSE LET doubled == IF t < kMaxTimeout THEN 2 * t ELSE t
            IN  IF doubled > kMaxTimeout THEN kMaxTimeout ELSE doubled

\* DhcpClient::setNextState(s): mNextTimeout = kNoTimeout, so the
\* following waitAndReceive returns at once and s is evaluated next.
SetNextState(c, s) ==
    /\ state' = [state EXCEPT ![c] = s]
    /\ nextTimeout' = [nextTimeout EXCEPT ![c] = kNoTimeout]
    /\ phase' = [phase EXCEPT ![c] = "act"]

\* sendDhcpDiscover / sendDhcpRequest followed by increaseTimeout: the
\* builder takes the next transaction id, the message is kept in mLastMsg
\* and broadcast, and the loop then waits for the new timeout.
SendAndBackoff(c, msg) ==
    /\ nextXid[c] <= MaxXid
    /\ net' = net \cup {msg}
    /\ nextXid' = [nextXid EXCEPT ![c] = @ + 1]
    /\ nextTimeout' = [nextTimeout EXCEPT ![c] = IncreasedTimeout(@)]
    /\ phase' = [phase EXCEPT ![c] = "wait"]

MyDiscover(c) == Discover(ClientMac[c], ClientLink[c], nextXid[c])
MyRequest(c) ==
    Request(ClientMac[c], ClientLink[c], nextXid[c], requestAddr[c])

Acting(c, s) == phase[c] = "act" /\ state[c] = s

-----------------------------------------------------------------------------
(* The switch of DhcpClient::run, one action per state.                   *)

InitStep(c) ==
    /\ Acting(c, "Init")
    /\ SetNextState(c, "Selecting")
    /\ UNCHANGED <<nextXid, requestAddr, ifaddr, ifup, t1Expired, t2Expired,
                   net>>

SelectingStep(c) ==
    /\ Acting(c, "Selecting")
    /\ SendAndBackoff(c, MyDiscover(c))
    /\ UNCHANGED <<state, requestAddr, ifaddr, ifup, t1Expired, t2Expired>>

\* Requesting and Rebinding give up after the request sent with the
\* maximal timeout has timed out.
RequestingStep(c) ==
    /\ Acting(c, "Requesting")
    /\ \/ /\ nextTimeout[c] >= kMaxTimeout
          /\ SetNextState(c, "Init")
          /\ UNCHANGED <<nextXid, net>>
       \/ /\ nextTimeout[c] < kMaxTimeout
          /\ SendAndBackoff(c, MyRequest(c))
          /\ UNCHANGED state
    /\ UNCHANGED <<requestAddr, ifaddr, ifup, t1Expired, t2Expired>>

BoundStep(c) ==
    /\ Acting(c, "Bound")
    /\ \/ /\ t1Expired[c]
          /\ SetNextState(c, "Renewing")
       \/ /\ ~t1Expired[c]
          /\ nextTimeout' = [nextTimeout EXCEPT ![c] = TimerRemaining]
          /\ phase' = [phase EXCEPT ![c] = "wait"]
          /\ UNCHANGED state
    /\ UNCHANGED <<nextXid, requestAddr, ifaddr, ifup, t1Expired, t2Expired,
                   net>>

\* Renewing sends to mServerAddress, Rebinding to INADDR_BROADCAST; the
\* destination only fills the SERVER_ID option, which the server ignores,
\* and sendMessage broadcasts both.
RenewingStep(c) ==
    /\ Acting(c, "Renewing")
    /\ \/ /\ t2Expired[c]
          /\ SetNextState(c, "Rebinding")
          /\ UNCHANGED <<nextXid, net>>
       \/ /\ ~t2Expired[c]
          /\ SendAndBackoff(c, MyRequest(c))
          /\ UNCHANGED state
    /\ UNCHANGED <<requestAddr, ifaddr, ifup, t1Expired, t2Expired>>

RebindingStep(c) ==
    /\ Acting(c, "Rebinding")
    /\ \/ /\ nextTimeout[c] >= kMaxTimeout
          /\ SetNextState(c, "Init")
          /\ UNCHANGED <<nextXid, net>>
       \/ /\ nextTimeout[c] < kMaxTimeout
          /\ SendAndBackoff(c, MyRequest(c))
          /\ UNCHANGED state
    /\ UNCHANGED <<requestAddr, ifaddr, ifup, t1Expired, t2Expired>>

-----------------------------------------------------------------------------
(* waitAndReceive.                                                          *)

Waiting(c) == phase[c] = "wait"

\* ppoll returns 0, or the time left in the window runs out.
WaitTimeout(c) ==
    /\ Waiting(c)
    /\ phase' = [phase EXCEPT ![c] = "act"]
    /\ UNCHANGED <<state, nextTimeout, nextXid, requestAddr, ifaddr, ifup,
                   t1Expired, t2Expired, net>>

\* receiveDhcpMessage: a datagram to the client port on the client's link
\* that is a BOOTREPLY carrying mLastMsg's transaction id.  The client
\* hardware address of the reply is not compared with the client's own.
Receivable(c, m) ==
    /\ m \in net
    /\ m.type \in ReplyTypes
    /\ m.link = ClientLink[c]
    /\ m.xid = LastXid(c)

\* Selecting: a DHCPOFFER is requested next.
ReceiveOffer(c, m) ==
    /\ Waiting(c)
    /\ state[c] = "Selecting"
    /\ Receivable(c, m)
    /\ m.type = DHCPOFFER
    /\ requestAddr' = [requestAddr EXCEPT ![c] = m.yiaddr]
    /\ SetNextState(c, "Requesting")
    /\ UNCHANGED <<nextXid, ifaddr, ifup, t1Expired, t2Expired, net>>

(***************************************************************************)
(* configureDhcp(msg) with a lease time in msg: it re-arms mT1 and mT2,   *)
(* then calls, in order, bringUp, setAddress, setSubnetMask and           *)
(* setDefaultGateway, returning false at the first that fails (setMtu is  *)
(* skipped: the server sends no MTU).  done is the number of those four   *)
(* calls that succeeded; what they changed stays changed when a later one *)
(* fails.  The property store writes are not modelled.                    *)
(***************************************************************************)
ConfigureDhcp(c, m, done) ==
    /\ t1Expired' = [t1Expired EXCEPT ![c] = (T1Secs = 0)]
    /\ t2Expired' = [t2Expired EXCEPT ![c] = (T2Secs = 0)]
    /\ ifup' = [ifup EXCEPT ![c] = IF done >= 1 THEN TRUE ELSE @]
    /\ ifaddr' = [ifaddr EXCEPT ![c] = IF done >= 2 THEN m.yiaddr ELSE @]

\* Plausible fault: moving to Bound whatever configureDhcp returned.
ReceiveAckIgnoreFailure(c, m) ==
    /\ Waiting(c)
    /\ state[c] \in {"Requesting", "Renewing", "Rebinding"}
    /\ Receivable(c, m)
    /\ m.type = DHCPACK
    /\ LeaseRead # 0
    /\ \E done \in 0..4 :
          /\ ConfigureDhcp(c, m, done)
          /\ SetNextState(c, "Bound")
    /\ UNCHANGED <<nextXid, requestAddr, net>>

\* Requesting, Renewing, Rebinding: a DHCPACK is Bound when configureDhcp
\* succeeds; otherwise the client keeps waiting for the rest of the window.
ReceiveAck(c, m) ==
    /\ Waiting(c)
    /\ state[c] \in {"Requesting", "Renewing", "Rebinding"}
    /\ Receivable(c, m)
    /\ m.type = DHCPACK
    /\ LeaseRead # 0
    /\ \E done \in 0..4 :
          /\ ConfigureDhcp(c, m, done)
          /\ \/ done = 4 /\ SetNextState(c, "Bound")
             \/ done < 4 /\ UNCHANGED <<state, nextTimeout, phase>>
    /\ UNCHANGED <<nextXid, requestAddr, net>>

\* haltNetwork: setAddress(0), then bringDown, each failure only logged.
HaltNetwork(c) ==
    \E cleared, downed \in BOOLEAN :
        /\ ifaddr' = [ifaddr EXCEPT ![c] = IF cleared THEN 0 ELSE @]
        /\ ifup' = [ifup EXCEPT ![c] = IF downed THEN FALSE ELSE @]

\* A DHCPNAK: halt the network and start over in Init.
ReceiveNak(c, m) ==
    /\ Waiting(c)
    /\ state[c] \in {"Requesting", "Renewing", "Rebinding"}
    /\ Receivable(c, m)
    /\ m.type = DHCPNAK
    /\ HaltNetwork(c)
    /\ SetNextState(c, "Init")
    /\ UNCHANGED <<nextXid, requestAddr, t1Expired, t2Expired, net>>

-----------------------------------------------------------------------------
(* Time passing: mT1 and mT2 expire in the order of their durations.      *)

ExpireT1(c) ==
    /\ ~t1Expired[c]
    /\ T1Secs <= T2Secs \/ t2Expired[c]
    /\ t1Expired' = [t1Expired EXCEPT ![c] = TRUE]
    /\ UNCHANGED <<state, phase, nextTimeout, nextXid, requestAddr, ifaddr,
                   ifup, t2Expired, net>>

ExpireT2(c) ==
    /\ ~t2Expired[c]
    /\ T2Secs <= T1Secs \/ t1Expired[c]
    /\ t2Expired' = [t2Expired EXCEPT ![c] = TRUE]
    /\ UNCHANGED <<state, phase, nextTimeout, nextXid, requestAddr, ifaddr,
                   ifup, t1Expired, net>>

-----------------------------------------------------------------------------
\* The DhcpClient constructor: mState(State::Init),
\* mNextTimeout(kInitialTimeout); Timer(): mExpires(0), i.e. expired.
ClientInit ==
    /\ state = [c \in Clients |-> "Init"]
    /\ phase = [c \in Clients |-> "act"]
    /\ nextTimeout = [c \in Clients |-> kInitialTimeout]
    /\ nextXid = [c \in Clients |-> 1]
    /\ requestAddr = [c \in Clients |-> 0]
    /\ ifaddr = [c \in Clients |-> 0]
    /\ ifup = [c \in Clients |-> FALSE]
    /\ t1Expired = [c \in Clients |-> TRUE]
    /\ t2Expired = [c \in Clients |-> TRUE]

ClientNext(c) ==
    \/ InitStep(c) \/ SelectingStep(c) \/ RequestingStep(c)
    \/ BoundStep(c) \/ RenewingStep(c) \/ RebindingStep(c)
    \/ WaitTimeout(c)
    \/ \E m \in net : ReceiveOffer(c, m) \/ ReceiveAck(c, m) \/ ReceiveNak(c, m)
    \/ ExpireT1(c) \/ ExpireT2(c)
=============================================================================
