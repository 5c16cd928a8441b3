------------------------- MODULE DhcpSystem_proofs -------------------------
(***************************************************************************)
(* Proofs about the server and its clients (DhcpSystem): for every pool,  *)
(* every set of clients, interfaces and MACs, and every bound on the      *)
(* transaction ids, the state keeps its types (the retransmission timeout *)
(* included), and every DHCPACK the server has sent names the address it  *)
(* holds for that client.                                                  *)
(***************************************************************************)
EXTENDS DhcpSystem, DhcpAllocator_proofs

(***************************************************************************)
(* A client's timeout is the remaining lease time only while it is Bound: *)
(* every other state reaches increaseTimeout from kNoTimeout or from the  *)
(* ladder, never from a remaining time.                                    *)
(***************************************************************************)
RemainingOnlyBound ==
    \A c \in Clients :
        nextTimeout[c] = Client!TimerRemaining => state[c] = "Bound"

\* Every ACK on the network names a nonzero address that is its key's lease.
AckNamesLease ==
    \A m \in net :
        m.type = DHCPACK => m.yiaddr # 0 /\ leases[KeyOf(m)] = m.yiaddr

SysInv == TypeOK /\ LeaseBelowCursor /\ LeaseUnique /\ RemainingOnlyBound
          /\ AckNamesLease

USE ClientAssumption, PoolAssumption

(***************************************************************************)
(* main.cpp starts one DhcpClient for the single interface given with -i: *)
(* no two client processes run on the same link.                          *)
(***************************************************************************)
OneClientPerLink ==
    \A c1, c2 \in Clients : ClientLink[c1] = ClientLink[c2] => c1 = c2

\* Every message on the network was built for, or in answer to, the
\* (interface, MAC) of some client: requests carry the client's own, and
\* Message::offer/ack/nack copy them from the request.
FromClient ==
    \A m \in net : \E c \in Clients :
        m.link = ClientLink[c] /\ m.chaddr = ClientMac[c]

\* The inductive invariant behind AddressLeased.
LeasedInv == SysInv /\ FromClient /\ AddressLeased


AllMessages == Messages(Macs, Links, 1..MaxXid, Addresses)

(***************************************************************************)
(* SysInv holds in the initial state: no lease, no message, every client *)
(* in Init with mNextTimeout = kInitialTimeout.                           *)
(***************************************************************************)
LEMMA SysInitInv == Init => SysInv
<1> SUFFICES ASSUME Init PROVE SysInv
  OBVIOUS
<1>1. TypeOK
  <2>1. AllocTypeOK /\ net \subseteq AllMessages
    BY DEF Init, ServerInit, AllocInit, AllocTypeOK
  <2>2. /\ state \in [Clients -> Client!States]
        /\ phase \in [Clients -> {"act", "wait"}]
        /\ nextTimeout \in [Clients -> TimeoutValues]
    BY DEF Init, Client!ClientInit, Client!States, TimeoutValues,
           Client!kInitialTimeout
  <2>3. /\ nextXid \in [Clients -> 1..MaxXid + 1]
        /\ requestAddr \in [Clients -> Addresses]
        /\ ifaddr \in [Clients -> Addresses]
    BY DEF Init, Client!ClientInit, Addresses
  <2>4. /\ ifup \in [Clients -> BOOLEAN]
        /\ t1Expired \in [Clients -> BOOLEAN]
        /\ t2Expired \in [Clients -> BOOLEAN]
    BY DEF Init, Client!ClientInit
  <2>5. QED BY <2>1, <2>2, <2>3, <2>4 DEF TypeOK, AllMessages
<1>2. LeaseBelowCursor /\ LeaseUnique /\ AckNamesLease
  BY DEF Init, ServerInit, AllocInit, LeaseBelowCursor, LeaseUnique, AckNamesLease
<1>3. RemainingOnlyBound
  BY DEF Init, Client!ClientInit, RemainingOnlyBound, Client!kInitialTimeout,
         Client!TimerRemaining
<1>4. QED BY <1>1, <1>2, <1>3 DEF SysInv

(***************************************************************************)
(* What a returning call of getOfferAddress(k) does to the table: k ends  *)
(* up with the address the call returns, which lies in the pool or is 0, *)
(* and every key that already had an address keeps it.                    *)
(***************************************************************************)
LEMMA OfferAddressFacts ==
    ASSUME AllocInv, NEW k \in Keys, ~AllocHangs(k)
    PROVE  /\ LeasesAfter(k)[k] = OfferAddress(k)
           /\ OfferAddress(k) \in Addresses
           /\ \A j \in Keys : leases[j] # 0 => LeasesAfter(k)[j] = leases[j]
<1> USE DEF AllocInv, AllocTypeOK
<1>1. CASE AllocFresh(k)
  BY <1>1 DEF LeasesAfter, OfferAddress, AllocFresh, Candidate, Addresses
<1>2. CASE ~AllocFresh(k)
  BY <1>2 DEF LeasesAfter, OfferAddress, LeaseBelowCursor, Addresses
<1>3. QED BY <1>1, <1>2

(***************************************************************************)
(* A step of the server's loop preserves SysInv: the allocator part by    *)
(* AllocStepInv, and an ACK it sends names the address the same call     *)
(* left in the table for the requesting key.                              *)
(***************************************************************************)
LEMMA ServerStepInv ==
    ASSUME SysInv, ServerNext, UNCHANGED clientVars
    PROVE  SysInv'
<1> USE DEF SysInv
<1>1. PICK m \in net : SendDhcpOffer(m) \/ HandleRequest(m)
  BY DEF ServerNext
<1> DEFINE k == KeyOf(m)
<1>2. m \in AllMessages /\ k \in Keys
  BY DEF TypeOK, AllMessages, Messages, KeyOf, Keys
<1>3. GetOfferAddress(k)
  BY <1>1 DEF SendDhcpOffer, HandleRequest
<1>4. UNCHANGED <<state, phase, nextTimeout, nextXid, requestAddr, ifaddr, ifup,
                  t1Expired, t2Expired>>
  BY DEF clientVars
<1>5. CASE AllocHangs(k)
  <2>1. UNCHANGED <<leases, cursor, net>> /\ hung' = TRUE
    BY <1>1, <1>3, <1>5 DEF GetOfferAddress, SendDhcpOffer, HandleRequest
  <2>2. QED
    BY <1>4, <2>1 DEF TypeOK, AllocTypeOK, LeaseBelowCursor, LeaseUnique,
                      Candidate, RemainingOnlyBound, AckNamesLease
<1>6. CASE ~AllocHangs(k)
  <2>1. leases' = LeasesAfter(k) /\ cursor' = CursorAfter(k) /\ UNCHANGED hung
    BY <1>3, <1>6 DEF GetOfferAddress
  <2>2. AllocInv'
    BY <2>1, <1>2, <1>6, AllocStepInv DEF AllocInv, TypeOK
  <2>3. /\ LeasesAfter(k)[k] = OfferAddress(k)
        /\ OfferAddress(k) \in Addresses
        /\ \A j \in Keys : leases[j] # 0 => LeasesAfter(k)[j] = leases[j]
    BY <1>2, <1>6, OfferAddressFacts DEF AllocInv, TypeOK
  <2>4. \E r \in {Offer(m, OfferAddress(k)), Ack(m, OfferAddress(k)), Nak(m)} :
          /\ net' \in {net, net \cup {r}}
          /\ r.type = DHCPACK => r.yiaddr = OfferAddress(k) /\ OfferAddress(k) # 0
    <3>1. CASE SendDhcpOffer(m)
      <4>1. net' \in {net, net \cup {Offer(m, OfferAddress(k))}}
        BY <3>1, <1>6 DEF SendDhcpOffer, SendIf
      <4>2. Offer(m, OfferAddress(k)).type # DHCPACK
        BY DEF Offer, Reply, DHCPOFFER, DHCPACK
      <4>3. QED BY <4>1, <4>2
    <3>2. CASE HandleRequest(m)
      <4>1. \/ net' \in {net, net \cup {Ack(m, OfferAddress(k))}} /\ OfferAddress(k) # 0
            \/ net' \in {net, net \cup {Nak(m)}}
        BY <3>2, <1>6 DEF HandleRequest, SendIf
      <4>2. Ack(m, OfferAddress(k)).type = DHCPACK
            /\ Ack(m, OfferAddress(k)).yiaddr = OfferAddress(k)
            /\ Nak(m).type # DHCPACK
        BY DEF Ack, Nak, Reply, DHCPNAK, DHCPACK
      <4>3. QED BY <4>1, <4>2
    <3>3. QED BY <3>1, <3>2, <1>1
  <2>5. PICK r \in {Offer(m, OfferAddress(k)), Ack(m, OfferAddress(k)), Nak(m)} :
          /\ net' \in {net, net \cup {r}}
          /\ r.type = DHCPACK => r.yiaddr = OfferAddress(k) /\ OfferAddress(k) # 0
    BY <2>4
  <2>6. r \in AllMessages /\ KeyOf(r) = k
    BY <1>2, <2>3 DEF AllMessages, Messages, Offer, Ack, Nak, Reply, KeyOf,
                      Addresses, ReplyTypes
  <2>7. TypeOK'
    BY <1>4, <2>2, <2>5, <2>6 DEF TypeOK, AllocInv, AllMessages
  <2>8. AckNamesLease'
    <3> SUFFICES ASSUME NEW a \in net', a.type = DHCPACK
                 PROVE  a.yiaddr # 0 /\ leases'[KeyOf(a)] = a.yiaddr
      BY DEF AckNamesLease
    <3>1. CASE a \in net
      <4>1. KeyOf(a) \in Keys
        BY <3>1 DEF TypeOK, Messages, KeyOf, Keys
      <4>2. a.yiaddr # 0 /\ leases[KeyOf(a)] = a.yiaddr
        BY <3>1 DEF AckNamesLease
      <4>3. QED BY <4>1, <4>2, <2>1, <2>3
    <3>2. CASE a = r
      BY <3>2, <2>1, <2>3, <2>5, <2>6
    <3>3. QED BY <3>1, <3>2, <2>5
  <2>9. RemainingOnlyBound'
    BY <1>4 DEF RemainingOnlyBound
  <2>10. QED BY <2>2, <2>7, <2>8, <2>9 DEF AllocInv
<1>7. QED BY <1>5, <1>6

(***************************************************************************)
(* increaseTimeout keeps a timeout on the ladder: from kNoTimeout it      *)
(* starts at kInitialTimeout, below kMaxTimeout it doubles, and the clamp *)
(* keeps 64000 where it is.                                                *)
(***************************************************************************)
LEMMA IncreasedOnLadder ==
    ASSUME NEW t \in TimeoutValues \ {Client!TimerRemaining}
    PROVE  Client!IncreasedTimeout(t) \in TimeoutValues \ {Client!TimerRemaining}
BY DEF TimeoutValues, Client!IncreasedTimeout, Client!kNoTimeout,
       Client!kInitialTimeout, Client!kMaxTimeout, Client!TimerRemaining

\* The DISCOVER and REQUEST a client builds are well-typed requests.
LEMMA ClientMessages ==
    ASSUME TypeOK, NEW c \in Clients, nextXid[c] <= MaxXid
    PROVE  /\ Client!MyDiscover(c) \in AllMessages
           /\ Client!MyRequest(c) \in AllMessages
           /\ Client!MyDiscover(c).type # DHCPACK
           /\ Client!MyRequest(c).type # DHCPACK
BY DEF TypeOK, AllMessages, Messages, Client!MyDiscover, Client!MyRequest,
       Client!Discover, Client!Request, RequestTypes, Client!DHCPDISCOVER,
       Client!DHCPREQUEST, DHCPDISCOVER, DHCPREQUEST, DHCPACK, Addresses

(***************************************************************************)
(* A client step adds at most one request to the network and leaves the   *)
(* table alone, so the ACKs keep naming their leases.                     *)
(***************************************************************************)
LEMMA NetStep ==
    ASSUME SysInv, UNCHANGED leases,
           \/ net' = net
           \/ \E r \in AllMessages : r.type # DHCPACK /\ net' = net \cup {r}
    PROVE  net' \subseteq AllMessages /\ AckNamesLease'
BY DEF SysInv, TypeOK, AllMessages, AckNamesLease

\* The client fields of TypeOK, with RemainingOnlyBound.
ClientPart ==
    /\ state \in [Clients -> Client!States]
    /\ phase \in [Clients -> {"act", "wait"}]
    /\ nextTimeout \in [Clients -> TimeoutValues]
    /\ nextXid \in [Clients -> 1..MaxXid + 1]
    /\ requestAddr \in [Clients -> Addresses]
    /\ ifaddr \in [Clients -> Addresses]
    /\ ifup \in [Clients -> BOOLEAN]
    /\ t1Expired \in [Clients -> BOOLEAN]
    /\ t2Expired \in [Clients -> BOOLEAN]
    /\ RemainingOnlyBound

LEMMA ClientPartOfInv == SysInv => ClientPart
BY DEF SysInv, TypeOK, ClientPart

(***************************************************************************)
(* Every client action keeps the client fields typed: a timeout set by    *)
(* the backoff stays on the ladder (the sending states are never Bound),  *)
(* the remaining lease time is set only in Bound, and the addresses a     *)
(* client stores come from replies on the network.                        *)
(***************************************************************************)
LEMMA ClientPartStep ==
    ASSUME SysInv, NEW c \in Clients, Client!ClientNext(c)
    PROVE  ClientPart'
<1>1. CASE Client!InitStep(c)
  BY <1>1, ClientPartOfInv
  DEF Client!InitStep, Client!Acting, Client!SetNextState,
      ClientPart, RemainingOnlyBound, Client!States, TimeoutValues,
         Client!kNoTimeout, Client!TimerRemaining
<1>2. CASE Client!BoundStep(c)
  BY <1>2, ClientPartOfInv
  DEF Client!BoundStep, Client!Acting, Client!SetNextState,
      ClientPart, RemainingOnlyBound, Client!States, TimeoutValues,
         Client!kNoTimeout, Client!TimerRemaining
<1>3. CASE Client!WaitTimeout(c)
  BY <1>3, ClientPartOfInv
  DEF Client!WaitTimeout, Client!Waiting,
      ClientPart, RemainingOnlyBound, Client!States, TimeoutValues,
         Client!kNoTimeout, Client!TimerRemaining
<1>4. CASE Client!ExpireT1(c)
  BY <1>4, ClientPartOfInv
  DEF Client!ExpireT1,
      ClientPart, RemainingOnlyBound, Client!States, TimeoutValues,
         Client!kNoTimeout, Client!TimerRemaining
<1>5. CASE Client!ExpireT2(c)
  BY <1>5, ClientPartOfInv
  DEF Client!ExpireT2,
      ClientPart, RemainingOnlyBound, Client!States, TimeoutValues,
         Client!kNoTimeout, Client!TimerRemaining
<1>6. CASE Client!SelectingStep(c)
  <2>1. state[c] # "Bound" /\ nextTimeout[c] \in TimeoutValues \ {Client!TimerRemaining}
    BY <1>6, ClientPartOfInv DEF Client!SelectingStep, Client!Acting, ClientPart, RemainingOnlyBound, Client!States, TimeoutValues,
         Client!kNoTimeout, Client!TimerRemaining
  <2>2. Client!IncreasedTimeout(nextTimeout[c]) \in TimeoutValues \ {Client!TimerRemaining}
    BY <2>1, IncreasedOnLadder
  <2>3. QED
    BY <1>6, <2>1, <2>2, ClientPartOfInv
    DEF Client!SelectingStep, Client!Acting, Client!SetNextState, Client!SendAndBackoff,
        ClientPart, RemainingOnlyBound, Client!States, TimeoutValues,
         Client!kNoTimeout, Client!TimerRemaining
<1>7. CASE Client!RequestingStep(c)
  <2>1. state[c] # "Bound" /\ nextTimeout[c] \in TimeoutValues \ {Client!TimerRemaining}
    BY <1>7, ClientPartOfInv DEF Client!RequestingStep, Client!Acting, ClientPart, RemainingOnlyBound, Client!States, TimeoutValues,
         Client!kNoTimeout, Client!TimerRemaining
  <2>2. Client!IncreasedTimeout(nextTimeout[c]) \in TimeoutValues \ {Client!TimerRemaining}
    BY <2>1, IncreasedOnLadder
  <2>3. QED
    BY <1>7, <2>1, <2>2, ClientPartOfInv
    DEF Client!RequestingStep, Client!Acting, Client!SetNextState, Client!SendAndBackoff,
        ClientPart, RemainingOnlyBound, Client!States, TimeoutValues,
         Client!kNoTimeout, Client!TimerRemaining
<1>8. CASE Client!RenewingStep(c)
  <2>1. state[c] # "Bound" /\ nextTimeout[c] \in TimeoutValues \ {Client!TimerRemaining}
    BY <1>8, ClientPartOfInv DEF Client!RenewingStep, Client!Acting, ClientPart, RemainingOnlyBound, Client!States, TimeoutValues,
         Client!kNoTimeout, Client!TimerRemaining
  <2>2. Client!IncreasedTimeout(nextTimeout[c]) \in TimeoutValues \ {Client!TimerRemaining}
    BY <2>1, IncreasedOnLadder
  <2>3. QED
    BY <1>8, <2>1, <2>2, ClientPartOfInv
    DEF Client!RenewingStep, Client!Acting, Client!SetNextState, Client!SendAndBackoff,
        ClientPart, RemainingOnlyBound, Client!States, TimeoutValues,
         Client!kNoTimeout, Client!TimerRemaining
<1>9. CASE Client!RebindingStep(c)
  <2>1. state[c] # "Bound" /\ nextTimeout[c] \in TimeoutValues \ {Client!TimerRemaining}
    BY <1>9, ClientPartOfInv DEF Client!RebindingStep, Client!Acting, ClientPart, RemainingOnlyBound, Client!States, TimeoutValues,
         Client!kNoTimeout, Client!TimerRemaining
  <2>2. Client!IncreasedTimeout(nextTimeout[c]) \in TimeoutValues \ {Client!TimerRemaining}
    BY <2>1, IncreasedOnLadder
  <2>3. QED
    BY <1>9, <2>1, <2>2, ClientPartOfInv
    DEF Client!RebindingStep, Client!Acting, Client!SetNextState, Client!SendAndBackoff,
        ClientPart, RemainingOnlyBound, Client!States, TimeoutValues,
         Client!kNoTimeout, Client!TimerRemaining
<1>10. CASE \E m \in net : Client!ReceiveOffer(c, m)
  <2>1. PICK m \in net : Client!ReceiveOffer(c, m)
    BY <1>10
  <2>2. m.yiaddr \in Addresses
    BY DEF SysInv, TypeOK, Messages
  <2>3. QED
    BY <2>1, <2>2, ClientPartOfInv
    DEF Client!ReceiveOffer, Client!Waiting, Client!SetNextState, Client!Receivable,
        ClientPart, RemainingOnlyBound, Client!States, TimeoutValues,
         Client!kNoTimeout, Client!TimerRemaining
<1>11. CASE \E m \in net : Client!ReceiveAck(c, m)
  <2>1. PICK m \in net : Client!ReceiveAck(c, m)
    BY <1>11
  <2>2. m.yiaddr \in Addresses
    BY DEF SysInv, TypeOK, Messages
  <2>3. PICK done \in 0..4 :
          /\ Client!ConfigureDhcp(c, m, done)
          /\ \/ done = 4 /\ Client!SetNextState(c, "Bound")
             \/ done < 4 /\ UNCHANGED <<state, nextTimeout, phase>>
    BY <2>1 DEF Client!ReceiveAck
  <2>4. UNCHANGED <<nextXid, requestAddr>> /\ state[c] # "Bound"
    BY <2>1 DEF Client!ReceiveAck
  <2>5. /\ ifup' \in [Clients -> BOOLEAN]
        /\ ifaddr' \in [Clients -> Addresses]
        /\ t1Expired' \in [Clients -> BOOLEAN]
        /\ t2Expired' \in [Clients -> BOOLEAN]
    BY <2>2, <2>3, ClientPartOfInv DEF Client!ConfigureDhcp, ClientPart
  <2>6. CASE done = 4
    BY <2>3, <2>4, <2>5, <2>6, ClientPartOfInv
    DEF Client!SetNextState, ClientPart, RemainingOnlyBound, Client!States, TimeoutValues,
            Client!kNoTimeout, Client!TimerRemaining
  <2>7. CASE done < 4
    BY <2>3, <2>4, <2>5, <2>7, ClientPartOfInv DEF ClientPart, RemainingOnlyBound, Client!States, TimeoutValues,
            Client!kNoTimeout, Client!TimerRemaining
  <2>8. QED BY <2>6, <2>7
<1>12. CASE \E m \in net : Client!ReceiveNak(c, m)
  <2>1. PICK m \in net : Client!ReceiveNak(c, m)
    BY <1>12
  <2>2. PICK cleared, downed \in BOOLEAN :
          /\ ifaddr' = [ifaddr EXCEPT ![c] = IF cleared THEN 0 ELSE @]
          /\ ifup' = [ifup EXCEPT ![c] = IF downed THEN FALSE ELSE @]
    BY <2>1 DEF Client!ReceiveNak, Client!HaltNetwork
  <2>3. /\ state' = [state EXCEPT ![c] = "Init"]
        /\ nextTimeout' = [nextTimeout EXCEPT ![c] = Client!kNoTimeout]
        /\ phase' = [phase EXCEPT ![c] = "act"]
        /\ UNCHANGED <<nextXid, requestAddr, t1Expired, t2Expired>>
    BY <2>1 DEF Client!ReceiveNak, Client!SetNextState
  <2>4. ifaddr' \in [Clients -> Addresses] /\ ifup' \in [Clients -> BOOLEAN]
    <3>1. ifaddr \in [Clients -> Addresses] /\ ifup \in [Clients -> BOOLEAN]
      BY ClientPartOfInv DEF ClientPart
    <3>2. 0 \in Addresses
      BY PoolAssumption DEF Addresses
    <3>3. QED BY <2>2, <3>1, <3>2
  <2>5. QED
    BY <2>3, <2>4, ClientPartOfInv
    DEF ClientPart, RemainingOnlyBound, Client!States, TimeoutValues,
        Client!kNoTimeout, Client!TimerRemaining
<1>13. QED
  BY <1>1, <1>2, <1>3, <1>4, <1>5, <1>6, <1>7, <1>8, <1>9, <1>10, <1>11, <1>12
  DEF Client!ClientNext

(***************************************************************************)
(* A client step sends at most one message, a DISCOVER or a REQUEST.      *)
(***************************************************************************)
LEMMA ClientNetStep ==
    ASSUME SysInv, NEW c \in Clients, Client!ClientNext(c)
    PROVE  \/ net' = net
           \/ \E r \in AllMessages : r.type # DHCPACK /\ net' = net \cup {r}
<1> DEFINE Sent(r) == r \in AllMessages /\ r.type # DHCPACK /\ net' = net \cup {r}
<1>1. CASE Client!SelectingStep(c)
  <2>1. nextXid[c] <= MaxXid /\ net' = net \cup {Client!MyDiscover(c)}
    BY <1>1 DEF Client!SelectingStep, Client!SendAndBackoff
  <2>2. Sent(Client!MyDiscover(c))
    BY <2>1, ClientMessages DEF SysInv
  <2>3. QED BY <2>2
<1>2. CASE Client!RequestingStep(c) \/ Client!RenewingStep(c) \/ Client!RebindingStep(c)
  <2>1. \/ net' = net
        \/ nextXid[c] <= MaxXid /\ net' = net \cup {Client!MyRequest(c)}
    BY <1>2 DEF Client!RequestingStep, Client!RenewingStep, Client!RebindingStep,
                Client!SendAndBackoff
  <2>2. CASE nextXid[c] <= MaxXid /\ net' = net \cup {Client!MyRequest(c)}
    <3>1. Sent(Client!MyRequest(c))
      BY <2>2, ClientMessages DEF SysInv
    <3>2. QED BY <3>1
  <2>3. QED BY <2>1, <2>2
<1>3. CASE ~Client!SelectingStep(c) /\ ~Client!RequestingStep(c)
           /\ ~Client!RenewingStep(c) /\ ~Client!RebindingStep(c)
  BY <1>3 DEF Client!ClientNext, Client!InitStep, Client!BoundStep,
              Client!WaitTimeout, Client!ReceiveOffer, Client!ReceiveAck,
              Client!ReceiveNak, Client!ExpireT1, Client!ExpireT2
<1>4. QED BY <1>1, <1>2, <1>3

(***************************************************************************)
(* SysInv is inductive for the whole system.                              *)
(***************************************************************************)
LEMMA SysNextInv == SysInv /\ [Next]_vars => SysInv'
<1> SUFFICES ASSUME SysInv, [Next]_vars PROVE SysInv'
  OBVIOUS
<1>1. CASE ServerNext /\ UNCHANGED clientVars
  BY <1>1, ServerStepInv
<1>2. CASE \E c \in Clients : Client!ClientNext(c) /\ UNCHANGED <<leases, cursor, hung>>
  <2>1. PICK c \in Clients : Client!ClientNext(c) /\ UNCHANGED <<leases, cursor, hung>>
    BY <1>2
  <2>2. ClientPart'
    BY <2>1, ClientPartStep
  <2>3. net' \subseteq AllMessages /\ AckNamesLease'
    BY <2>1, ClientNetStep, NetStep
  <2>4. AllocTypeOK' /\ LeaseBelowCursor' /\ LeaseUnique'
    BY <2>1 DEF SysInv, TypeOK, AllocTypeOK, LeaseBelowCursor, LeaseUnique,
                Candidate
  <2>5. QED
    BY <2>2, <2>3, <2>4 DEF SysInv, TypeOK, ClientPart, AllMessages
<1>3. CASE UNCHANGED vars
  BY <1>3 DEF vars, clientVars, SysInv, TypeOK, AllocTypeOK, LeaseBelowCursor,
              LeaseUnique, Candidate, RemainingOnlyBound, AckNamesLease
<1>4. QED BY <1>1, <1>2, <1>3 DEF Next

(***************************************************************************)
(* For every pool, client population and transaction-id bound, the state *)
(* keeps its types; in particular mNextTimeout only takes kNoTimeout, a   *)
(* remaining lease time, or a value of the 4-8-16-32-64 s backoff ladder: *)
(* increaseTimeout's doubling and clamp never leave it, so the timeout    *)
(* never passes kMaxTimeout, and the remaining lease time of Bound is     *)
(* never fed into the doubling.                                            *)
(***************************************************************************)
THEOREM SystemTypeCorrect == Spec => []TypeOK
<1>1. SysInv => TypeOK
  BY DEF SysInv
<1>2. QED BY <1>1, SysInitInv, SysNextInv, PTL DEF Spec

(***************************************************************************)
(* For every pool, client population and transaction-id bound: every      *)
(* DHCPACK the server's request handler has sent carries the address the *)
(* allocator holds for the (interface, MAC) it answers, now and in every  *)
(* later state, however requests are lost, duplicated or reordered.       *)
(***************************************************************************)
THEOREM AckIsLeaseInvariant == Spec => []AckIsLease
<1>1. SysInv => AckIsLease
  BY DEF SysInv, AckNamesLease, AckIsLease
<1>2. QED BY <1>1, SysInitInv, SysNextInv, PTL DEF Spec
-----------------------------------------------------------------------------
(***************************************************************************)
(* A step of the server's loop never takes an address away from a key    *)
(* that holds one (getOfferAddress only fills a key's empty entry).      *)
(***************************************************************************)
LEMMA ServerKeepsLeases ==
    ASSUME SysInv, ServerNext
    PROVE  \A j \in Keys : leases[j] # 0 => leases'[j] = leases[j]
<1>1. PICK m \in net : SendDhcpOffer(m) \/ HandleRequest(m)
  BY DEF ServerNext
<1> DEFINE k == KeyOf(m)
<1>2. k \in Keys
  BY DEF SysInv, TypeOK, Messages, KeyOf, Keys
<1>3. GetOfferAddress(k)
  BY <1>1 DEF SendDhcpOffer, HandleRequest
<1>4. CASE AllocHangs(k)
  BY <1>3, <1>4 DEF GetOfferAddress
<1>5. CASE ~AllocHangs(k)
  <2>1. AllocInv
    BY DEF SysInv, TypeOK, AllocInv
  <2>2. leases' = LeasesAfter(k)
    BY <1>3, <1>5 DEF GetOfferAddress
  <2>3. QED BY <1>2, <1>5, <2>1, <2>2, OfferAddressFacts
<1>6. QED BY <1>4, <1>5

(***************************************************************************)
(* A reply the server sends copies the interface and the client hardware *)
(* address of the request it answers (Message::offer, ack and nack).     *)
(***************************************************************************)
LEMMA ServerRepliesFrom ==
    ASSUME ServerNext
    PROVE  \E m \in net : \A r \in net' \ net :
              r.link = m.link /\ r.chaddr = m.chaddr
<1>1. PICK m \in net : SendDhcpOffer(m) \/ HandleRequest(m)
  BY DEF ServerNext
<1> DEFINE a == OfferAddress(KeyOf(m))
<1>2. net' \subseteq net \cup {Offer(m, a), Ack(m, a), Nak(m)}
  BY <1>1 DEF SendDhcpOffer, HandleRequest, SendIf
<1>3. \A r \in {Offer(m, a), Ack(m, a), Nak(m)} :
         r.link = m.link /\ r.chaddr = m.chaddr
  BY DEF Offer, Ack, Nak, Reply
<1>4. QED BY <1>2, <1>3

(***************************************************************************)
(* What a client puts on the network carries its own interface and MAC.  *)
(***************************************************************************)
LEMMA ClientSendsOwn ==
    ASSUME NEW c \in Clients, Client!ClientNext(c)
    PROVE  \A r \in net' \ net : r.link = ClientLink[c] /\ r.chaddr = ClientMac[c]
<1>1. /\ Client!MyDiscover(c).link = ClientLink[c]
      /\ Client!MyDiscover(c).chaddr = ClientMac[c]
      /\ Client!MyRequest(c).link = ClientLink[c]
      /\ Client!MyRequest(c).chaddr = ClientMac[c]
  BY DEF Client!MyDiscover, Client!MyRequest, Client!Discover, Client!Request
<1>2. CASE Client!SelectingStep(c)
  <2>1. net' = net \cup {Client!MyDiscover(c)}
    BY <1>2 DEF Client!SelectingStep, Client!SendAndBackoff
  <2>2. QED BY <1>1, <2>1
<1>3. CASE Client!RequestingStep(c) \/ Client!RenewingStep(c) \/ Client!RebindingStep(c)
  <2>1. net' \subseteq net \cup {Client!MyRequest(c)}
    BY <1>3 DEF Client!RequestingStep, Client!RenewingStep, Client!RebindingStep,
                Client!SendAndBackoff
  <2>2. QED BY <1>1, <2>1
<1>4. CASE ~Client!SelectingStep(c) /\ ~Client!RequestingStep(c)
           /\ ~Client!RenewingStep(c) /\ ~Client!RebindingStep(c)
  <2>1. net' = net
    BY <1>4 DEF Client!ClientNext, Client!InitStep, Client!BoundStep,
                Client!WaitTimeout, Client!ReceiveOffer, Client!ReceiveAck,
                Client!ReceiveNak, Client!ExpireT1, Client!ExpireT2
  <2>2. QED BY <2>1
<1>5. QED BY <1>2, <1>3, <1>4

(***************************************************************************)
(* A client step changes only its own interface address, and only to 0   *)
(* (haltNetwork), or to the yiaddr of a DHCPACK it received              *)
(* (configureDhcp's setAddress).                                          *)
(***************************************************************************)
LEMMA ClientIfaddr ==
    ASSUME SysInv, NEW c \in Clients, Client!ClientNext(c)
    PROVE  /\ \A d \in Clients \ {c} : ifaddr'[d] = ifaddr[d]
           /\ \/ ifaddr'[c] \in {ifaddr[c], 0}
              \/ \E m \in net : /\ Client!Receivable(c, m)
                                /\ m.type = DHCPACK
                                /\ ifaddr'[c] = m.yiaddr
<1>1. ifaddr \in [Clients -> Addresses]
  BY DEF SysInv, TypeOK
<1>2. CASE \E m \in net : Client!ReceiveAck(c, m)
  <2>1. PICK m \in net : Client!ReceiveAck(c, m)
    BY <1>2
  <2>2. PICK done \in 0..4 : Client!ConfigureDhcp(c, m, done)
    BY <2>1 DEF Client!ReceiveAck
  <2>3. ifaddr' = [ifaddr EXCEPT ![c] = IF done >= 2 THEN m.yiaddr ELSE @]
    BY <2>2 DEF Client!ConfigureDhcp
  <2>4. Client!Receivable(c, m) /\ m.type = DHCPACK
    BY <2>1 DEF Client!ReceiveAck, Client!DHCPACK, DHCPACK
  <2>5. QED BY <1>1, <2>3, <2>4
<1>3. CASE \E m \in net : Client!ReceiveNak(c, m)
  <2>1. PICK m \in net : Client!ReceiveNak(c, m)
    BY <1>3
  <2>2. PICK cleared \in BOOLEAN :
          ifaddr' = [ifaddr EXCEPT ![c] = IF cleared THEN 0 ELSE @]
    BY <2>1 DEF Client!ReceiveNak, Client!HaltNetwork
  <2>3. QED BY <1>1, <2>2
<1>4. CASE /\ ~\E m \in net : Client!ReceiveAck(c, m)
           /\ ~\E m \in net : Client!ReceiveNak(c, m)
  <2>1. ifaddr' = ifaddr
    BY <1>4 DEF Client!ClientNext, Client!InitStep, Client!SelectingStep,
                Client!RequestingStep, Client!BoundStep, Client!RenewingStep,
                Client!RebindingStep, Client!WaitTimeout, Client!ReceiveOffer,
                Client!ExpireT1, Client!ExpireT2
  <2>2. QED BY <2>1
<1>5. QED BY <1>2, <1>3, <1>4
\* LeasedInv holds initially: no message, no address configured.
LEMMA LeasedInitInv == Init => LeasedInv
BY SysInitInv DEF Init, Client!ClientInit, LeasedInv, FromClient, AddressLeased

(***************************************************************************)
(* With one client per link, LeasedInv is inductive.  The only step that *)
(* sets a nonzero interface address is a DHCPACK received on the client's *)
(* link with its transaction id; that ACK answers a request with that    *)
(* link (FromClient), which only this client sends, so its key is the    *)
(* client's key, and AckNamesLease makes yiaddr the lease of that key.   *)
(* Server steps move no lease that is held.                               *)
(***************************************************************************)
LEMMA LeasedNextInv ==
    ASSUME OneClientPerLink, LeasedInv, [Next]_vars
    PROVE  LeasedInv'
<1>1. SysInv /\ SysInv'
  BY SysNextInv DEF LeasedInv
<1>2. \A c \in Clients : ClientKey(c) \in Keys
  BY ClientAssumption DEF ClientKey, Keys
<1>3. CASE ServerNext /\ UNCHANGED clientVars
  <2>1. FromClient'
    <3> SUFFICES ASSUME NEW r \in net'
                 PROVE  \E c \in Clients :
                           r.link = ClientLink[c] /\ r.chaddr = ClientMac[c]
      BY DEF FromClient
    <3>1. CASE r \in net
      BY <3>1 DEF LeasedInv, FromClient
    <3>2. CASE r \notin net
      <4>1. PICK m \in net : \A x \in net' \ net :
                x.link = m.link /\ x.chaddr = m.chaddr
        BY <1>3, ServerRepliesFrom
      <4>2. QED BY <3>2, <4>1 DEF LeasedInv, FromClient
    <3>3. QED BY <3>1, <3>2
  <2>2. AddressLeased'
    <3> SUFFICES ASSUME NEW c \in Clients, ifaddr'[c] # 0
                 PROVE  leases'[ClientKey(c)] = ifaddr'[c]
      BY DEF AddressLeased
    <3>1. ifaddr' = ifaddr
      BY <1>3 DEF clientVars
    <3>2. leases[ClientKey(c)] = ifaddr[c] /\ ifaddr[c] # 0
      BY <3>1 DEF LeasedInv, AddressLeased
    <3>3. QED BY <1>1, <1>2, <1>3, <3>1, <3>2, ServerKeepsLeases
  <2>3. QED BY <1>1, <2>1, <2>2 DEF LeasedInv
<1>4. CASE \E c \in Clients :
             Client!ClientNext(c) /\ UNCHANGED <<leases, cursor, hung>>
  <2>1. PICK c \in Clients : Client!ClientNext(c) /\ UNCHANGED <<leases, cursor, hung>>
    BY <1>4
  <2>2. FromClient'
    BY <2>1, ClientSendsOwn DEF LeasedInv, FromClient
  <2>3. AddressLeased'
    <3> SUFFICES ASSUME NEW d \in Clients, ifaddr'[d] # 0
                 PROVE  leases[ClientKey(d)] = ifaddr'[d]
      BY <2>1 DEF AddressLeased
    <3>1. CASE d # c
      BY <1>1, <2>1, <3>1, ClientIfaddr DEF LeasedInv, AddressLeased
    <3>2. CASE d = c /\ ifaddr'[c] \in {ifaddr[c], 0}
      BY <3>2 DEF LeasedInv, AddressLeased
    <3>3. CASE d = c /\ \E m \in net : /\ Client!Receivable(c, m)
                                       /\ m.type = DHCPACK
                                       /\ ifaddr'[c] = m.yiaddr
      <4>1. PICK m \in net : /\ Client!Receivable(c, m)
                             /\ m.type = DHCPACK
                             /\ ifaddr'[c] = m.yiaddr
        BY <3>3
      <4>2. PICK c0 \in Clients : m.link = ClientLink[c0] /\ m.chaddr = ClientMac[c0]
        BY DEF LeasedInv, FromClient
      <4>3. c0 = c
        BY <4>1, <4>2 DEF OneClientPerLink, Client!Receivable
      <4>4. KeyOf(m) = ClientKey(c)
        BY <4>2, <4>3 DEF KeyOf, ClientKey
      <4>5. leases[KeyOf(m)] = m.yiaddr
        BY <1>1, <4>1 DEF SysInv, AckNamesLease
      <4>6. QED BY <3>3, <4>1, <4>4, <4>5
    <3>4. QED BY <1>1, <2>1, <3>1, <3>2, <3>3, ClientIfaddr
  <2>4. QED BY <1>1, <2>2, <2>3 DEF LeasedInv
<1>5. CASE UNCHANGED vars
  BY <1>1, <1>5 DEF vars, clientVars, LeasedInv, FromClient, AddressLeased
<1>6. QED BY <1>3, <1>4, <1>5 DEF Next

(***************************************************************************)
(* For every pool, every transaction-id bound and every assignment of     *)
(* MACs, when each interface runs one client: an address a client has    *)
(* configured on its interface through configureDhcp is the lease the     *)
(* server holds for that client's (interface, MAC), in every state,       *)
(* whatever requests and replies are lost, duplicated or reordered.  The *)
(* hypothesis is needed: receiveDhcpMessage does not compare chaddr, and *)
(* two clients on one link take each other's ACKs (run sys_steal).       *)
(***************************************************************************)
THEOREM AddressLeasedInvariant ==
    ASSUME OneClientPerLink
    PROVE  Spec => []AddressLeased
<1>1. LeasedInv /\ [Next]_vars => LeasedInv'
  BY LeasedNextInv
<1>2. LeasedInv => AddressLeased
  BY DEF LeasedInv
<1>3. QED BY <1>1, <1>2, LeasedInitInv, PTL DEF Spec

(***************************************************************************)
(* Under the same hypothesis, no two clients configure the same address:  *)
(* each holds its own key's lease, the keys differ because the links do, *)
(* and the allocator never gives one address to two keys.                *)
(***************************************************************************)
THEOREM AddressUniqueInvariant ==
    ASSUME OneClientPerLink
    PROVE  Spec => []AddressUnique
<1>1. LeasedInv /\ [Next]_vars => LeasedInv'
  BY LeasedNextInv
<1>2. LeasedInv => AddressUnique
  <2> SUFFICES ASSUME LeasedInv, NEW c1 \in Clients, NEW c2 \in Clients,
                      c1 # c2, ifaddr[c1] # 0, ifaddr[c1] = ifaddr[c2]
               PROVE  FALSE
    BY DEF AddressUnique
  <2>1. leases[ClientKey(c1)] = ifaddr[c1] /\ leases[ClientKey(c2)] = ifaddr[c2]
    BY DEF LeasedInv, AddressLeased
  <2>2. ClientKey(c1) # ClientKey(c2)
    BY DEF OneClientPerLink, ClientKey
  <2>3. ClientKey(c1) \in Keys /\ ClientKey(c2) \in Keys
    BY ClientAssumption DEF ClientKey, Keys
  <2>4. QED BY <2>1, <2>2, <2>3 DEF LeasedInv, SysInv, LeaseUnique
<1>3. QED BY <1>1, <1>2, LeasedInitInv, PTL DEF Spec
(***************************************************************************)
(* Only one step moves a client to Bound: a DHCPACK received on its link *)
(* whose configureDhcp made all four calls, setAddress(yiaddr) included. *)
(***************************************************************************)
LEMMA ClientEntersBound ==
    ASSUME SysInv, NEW c \in Clients, Client!ClientNext(c),
           NEW d \in Clients, state[d] # "Bound", state'[d] = "Bound"
    PROVE  d = c /\ \E m \in net : m.type = DHCPACK /\ ifaddr'[c] = m.yiaddr
<1>1. state \in [Clients -> Client!States] /\ ifaddr \in [Clients -> Addresses]
  BY DEF SysInv, TypeOK
<1>2. CASE \E m \in net : Client!ReceiveAck(c, m)
  <2>1. PICK m \in net : Client!ReceiveAck(c, m)
    BY <1>2
  <2>2. PICK done \in 0..4 :
          /\ Client!ConfigureDhcp(c, m, done)
          /\ \/ done = 4 /\ Client!SetNextState(c, "Bound")
             \/ done < 4 /\ UNCHANGED <<state, nextTimeout, phase>>
    BY <2>1 DEF Client!ReceiveAck
  <2>3. m.type = DHCPACK
    BY <2>1 DEF Client!ReceiveAck, Client!DHCPACK, DHCPACK
  <2>4. CASE done = 4
    <3>1. state' = [state EXCEPT ![c] = "Bound"]
      BY <2>2, <2>4 DEF Client!SetNextState
    <3>2. ifaddr' = [ifaddr EXCEPT ![c] = m.yiaddr]
      BY <2>2, <2>4 DEF Client!ConfigureDhcp
    <3>3. d = c
      BY <1>1, <3>1
    <3>4. QED BY <1>1, <2>3, <3>2, <3>3
  <2>5. CASE done < 4
    BY <2>2, <2>5
  <2>6. QED BY <2>4, <2>5
<1>3. CASE ~\E m \in net : Client!ReceiveAck(c, m)
  <2>1. \/ UNCHANGED state
        \/ \E s \in Client!States \ {"Bound"} : state' = [state EXCEPT ![c] = s]
        \/ state[c] = "Bound" /\ state' = [state EXCEPT ![c] = "Renewing"]
    BY <1>3 DEF Client!ClientNext, Client!InitStep, Client!SelectingStep,
                Client!RequestingStep, Client!BoundStep, Client!RenewingStep,
                Client!RebindingStep, Client!WaitTimeout, Client!ReceiveOffer,
                Client!ReceiveNak, Client!ExpireT1, Client!ExpireT2,
                Client!SetNextState, Client!Acting, Client!States
  <2>2. QED BY <1>1, <2>1
<1>4. QED BY <1>2, <1>3

(***************************************************************************)
(* For every pool, every transaction-id bound and every assignment of     *)
(* MACs, when each interface runs one client: whenever a client moves to *)
(* Bound, its interface carries a nonzero address and that address is    *)
(* the lease the server holds for it.  The nonzero part rests on the     *)
(* server acknowledging only a nonzero offer address and on the client    *)
(* moving to Bound only when configureDhcp returned true.                *)
(***************************************************************************)
THEOREM BoundOnLeaseHolds ==
    ASSUME OneClientPerLink
    PROVE  Spec => BoundOnLease
<1>1. LeasedInv /\ [Next]_vars => LeasedInv'
  BY LeasedNextInv
<1>2. LeasedInv /\ LeasedInv' /\ [Next]_vars => [EntersBoundOnLease]_vars
  <2> SUFFICES ASSUME LeasedInv, LeasedInv', [Next]_vars,
                      NEW d \in Clients, state[d] # "Bound", state'[d] = "Bound"
               PROVE  ifaddr'[d] # 0 /\ leases'[ClientKey(d)] = ifaddr'[d]
    BY DEF EntersBoundOnLease
  <2>1. SysInv /\ SysInv'
    BY DEF LeasedInv
  <2>2. PICK c \in Clients : Client!ClientNext(c) /\ UNCHANGED leases
    BY DEF Next, vars, clientVars
  <2>3. PICK m \in net : m.type = DHCPACK /\ ifaddr'[d] = m.yiaddr
    BY <2>1, <2>2, ClientEntersBound
  <2>4. ifaddr'[d] # 0
    BY <2>1, <2>3 DEF SysInv, AckNamesLease
  <2>5. QED BY <2>4 DEF LeasedInv, AddressLeased
<1>3. QED BY <1>1, <1>2, LeasedInitInv, PTL DEF Spec, BoundOnLease
(***************************************************************************)
(* For every pool, client population and transaction-id bound, the lease *)
(* table of the running system (server and clients interleaved, requests *)
(* lost, duplicated and reordered) implements LeaseTable: every handler   *)
(* call of the server assigns a free address to a key without one or      *)
(* leaves the table alone, and no client step touches it.                *)
(***************************************************************************)
THEOREM SystemRefinesLeaseTable == Spec => ImplementsLeaseTable
<1>1. Init => LT!TableInit
  BY DEF Init, ServerInit, AllocInit, LT!TableInit
<1>2. SysInv /\ [Next]_vars => [LT!TableNext]_leases
  <2> SUFFICES ASSUME SysInv, [Next]_vars PROVE [LT!TableNext]_leases
    OBVIOUS
  <2>1. CASE ServerNext
    <3>1. PICK m \in net : SendDhcpOffer(m) \/ HandleRequest(m)
      BY <2>1 DEF ServerNext
    <3>2. KeyOf(m) \in Keys
      BY DEF SysInv, TypeOK, Messages, KeyOf, Keys
    <3>3. GetOfferAddress(KeyOf(m))
      BY <3>1 DEF SendDhcpOffer, HandleRequest
    <3>4. AllocInv
      BY DEF SysInv, TypeOK, AllocInv
    <3>5. QED BY <3>2, <3>3, <3>4, GetOfferAddressRefines
  <2>2. CASE ~ServerNext
    BY <2>2 DEF Next, vars
  <2>3. QED BY <2>1, <2>2
<1>3. QED
  BY <1>1, <1>2, SysInitInv, SysNextInv, PTL
  DEF Spec, ImplementsLeaseTable, LT!TableSpec
=============================================================================
