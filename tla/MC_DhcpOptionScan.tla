-------------------------- MODULE MC_DhcpOptionScan --------------------------
(***************************************************************************)
(* The option scans of the code (Message::getOption and its callers, the  *)
(* loop of DhcpClient::configureDhcp) run on every datagram of at most    *)
(* MaxBody option bytes after the cookie, built from the byte values      *)
(* ByteVals.  A state is the option area received so far; each step       *)
(* receives one more byte.  The buffer beyond the message holds the byte  *)
(* Stale, which no datagram contains, so that a value read from beyond    *)
(* the message's end shows up in what the scan returns.                   *)
(***************************************************************************)
EXTENDS DhcpOptions

CONSTANTS ByteVals, MaxBody, Stale

ASSUME ScanAssumption ==
    /\ ByteVals \subseteq 0..255
    /\ MaxBody \in Nat
    /\ Stale \in 0..255 \ ByteVals

VARIABLE body

buf == Cookie \o body \o <<Stale, Stale, Stale>>
optsSize == Len(Cookie) + Len(body)

ScanInit == body = <<>>

ScanNext == Len(body) < MaxBody /\ \E b \in ByteVals : body' = Append(body, b)

-----------------------------------------------------------------------------
(***************************************************************************)
(* The option list as the specification (section 3) defines it: TLVs     *)
(* from the cookie to OPT_END or to the declared end, PAD and END being a *)
(* single byte; a TLV that does not fit makes the whole list invalid.     *)
(***************************************************************************)
RECURSIVE RefWalk(_)
RefWalk(i) ==
    IF i >= optsSize \/ At(buf, i) = OPT_END
        THEN [valid |-> TRUE, tlvs |-> <<>>]
    ELSE IF At(buf, i) = OPT_PAD THEN RefWalk(i + 1)
    ELSE IF i + 1 >= optsSize \/ i + 2 + At(buf, i + 1) > optsSize
        THEN [valid |-> FALSE, tlvs |-> <<>>]
    ELSE LET rest == RefWalk(i + 2 + At(buf, i + 1))
             tlv == [code |-> At(buf, i),
                     value |-> BytesAt(buf, i + 2, At(buf, i + 1))]
         IN  [rest EXCEPT !.tlvs = <<tlv>> \o @]

Ref == RefWalk(4)

\* The first TLV with a code, as type(), serverId() and requestedIp() see it.
RefFirst(code, len) ==
    LET hits == {k \in DOMAIN Ref.tlvs : Ref.tlvs[k].code = code}
        k0 == CHOOSE k \in hits : \A j \in hits : k <= j
    IN  IF hits # {} /\ Len(Ref.tlvs[k0].value) = len THEN Ref.tlvs[k0].value
        ELSE [j \in 1..len |-> 0]

\* The lease fields of section 3 filled from the TLVs, a later TLV
\* overriding an earlier one.
RefStore(info, t) ==
    LET n == Len(t.value)
        w(k) == SubSeq(t.value, 4 * k + 1, 4 * k + 4)
    IN  CASE t.code = OPT_LEASE_TIME /\ n = 4 -> [info EXCEPT !.leaseTime = t.value]
          [] t.code = OPT_T1 /\ n = 4 -> [info EXCEPT !.t1 = t.value]
          [] t.code = OPT_T2 /\ n = 4 -> [info EXCEPT !.t2 = t.value]
          [] t.code = OPT_SUBNET_MASK /\ n = 4 -> [info EXCEPT !.subnetMask = t.value]
          [] t.code = OPT_GATEWAY /\ n >= 4 -> [info EXCEPT !.gateway = w(0)]
          [] t.code = OPT_MTU /\ n = 2 -> [info EXCEPT !.mtu = t.value]
          [] t.code = OPT_DNS ->
                [info EXCEPT !.dns = [k \in 0..3 |->
                    IF n >= 4 * (k + 1) THEN w(k) ELSE info.dns[k]]]
          [] t.code = OPT_SERVER_ID /\ n = 4 -> [info EXCEPT !.serverId = t.value]
          [] OTHER -> info

RECURSIVE RefInfoFrom(_, _)
RefInfoFrom(info, k) ==
    IF k > Len(Ref.tlvs) THEN info
    ELSE RefInfoFrom(RefStore(info, Ref.tlvs[k]), k + 1)

RefInfo == RefInfoFrom(NoInfo, 1)

Scanned == ConfigureOptions(buf, optsSize)

LeaseFields == {"leaseTime", "t1", "t2", "subnetMask", "gateway", "mtu", "dns"}

StoredValues(info) ==
    {info[f] : f \in LeaseFields \ {"dns"}} \cup {info.dns[k] : k \in 0..3}

-----------------------------------------------------------------------------
(***************************************************************************)
(* configureDhcp agrees with the specified option list: a well-formed     *)
(* message is accepted and yields the lease time, T1, T2, mask, gateway,  *)
(* MTU and DNS servers the specification's reading of its TLVs gives.     *)
(* This is about the code's walk (its loop bound, its OPT_END test and    *)
(* the step i += 2 + optLength).                                          *)
(***************************************************************************)
ConfigureMatchesReference ==
    Ref.valid =>
        /\ Scanned.ok
        /\ \A f \in LeaseFields : Scanned[f] = RefInfo[f]

(***************************************************************************)
(* Message::type, serverId and requestedIp return, for a well-formed      *)
(* message, the value of the first TLV with their code when its length is *)
(* the expected one, and zero otherwise (getOption's walk).               *)
(***************************************************************************)
GetOptionMatchesReference ==
    Ref.valid =>
        /\ MessageType(buf, optsSize) = RefFirst(OPT_MESSAGE_TYPE, 1)[1]
        /\ ServerId(buf, optsSize) = RefFirst(OPT_SERVER_ID, 4)
        /\ RequestedIp(buf, optsSize) = RefFirst(OPT_REQUESTED_IP, 4)

=============================================================================
