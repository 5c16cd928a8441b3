-------------------------- MODULE HciAttach_proofs --------------------------
(***************************************************************************)
(* Proofs about hciattach's exchange with the controller (HciAttach), for *)
(* every default rate, u->speed, local name, firmware directory and patch *)
(* file satisfying the hypotheses below, and whatever the patch search    *)
(* finds.                                                                  *)
(***************************************************************************)
EXTENDS HciAttach, SequenceTheorems, TLAPS

(***************************************************************************)
(* What the controller and the patch file must be like for the code's     *)
(* rate handling to be right.  A .hcd file ends with the Launch RAM       *)
(* record, after which the controller falls back to its default rate, and *)
(* no earlier record launches the patch or changes the rate.  The         *)
(* controller does not refuse Launch RAM.  A local name holds no 0x04     *)
(* byte (HCI names are UTF-8 text), so the part of the Read Local Name    *)
(* answer that read_hci_event leaves unread never looks like an event.    *)
(***************************************************************************)
FirmwareShape ==
    \A f \in Firmwares :
        /\ Len(f) >= 1
        /\ f[Len(f)] = LaunchRam
        /\ \A i \in 1..(Len(f) - 1) : f[i] \notin {LaunchRam, SetUartSpeed}

LaunchAccepted == LaunchRam \notin Rejectable

NamesAreText == \A n \in Names : \A i \in 1..Len(n) : n[i] # HCI_EVENT_PKT

-----------------------------------------------------------------------------
\* The byte values on the line, and the bytes the host has yet to read.
Bytes(w) == [i \in 1..Len(w) |-> w[i].b]
Stream == rx \o Bytes(wire)

NoEventByte(s) == \A i \in 1..Len(s) : s[i] # HCI_EVENT_PKT

Reading == pc \in Commands /\ io = "read"

\* The answer statuses the controller may give to op.
Statuses(op) == {CMD_SUCCESS} \cup (IF op \in Rejectable THEN {1} ELSE {})

\* The controller's rate once it has answered op with status st, starting
\* from the host's rate.
RateAfter(op, st) ==
    IF st = CMD_SUCCESS /\ op = SetUartSpeed THEN speed
    ELSE IF st = CMD_SUCCESS /\ op = LaunchRam THEN DefSpeed
    ELSE hostBaud

(***************************************************************************)
(* read_hci_event is reading the answer A to the command at pc: either it *)
(* has not yet found the 0x04 that starts it, and the bytes still to come *)
(* are some non-event bytes followed by A, or what it has stored and the  *)
(* bytes still to come make up A, and it has stored no more than it asks  *)
(* for.                                                                    *)
(***************************************************************************)
JunkThen(S, A) ==
    \E j \in 0..Len(S) : NoEventByte(SubSeq(S, 1, j)) /\ S = SubSeq(S, 1, j) \o A

\* Having read r of the answer A, of at most size bytes, the rest of A
\* follows in the stream S.
ReadingFrom(r, S, A, size) ==
    \/ r = <<>> /\ JunkThen(S, A)
    \/ r # <<>> /\ r \o S = A /\ Len(r) <= 3 + Remain(A, size)

ReadingAnswer(A) == ReadingFrom(resp, Stream, A, RespSize(pc))

\* Where the host program is still talking to the controller.
Active == Commands \cup {"locate", "fwOpen", "fwReady", "attach"}

(***************************************************************************)
(* The inductive invariant behind LinkInSync.  Every byte on the line was *)
(* sent at the host's rate; without a controller nothing is sent; at each *)
(* place of the program the rates are as the code expects; while          *)
(* read_hci_event runs, the stream holds the answer to its command and    *)
(* the controller is at the rate that answer left it at; elsewhere the    *)
(* stream holds no event byte and both ends use the same rate (except     *)
(* between the Launch RAM answer and set_speed(def_speed)).               *)
(***************************************************************************)
SyncWire == \A i \in 1..Len(wire) : wire[i].baud = hostBaud

SyncIdle == ~ctrlPresent => wire = <<>> /\ rx = <<>> /\ resp = <<>> /\ ctrlBaud = DefSpeed

SyncPc ==
    /\ pc \in {"open", "locate", "fwOpen", "fwReady", "attach"} => io = "write"
    /\ pc = "open" => wire = <<>> /\ ctrlBaud = DefSpeed
    /\ pc = "timedOut" => wire = <<>>
    /\ pc = "attach" => hostBaud = speed
    /\ pc = "fwReady" => wire = <<>> /\ ctrlBaud = DefSpeed
    /\ pc \in {"fwMode", "fwRec"} =>
          \E j \in 1..Len(fw) : fwLeft = SubSeq(fw, j, Len(fw))

SyncReading ==
    ctrlPresent /\ Reading =>
        \E st \in Statuses(OpOf(pc)) :
            /\ ReadingAnswer(Answer(OpOf(pc), st))
            /\ ctrlBaud = RateAfter(OpOf(pc), st)

SyncQuiet ==
    ctrlPresent /\ pc \in Active /\ ~Reading =>
        /\ NoEventByte(Stream)
        /\ pc # "fwReady" => ctrlBaud = hostBaud

SyncInv == ~garbled /\ SyncWire /\ SyncIdle /\ SyncPc /\ SyncReading /\ SyncQuiet
-----------------------------------------------------------------------------
\* The places of the host program.
PcLabels == Commands \cup {"open", "locate", "fwOpen", "fwReady", "attach",
                           "attached", "failed", "timedOut"}

\* A byte on the line, with the rate it was sent at.
WireByte == [b : Int, baud : Int]

\* Bytes are integers, rates numbers, and a record is left while
\* bcm43xx_load_firmware is at one.
TypeOK ==
    /\ pc \in PcLabels
    /\ io \in {"write", "read"}
    /\ resp \in Seq(Int)
    /\ rx \in Seq(Int)
    /\ wire \in Seq(WireByte)
    /\ hostBaud \in Nat
    /\ ctrlBaud \in Nat
    /\ ctrlPresent \in BOOLEAN
    /\ ctrlName \in Names
    /\ speed \in Speeds
    /\ fw \in Firmwares
    /\ fwLeft \in Seq(Int \X Int)
    /\ pc = "fwRec" => fwLeft # <<>>

\* The answer to op: an event of 3 + A[3] bytes starting with 0x04.
LEMMA AnswerShape ==
    ASSUME NEW op \in Int \X Int, NEW st \in Int, ctrlName \in Seq(Int)
    PROVE  LET A == Answer(op, st)
           IN  /\ A \in Seq(Int)
               /\ Len(A) = IF op = ReadLocalName THEN 7 + NameField ELSE 7
               /\ A[1] = HCI_EVENT_PKT
               /\ A[3] = Len(A) - 3
               /\ A[5] = op[1] /\ A[6] = op[2] /\ A[7] = st
<1> DEFINE P == Padded(ctrlName, NameField)
           H(x) == <<HCI_EVENT_PKT, EVT_CMD_COMPLETE, x, 1, op[1], op[2], st>>
<1>1. P \in Seq(Int) /\ Len(P) = NameField
  BY HciAssumption DEF Padded
<1>2. \A x \in Int : H(x) \in Seq(Int) /\ Len(H(x)) = 7
  BY DEF HCI_EVENT_PKT, EVT_CMD_COMPLETE
<1>3. CASE op = ReadLocalName
  <2>1. Answer(op, st) = H(4 + NameField) \o P
    BY <1>3 DEF Answer
  <2>2. 4 + NameField \in Int
    BY HciAssumption
  <2> QED
    BY <1>1, <1>2, <2>1, <2>2, <1>3, HciAssumption
<1>4. CASE op # ReadLocalName
  BY <1>2, <1>4 DEF Answer
<1> QED
  BY <1>3, <1>4

\* The opcode of the command at each label.
LEMMA OpOfCases ==
    /\ OpOf("reset1") = Reset /\ OpOf("reset2") = Reset
    /\ OpOf("name") = ReadLocalName
    /\ OpOf("clock1") = SetClock /\ OpOf("clock2") = SetClock
    /\ OpOf("speed1") = SetUartSpeed /\ OpOf("speed2") = SetUartSpeed
    /\ OpOf("fwMode") = DownloadMinidriver
    /\ OpOf("bdaddr") = SetBdaddr
    /\ OpOf("fwRec") = Head(fwLeft)
BY Zenon DEF OpOf

\* The command at pc has an opcode.
LEMMA OpOfType ==
    ASSUME TypeOK, pc \in Commands
    PROVE  OpOf(pc) \in Int \X Int
BY OpOfCases DEF TypeOK, Commands, Reset, ReadLocalName, SetClock, SetUartSpeed,
       DownloadMinidriver, SetBdaddr

LEMMA TypeInit == Init => TypeOK
BY HciAssumption DEF Init, TypeOK, PcLabels

\* A read() of read_hci_event past the 0x04 takes at least one byte and at
\* most what the tty holds.
LEMMA ReadCount ==
    ASSUME NEW r \in Seq(Int), NEW s \in Seq(Int), NEW size \in Int,
           ~EventRead(r, size), s # <<>>
    PROVE  Min(Wanted(r, size), Len(s)) \in 1..Len(s)
BY DEF EventRead, Wanted, Remain, Min

\* read_hci_event's buffer and the tty's input stay byte strings.
LEMMA ReadStepType ==
    ASSUME NEW r \in Seq(Int), NEW s \in Seq(Int), NEW size \in Int,
           resp = r, rx = s, ReadStep(size)
    PROVE  resp' \in Seq(Int) /\ rx' \in Seq(Int)
<1>1. CASE r = <<>>
  <2>1. Head(s) \in Int /\ Tail(s) \in Seq(Int)
    BY HeadTailProperties DEF ReadStep
  <2>2. <<HCI_EVENT_PKT>> \in Seq(Int) /\ <<>> \in Seq(Int)
    BY DEF HCI_EVENT_PKT
  <2>3. resp' \in {<<HCI_EVENT_PKT>>, <<>>} /\ rx' = Tail(s)
    BY <1>1, Zenon DEF ReadStep
  <2> QED
    BY <2>1, <2>2, <2>3, Zenon
<1>2. CASE r # <<>>
  <2> DEFINE k == Min(Wanted(r, size), Len(s))
  <2>1. k \in 1..Len(s)
    BY ReadCount DEF ReadStep
  <2>2. resp' = r \o SubSeq(s, 1, k) /\ rx' = SubSeq(s, k + 1, Len(s))
    BY <1>2, Zenon DEF ReadStep
  <2>3. SubSeq(s, 1, k) \in Seq(Int) /\ SubSeq(s, k + 1, Len(s)) \in Seq(Int)
    BY <2>1, SubSeqProperties, ElementOfSeq
  <2> QED
    BY <2>2, <2>3, ConcatProperties
<1> QED
  BY <1>1, <1>2

\* Every label is a place of the host program.
LEMMA LabelFacts ==
    /\ Commands \subseteq PcLabels
    /\ \A l \in {"reset1", "name", "clock1", "speed1", "fwMode", "fwRec", "reset2",
                 "bdaddr", "clock2", "speed2", "open", "locate", "fwOpen", "fwReady",
                 "attach", "attached", "failed", "timedOut"} : l \in PcLabels
BY DEF PcLabels, Commands

LEMMA TypeNext == TypeOK /\ [Next]_vars => TypeOK'
<1> SUFFICES ASSUME TypeOK, [Next]_vars PROVE TypeOK'
  OBVIOUS
<1> USE LabelFacts DEF TypeOK, ctrlVars, config
<1>1. CASE OpenUart
  <2>1. \/ pc' = "reset1" /\ hostBaud' = DefSpeed /\ rx' = <<>>
        \/ pc' = "failed" /\ hostBaud' = hostBaud /\ rx' = rx
    BY <1>1, Zenon DEF OpenUart
  <2>2. UNCHANGED <<io, resp, wire, ctrlBaud, ctrlPresent, ctrlName, speed, fw, fwLeft>>
    BY <1>1 DEF OpenUart
  <2>3. rx' \in Seq(Int)
    <3>1. CASE rx' = <<>>
      BY <3>1
    <3>2. CASE rx' = rx
      BY <3>2
    <3> QED
      BY <2>1, <3>1, <3>2
  <2>4. hostBaud' \in Nat /\ pc' \in {"reset1", "failed"}
    BY <2>1, HciAssumption
  <2> QED
    BY <2>2, <2>3, <2>4
<1>2. CASE WriteCommand
  <2>1. OpOf(pc) \in Int \X Int
    BY <1>2, OpOfType DEF WriteCommand
  <2>2. ASSUME NEW st \in Int, ControllerExecutes(OpOf(pc), st)
        PROVE  wire' \in Seq(WireByte) /\ ctrlBaud' \in Nat
    <3> DEFINE A == Answer(OpOf(pc), st)
    <3>1. A \in Seq(Int)
      BY <2>1, AnswerShape, HciAssumption
    <3>2. [j \in 1..Len(A) |-> [b |-> A[j], baud |-> ctrlBaud]] \in Seq(WireByte)
      BY <3>1 DEF WireByte
    <3>3. wire' = wire \o [j \in 1..Len(A) |-> [b |-> A[j], baud |-> ctrlBaud]]
      BY <2>2 DEF ControllerExecutes
    <3>4. ctrlBaud' \in {speed, DefSpeed, ctrlBaud}
      BY <2>2 DEF ControllerExecutes
    <3>5. wire' \in Seq(WireByte)
      BY <3>2, <3>3, ConcatProperties
    <3> QED
      BY <3>4, <3>5, HciAssumption
  <2>3. CASE ctrlPresent /\ hostBaud = ctrlBaud
    <3>1. PICK st \in Statuses(OpOf(pc)) : ControllerExecutes(OpOf(pc), st)
      BY <1>2, <2>3 DEF WriteCommand, Statuses
    <3>2. st \in Int
      BY DEF Statuses, CMD_SUCCESS
    <3>3. wire' \in Seq(WireByte) /\ ctrlBaud' \in Nat
      BY <2>2, <3>1, <3>2
    <3>4. /\ resp' = <<>> /\ io' = "read"
          /\ UNCHANGED <<pc, hostBaud, ctrlPresent, ctrlName, speed, fw, fwLeft>>
      BY <1>2 DEF WriteCommand
    <3>5. rx' \in Seq(Int)
      BY <1>2 DEF WriteCommand
    <3> QED
      BY <3>3, <3>4, <3>5
  <2>4. CASE ~(ctrlPresent /\ hostBaud = ctrlBaud)
    BY <1>2, <2>4 DEF WriteCommand
  <2> QED
    BY <2>3, <2>4
<1>3. CASE ReadEvent
  BY <1>3, ReadStepType DEF ReadEvent, RespSize, NameBufSize, CC_MIN_SIZE
<1>4. CASE ResetDone
  BY <1>4 DEF ResetDone, Return, AfterReset2, SetSpeedEntry, Commands
<1>5. CASE ReadLocalNameDone
  <2>1. pc' \in {"locate", "failed"}
    BY <1>5, Zenon DEF ReadLocalNameDone
  <2> QED
    BY <1>5, <2>1 DEF ReadLocalNameDone
<1>6. CASE LocatePatchStep
  BY <1>6 DEF LocatePatchStep, SetSpeedEntry
<1>7. CASE SetClockDone
  BY <1>7 DEF SetClockDone, Return
<1>8. CASE SetSpeedDone
  BY <1>8, HciAssumption DEF SetSpeedDone, Return
<1>9. CASE OpenFirmware
  BY <1>9, HciAssumption DEF OpenFirmware, Return
<1>10. CASE DownloadModeDone
  BY <1>10 DEF DownloadModeDone, Return
<1>11. CASE FirmwareRecordDone
  BY <1>11 DEF FirmwareRecordDone
<1>12. CASE FirmwareReady
  BY <1>12, HciAssumption DEF FirmwareReady
<1>13. CASE SetBdaddrDone
  BY <1>13 DEF SetBdaddrDone, SetSpeedEntry
<1>14. CASE Attach
  BY <1>14, HciAssumption DEF Attach, Return
<1>15. CASE Alarm
  BY <1>15 DEF Alarm
<1>16. CASE Arrive
  <2>1. Head(wire) \in WireByte /\ Tail(wire) \in Seq(WireByte)
    BY <1>16, HeadTailProperties DEF Arrive
  <2>2. \E e \in Int : rx' = Append(rx, e)
    <3>1. CASE Head(wire).baud = hostBaud
      <4>1. Head(wire).b \in Int
        BY <2>1 DEF WireByte
      <4>2. rx' = Append(rx, Head(wire).b)
        BY <1>16, <3>1 DEF Arrive
      <4> QED
        BY <4>1, <4>2
    <3>2. CASE Head(wire).baud # hostBaud
      BY <1>16, <3>2, HciAssumption DEF Arrive
    <3> QED
      BY <3>1, <3>2
  <2>3. rx' \in Seq(Int)
    BY <2>2, AppendProperties
  <2>4. wire' = Tail(wire)
        /\ UNCHANGED <<pc, io, resp, hostBaud, ctrlBaud, ctrlPresent, ctrlName, speed, fw, fwLeft>>
    BY <1>16 DEF Arrive
  <2> QED
    BY <2>1, <2>3, <2>4
<1>17. CASE UNCHANGED vars
  BY <1>17 DEF vars
<1> QED
  BY <1>1, <1>2, <1>3, <1>4, <1>5, <1>6, <1>7, <1>8, <1>9, <1>10, <1>11,
     <1>12, <1>13, <1>14, <1>15, <1>16, <1>17 DEF Next, HostStep
-----------------------------------------------------------------------------
(***************************************************************************)
(* Lemmas about the byte strings on the line and in the tty.               *)
(***************************************************************************)
\* Concatenation, Tail and SubSeq on byte strings, stated once so that
\* the steps below instantiate them instead of reasoning about \o afresh.
LEMMA CatType ==
    ASSUME NEW a \in Seq(Int), NEW b \in Seq(Int)
    PROVE  a \o b \in Seq(Int)
OBVIOUS

LEMMA CatAssoc ==
    ASSUME NEW a \in Seq(Int), NEW b \in Seq(Int), NEW c \in Seq(Int)
    PROVE  (a \o b) \o c = a \o (b \o c)
OBVIOUS

LEMMA TailCat ==
    ASSUME NEW a \in Seq(Int), NEW b \in Seq(Int), a # <<>>
    PROVE  Tail(a \o b) = Tail(a) \o b
OBVIOUS

LEMMA SplitAt ==
    ASSUME NEW a \in Seq(Int), NEW k \in 1..Len(a)
    PROVE  /\ SubSeq(a, 1, k) \in Seq(Int) /\ SubSeq(a, k + 1, Len(a)) \in Seq(Int)
           /\ SubSeq(a, 1, k) \o SubSeq(a, k + 1, Len(a)) = a
           /\ Len(SubSeq(a, 1, k)) = k
OBVIOUS

LEMMA FirstThenTail ==
    ASSUME NEW a \in Seq(Int), a # <<>>
    PROVE  <<a[1]>> \o Tail(a) = a /\ Head(a) = a[1]
OBVIOUS

\* Moving the first k bytes of s to the end of r leaves r \o s \o w as it was.
LEMMA MoveRead ==
    ASSUME NEW r \in Seq(Int), NEW s \in Seq(Int), NEW w \in Seq(Int), NEW k \in 1..Len(s)
    PROVE  (r \o SubSeq(s, 1, k)) \o (SubSeq(s, k + 1, Len(s)) \o w) = r \o (s \o w)
<1>1. SubSeq(s, 1, k) \in Seq(Int) /\ SubSeq(s, k + 1, Len(s)) \in Seq(Int)
  BY SplitAt, Zenon
<1>2. SubSeq(s, k + 1, Len(s)) \o w \in Seq(Int)
  BY <1>1, CatType, Zenon
<1>3. (r \o SubSeq(s, 1, k)) \o (SubSeq(s, k + 1, Len(s)) \o w)
      = r \o (SubSeq(s, 1, k) \o (SubSeq(s, k + 1, Len(s)) \o w))
  BY <1>1, <1>2, CatAssoc, Zenon
<1>4. (SubSeq(s, 1, k) \o SubSeq(s, k + 1, Len(s))) \o w
      = SubSeq(s, 1, k) \o (SubSeq(s, k + 1, Len(s)) \o w)
  BY <1>1, CatAssoc, ZenonT(60)
<1>5. SubSeq(s, 1, k) \o SubSeq(s, k + 1, Len(s)) = s
  BY SplitAt, Zenon
<1> QED
  BY <1>3, <1>4, <1>5, Zenon

LEMMA NoEventConcat ==
    ASSUME NEW s \in Seq(Int), NEW t \in Seq(Int)
    PROVE  NoEventByte(s \o t) <=> NoEventByte(s) /\ NoEventByte(t)
<1>1. NoEventByte(s \o t) => NoEventByte(t)
  <2> SUFFICES ASSUME NoEventByte(s \o t), NEW i \in 1..Len(t)
               PROVE  t[i] # HCI_EVENT_PKT
    BY DEF NoEventByte
  <2>1. (s \o t)[Len(s) + i] = t[i] /\ Len(s) + i \in 1..Len(s \o t)
    OBVIOUS
  <2> QED
    BY <2>1 DEF NoEventByte
<1> QED
  BY <1>1 DEF NoEventByte

LEMMA BytesProps ==
    ASSUME NEW w \in Seq(WireByte)
    PROVE  /\ Bytes(w) \in Seq(Int)
           /\ Len(Bytes(w)) = Len(w)
           /\ Bytes(w) = <<>> <=> w = <<>>
<1>1. \A i \in 1..Len(w) : w[i] \in WireByte
  BY ElementOfSeq, Zenon
<1>2. \A i \in 1..Len(w) : w[i].b \in Int
  BY <1>1 DEF WireByte
<1> QED
  BY <1>2 DEF Bytes

LEMMA BytesConcat ==
    ASSUME NEW w \in Seq(WireByte), NEW v \in Seq(WireByte)
    PROVE  Bytes(w \o v) = Bytes(w) \o Bytes(v)
<1>1. w \o v \in Seq(WireByte)
  BY ConcatProperties, Zenon
<1>2a. Bytes(w) \in Seq(Int) /\ Len(Bytes(w)) = Len(w)
  BY BytesProps, Zenon
<1>2b. Bytes(v) \in Seq(Int) /\ Len(Bytes(v)) = Len(v)
  BY BytesProps, Zenon
<1>2c. Bytes(w \o v) \in Seq(Int) /\ Len(Bytes(w \o v)) = Len(w \o v)
  BY <1>1, BytesProps, Zenon
<1>2. /\ Bytes(w) \in Seq(Int) /\ Len(Bytes(w)) = Len(w)
      /\ Bytes(v) \in Seq(Int) /\ Len(Bytes(v)) = Len(v)
      /\ Bytes(w \o v) \in Seq(Int) /\ Len(Bytes(w \o v)) = Len(w) + Len(v)
  BY <1>2a, <1>2b, <1>2c
<1> QED
  BY <1>2 DEF Bytes

\* A byte arriving moves from the line to the tty: the stream is the same.
LEMMA ArriveKeepsStream ==
    ASSUME NEW r \in Seq(Int), NEW w \in Seq(WireByte), w # <<>>
    PROVE  Append(r, Head(w).b) \o Bytes(Tail(w)) = r \o Bytes(w)
<1>0. Tail(w) \in Seq(WireByte) /\ Head(w) \in WireByte
  BY HeadTailProperties, Zenon
<1>1. Tail(w) \in Seq(WireByte) /\ Head(w).b \in Int
  BY <1>0 DEF WireByte
<1>2a. Bytes(w) \in Seq(Int) /\ Len(Bytes(w)) = Len(w)
  BY BytesProps, Zenon
<1>2b. Bytes(Tail(w)) \in Seq(Int) /\ Len(Bytes(Tail(w))) = Len(Tail(w))
  BY <1>1, BytesProps, Zenon
<1>2. /\ Bytes(w) \in Seq(Int) /\ Len(Bytes(w)) = Len(w)
      /\ Bytes(Tail(w)) \in Seq(Int) /\ Len(Bytes(Tail(w))) = Len(w) - 1
  BY <1>2a, <1>2b
<1> QED
  BY <1>1, <1>2 DEF Bytes

\* The bytes of an answer sent at rate r.
LEMMA SentBytes ==
    ASSUME NEW A \in Seq(Int), NEW r \in Int
    PROVE  LET X == [j \in 1..Len(A) |-> [b |-> A[j], baud |-> r]]
           IN  /\ X \in Seq(WireByte)
               /\ Bytes(X) = A
               /\ \A i \in 1..Len(X) : X[i].baud = r
BY DEF Bytes, WireByte

LEMMA JunkIntro ==
    ASSUME NEW junk \in Seq(Int), NEW A \in Seq(Int), NoEventByte(junk)
    PROVE  JunkThen(junk \o A, A)
<1>1. /\ SubSeq(junk \o A, 1, Len(junk)) = junk
      /\ Len(junk) \in 0..Len(junk \o A)
  OBVIOUS
<1> QED
  BY <1>1, Zenon DEF JunkThen

LEMMA JunkElim ==
    ASSUME NEW S \in Seq(Int), NEW A, JunkThen(S, A)
    PROVE  \E junk \in Seq(Int) : NoEventByte(junk) /\ S = junk \o A
<1>1. PICK j \in 0..Len(S) : NoEventByte(SubSeq(S, 1, j)) /\ S = SubSeq(S, 1, j) \o A
  BY DEF JunkThen
<1>2. SubSeq(S, 1, j) \in Seq(Int)
  OBVIOUS
<1> QED
  BY <1>1, <1>2, Zenon

\* Past its first seven bytes an answer holds only name bytes and padding,
\* none of them 0x04.
LEMMA AnswerTail ==
    ASSUME NamesAreText, NEW op \in Int \X Int, NEW st \in Int, ctrlName \in Names
    PROVE  \A i \in 8..Len(Answer(op, st)) : Answer(op, st)[i] # HCI_EVENT_PKT
<1>1. ctrlName \in Seq(Int)
  BY HciAssumption
<1>2. CASE op = ReadLocalName
  <2> DEFINE P == Padded(ctrlName, NameField)
             H == <<HCI_EVENT_PKT, EVT_CMD_COMPLETE, 4 + NameField, 1, op[1], op[2], st>>
  <2>1. Answer(op, st) = H \o P
    BY <1>2 DEF Answer
  <2>2. P \in Seq(Int) /\ Len(P) = NameField
        /\ \A j \in 1..NameField : P[j] = IF j <= Len(ctrlName) THEN ctrlName[j] ELSE 0
    BY <1>1, HciAssumption DEF Padded
  <2>3. \A j \in 1..Len(ctrlName) : ctrlName[j] # HCI_EVENT_PKT
    BY DEF NamesAreText
  <2>4. \A j \in 1..NameField : P[j] # HCI_EVENT_PKT
    BY <2>2, <2>3 DEF HCI_EVENT_PKT
  <2> QED
    BY <2>1, <2>2, <2>4, HciAssumption DEF HCI_EVENT_PKT, EVT_CMD_COMPLETE
<1>3. CASE op # ReadLocalName
  <2>1. Len(Answer(op, st)) = IF op = ReadLocalName THEN 7 + NameField ELSE 7
    BY <1>1, AnswerShape, Zenon
  <2> QED
    BY <1>3, <2>1
<1> QED
  BY <1>2, <1>3

(***************************************************************************)
(* One read() of read_hci_event keeps it reading the answer A from the    *)
(* stream rx \o W (W the bytes still on the line).                         *)
(***************************************************************************)
LEMMA ReadKeepsAnswer ==
    ASSUME NEW A \in Seq(Int), NEW W \in Seq(Int), NEW size \in Nat,
           NEW r \in Seq(Int), NEW s \in Seq(Int), NEW r2 \in Seq(Int), NEW s2 \in Seq(Int),
           Len(A) >= 3, A[1] = HCI_EVENT_PKT, A[3] \in Nat, size >= 3,
           resp = r, rx = s, resp' = r2, rx' = s2, ReadStep(size),
           ReadingFrom(r, s \o W, A, size)
    PROVE  ReadingFrom(r2, s2 \o W, A, size)
<1>0. Remain(A, size) \in Nat
  BY DEF Remain
<1>1. CASE r = <<>>
  <2>1. JunkThen(s \o W, A)
    BY <1>1, Zenon DEF ReadingFrom
  <2>2. PICK junk \in Seq(Int) : NoEventByte(junk) /\ s \o W = junk \o A
    <3>1. s \o W \in Seq(Int)
      OBVIOUS
    <3>2. \E j2 \in Seq(Int) : NoEventByte(j2) /\ s \o W = j2 \o A
      BY <2>1, <3>1, JunkElim, Zenon
    <3> QED
      BY <3>2, Zenon
  <2>3. s # <<>> /\ s2 = Tail(s)
        /\ r2 = IF Head(s) = HCI_EVENT_PKT THEN <<HCI_EVENT_PKT>> ELSE <<>>
    BY <1>1, Zenon DEF ReadStep
  <2>4. CASE Head(s) = HCI_EVENT_PKT
    <3>1. junk = <<>>
      <4>1. (s \o W)[1] = HCI_EVENT_PKT
        BY <2>3, <2>4
      <4> QED
        BY <2>2, <4>1 DEF NoEventByte
    <3>2. s \o W = A
      BY <2>2, <3>1
    <3>3. r2 = <<HCI_EVENT_PKT>> /\ r2 \o (s2 \o W) = A
      <4>1. Tail(s \o W) = Tail(s) \o W
        BY <2>3, TailCat, Zenon
      <4>2. s2 \o W = Tail(A)
        BY <2>3, <3>2, <4>1, Zenon
      <4>3. <<A[1]>> \o Tail(A) = A
        <5>1. A # <<>>
          OBVIOUS
        <5> QED
          BY <5>1, FirstThenTail, Zenon
      <4>4. r2 = <<HCI_EVENT_PKT>>
        BY <2>3, <2>4, Zenon
      <4> QED
        BY <4>2, <4>3, <4>4, Zenon
    <3>4. Len(r2) <= 3 + Remain(A, size)
      BY <3>3, <1>0
    <3> QED
      BY <3>3, <3>4, Zenon DEF ReadingFrom
  <2>5. CASE Head(s) # HCI_EVENT_PKT
    <3>1. junk # <<>>
      <4>1. (s \o W)[1] # HCI_EVENT_PKT
        BY <2>3, <2>5
      <4> SUFFICES ASSUME junk = <<>> PROVE FALSE
        OBVIOUS
      <4>2. <<>> \o A = A
        OBVIOUS
      <4>3. (s \o W)[1] = A[1]
        BY <2>2, <4>2
      <4> QED
        BY <4>1, <4>3
    <3>2. s2 \o W = Tail(junk) \o A /\ Tail(junk) \in Seq(Int)
      <4>1. Tail(s \o W) = Tail(s) \o W
        BY <2>3, TailCat, Zenon
      <4>2. Tail(junk \o A) = Tail(junk) \o A
        BY <3>1, TailCat, Zenon
      <4>3. Tail(junk) \in Seq(Int)
        BY <3>1
      <4> QED
        BY <2>2, <2>3, <4>1, <4>2, <4>3, Zenon
    <3>3. NoEventByte(Tail(junk))
      BY <2>2, <3>1 DEF NoEventByte
    <3>4. JunkThen(Tail(junk) \o A, A)
      BY <3>2, <3>3, JunkIntro, Zenon
    <3>5. r2 = <<>>
      BY <2>3, <2>5
    <3> QED
      BY <3>2, <3>4, <3>5, Zenon DEF ReadingFrom
  <2> QED
    BY <2>4, <2>5
<1>2. CASE r # <<>>
  <2> DEFINE k == Min(Wanted(r, size), Len(s))
  <2>1. r \o (s \o W) = A /\ Len(r) <= 3 + Remain(A, size)
    BY <1>2, Zenon DEF ReadingFrom
  <2>2. k \in 1..Len(s)
    BY ReadCount DEF ReadStep
  <2>3. r2 = r \o SubSeq(s, 1, k) /\ s2 = SubSeq(s, k + 1, Len(s))
    BY <1>2, Zenon DEF ReadStep
  <2>4. r2 \o (s2 \o W) = A
    <3>0. \A kk \in 1..Len(s) :
            (r \o SubSeq(s, 1, kk)) \o (SubSeq(s, kk + 1, Len(s)) \o W) = r \o (s \o W)
      BY MoveRead, ZenonT(60)
    <3>1. (r \o SubSeq(s, 1, k)) \o (SubSeq(s, k + 1, Len(s)) \o W) = r \o (s \o W)
      BY <2>2, <3>0, Zenon
    <3> QED
      BY <2>1, <2>3, <3>1, Zenon
  <2>5. Len(r2) = Len(r) + k /\ k <= Wanted(r, size)
    <3>1. Len(r2) = Len(r) + k
      <4>1. SubSeq(s, 1, k) \in Seq(Int) /\ Len(SubSeq(s, 1, k)) = k
        BY <2>2, SplitAt, Zenon
      <4> QED
        BY <2>2, <2>3, <4>1
    <3>2. Wanted(r, size) \in Int
      BY SMTT(30) DEF Wanted, Remain
    <3>3. k <= Wanted(r, size)
      BY <3>2 DEF Min
    <3> QED
      BY <3>1, <3>3
  <2>6. Len(r2) <= 3 + Remain(A, size)
    <3>1. CASE Len(r) < 3
      <4>1. Wanted(r, size) = 3 - Len(r)
        BY <3>1 DEF Wanted
      <4> QED
        BY <2>2, <2>5, <3>1, <4>1, <1>0
    <3>2. CASE Len(r) >= 3
      <4>1. r[3] = A[3]
        BY <2>1, <3>2
      <4>2. Remain(r, size) = Remain(A, size)
        BY <4>1 DEF Remain
      <4>3. Wanted(r, size) = Remain(A, size) - (Len(r) - 3)
        BY <3>2, <4>2 DEF Wanted
      <4> QED
        BY <2>2, <2>5, <4>3, <1>0
    <3> QED
      BY <3>1, <3>2
  <2>7. r2 # <<>>
    BY <2>3, <1>2
  <2> QED
    BY <2>4, <2>6, <2>7, Zenon DEF ReadingFrom
<1> QED
  BY <1>1, <1>2

(***************************************************************************)
(* When read_hci_event returns it has stored the first 3 + Remain bytes   *)
(* of the answer, at least seven: the opcode and status among them.       *)
(***************************************************************************)
LEMMA AnswerRead ==
    ASSUME NEW A \in Seq(Int), NEW r \in Seq(Int), NEW size \in Nat, size >= 7,
           A[3] \in Int, A[3] >= 4, Len(r) >= 3, r[3] = A[3],
           Len(r) <= 3 + Remain(A, size), EventRead(r, size)
    PROVE  Len(r) = 3 + Remain(A, size) /\ Len(r) >= 7
BY SMTT(60) DEF EventRead, Remain

\* A prefix of at least seven bytes of A holds A's bytes 5 to 7, and what
\* follows it is the rest of A.
LEMMA PrefixFacts ==
    ASSUME NEW A \in Seq(Int), NEW r \in Seq(Int), NEW S \in Seq(Int),
           r \o S = A, Len(r) >= 7
    PROVE  /\ r[5] = A[5] /\ r[6] = A[6] /\ r[7] = A[7]
           /\ S = SubSeq(A, Len(r) + 1, Len(A))
           /\ Len(r) = Len(A) => S = <<>>
           /\ Len(r) <= Len(A)
<1>1. r[5] = A[5] /\ r[6] = A[6] /\ r[7] = A[7]
  OBVIOUS
<1>2. S = SubSeq(A, Len(r) + 1, Len(A))
  BY SMTT(60)
<1>3. Len(r) = Len(A) => S = <<>>
  OBVIOUS
<1>4. Len(r) <= Len(A)
  OBVIOUS
<1> QED
  BY <1>1, <1>2, <1>3, <1>4

\* Past a prefix of seven bytes or more, an answer has no event byte.
LEMMA SuffixNoEvent ==
    ASSUME NEW A \in Seq(Int), NEW n \in Nat, n >= 7,
           \A i \in 8..Len(A) : A[i] # HCI_EVENT_PKT
    PROVE  NoEventByte(SubSeq(A, n + 1, Len(A)))
<1>1. \A i \in 1..Len(SubSeq(A, n + 1, Len(A))) :
          SubSeq(A, n + 1, Len(A))[i] = A[n + i] /\ n + i \in 8..Len(A)
  OBVIOUS
<1> QED
  BY <1>1 DEF NoEventByte

(***************************************************************************)
(* Once read_hci_event has returned for the command at pc, the answer's   *)
(* status st decides the caller's check, the controller's rate is the one *)
(* that answer left it at, no event byte is left in the stream, and none  *)
(* at all is left after a seven-byte answer.                               *)
(***************************************************************************)
LEMMA AnsweredFacts ==
    ASSUME TypeOK, SyncInv, NamesAreText, ctrlPresent, Answered
    PROVE  \E st \in Statuses(OpOf(pc)) :
               /\ ctrlBaud = RateAfter(OpOf(pc), st)
               /\ CommandComplete(OpOf(pc)) <=> st = CMD_SUCCESS
               /\ NoEventByte(Stream)
               /\ OpOf(pc) # ReadLocalName => Stream = <<>>
<1>1. pc \in Commands /\ io = "read" /\ EventRead(resp, RespSize(pc))
  BY DEF Answered
<1>2. PICK st \in Statuses(OpOf(pc)) :
          ReadingAnswer(Answer(OpOf(pc), st)) /\ ctrlBaud = RateAfter(OpOf(pc), st)
  BY <1>1, Zenon DEF SyncInv, SyncReading, Reading
<1> DEFINE op == OpOf(pc)
           A == Answer(op, st)
           size == RespSize(pc)
<1>3. op \in Int \X Int
  BY <1>1, OpOfType, Zenon
<1>4. st \in Int /\ ctrlName \in Seq(Int) /\ resp \in Seq(Int)
  BY HciAssumption DEF Statuses, CMD_SUCCESS, TypeOK
<1>5. /\ A \in Seq(Int)
      /\ Len(A) = IF op = ReadLocalName THEN 7 + NameField ELSE 7
      /\ A[1] = HCI_EVENT_PKT
      /\ A[3] = Len(A) - 3
      /\ A[5] = op[1] /\ A[6] = op[2] /\ A[7] = st
  BY <1>3, <1>4, AnswerShape, Zenon
<1>6. size \in Nat /\ size >= 7
  BY DEF RespSize, NameBufSize, CC_MIN_SIZE
<1>7. Stream \in Seq(Int)
  <2>1. Bytes(wire) \in Seq(Int)
    BY BytesProps, Zenon DEF TypeOK
  <2>2. rx \in Seq(Int)
    BY DEF TypeOK
  <2> QED
    BY <2>1, <2>2, CatType, Zenon DEF Stream
<1>8. resp # <<>>
  BY <1>1, <1>4 DEF EventRead
<1>9. resp \o Stream = A /\ Len(resp) <= 3 + Remain(A, size)
  BY <1>2, <1>8, Zenon DEF ReadingAnswer, ReadingFrom
<1>10. Len(A) >= 7 /\ A[3] \in Int /\ A[3] >= 4
  BY <1>5, HciAssumption
<1>11. Len(resp) >= 3 /\ resp[3] = A[3]
  BY <1>1, <1>4, <1>7, <1>9, SMTT(30) DEF EventRead
<1>12. Len(resp) >= 7
  BY <1>1, <1>4, <1>5, <1>6, <1>9, <1>10, <1>11, AnswerRead, Zenon
<1>13. /\ resp[5] = A[5] /\ resp[6] = A[6] /\ resp[7] = A[7]
       /\ Stream = SubSeq(A, Len(resp) + 1, Len(A))
       /\ Len(resp) = Len(A) => Stream = <<>>
  <2>1. \A a, r, t \in Seq(Int) :
            r \o t = a /\ Len(r) >= 7 =>
                /\ r[5] = a[5] /\ r[6] = a[6] /\ r[7] = a[7]
                /\ t = SubSeq(a, Len(r) + 1, Len(a))
                /\ Len(r) = Len(a) => t = <<>>
    BY PrefixFacts, Zenon
  <2> QED
    BY <1>4, <1>5, <1>7, <1>9, <1>12, <2>1, Zenon
<1>14. CommandComplete(op) <=> st = CMD_SUCCESS
  BY <1>5, <1>12, <1>13 DEF CommandComplete, CC_MIN_SIZE
<1>15. NoEventByte(Stream)
  <2>1. \A i \in 8..Len(A) : A[i] # HCI_EVENT_PKT
    BY <1>3, <1>4, AnswerTail, Zenon DEF TypeOK
  <2>2. Len(resp) \in Nat
    BY <1>4
  <2>3. NoEventByte(SubSeq(A, Len(resp) + 1, Len(A)))
    BY <1>5, <1>12, <2>1, <2>2, SuffixNoEvent, Zenon
  <2> QED
    BY <1>13, <2>3, Zenon
<1>16. op # ReadLocalName => Stream = <<>>
  <2>1. Len(resp) <= Len(A)
    <3>1. \A a, r, t \in Seq(Int) : r \o t = a /\ Len(r) >= 7 => Len(r) <= Len(a)
      BY PrefixFacts, Zenon
    <3> QED
      BY <1>4, <1>5, <1>7, <1>9, <1>12, <3>1, Zenon
  <2> QED
    BY <1>5, <1>12, <1>13, <2>1
<1> QED
  BY <1>2, <1>14, <1>15, <1>16, Zenon

-----------------------------------------------------------------------------
(***************************************************************************)
(* SyncInv holds at power-up and is kept by every step.                    *)
(***************************************************************************)
LEMMA BytesEmpty == Bytes(<<>>) = <<>>
BY DEF Bytes

\* The state functions the invariant is built from keep their value over a
\* step that leaves the variables they read alone.
LEMMA OpOfPrime ==
    ASSUME pc' = pc, fwLeft' = fwLeft
    PROVE  OpOf(pc)' = OpOf(pc)
BY Zenon DEF OpOf

LEMMA AnswerPrime ==
    ASSUME ctrlName' = ctrlName
    PROVE  \A op, st : Answer(op, st)' = Answer(op, st)
BY Zenon DEF Answer

LEMMA RatePrime ==
    ASSUME speed' = speed, hostBaud' = hostBaud
    PROVE  \A op, st : RateAfter(op, st)' = RateAfter(op, st)
BY Zenon DEF RateAfter

LEMMA SyncInit == Init => SyncInv
<1> SUFFICES ASSUME Init PROVE SyncInv
  OBVIOUS
<1>1. pc = "open" /\ io = "write" /\ wire = <<>> /\ rx = <<>> /\ resp = <<>>
      /\ ctrlBaud = DefSpeed /\ ~garbled
  BY DEF Init
<1>2. ~Reading /\ pc \notin Active
  BY <1>1 DEF Reading, Active, Commands
<1>3. SyncWire /\ SyncIdle /\ SyncPc
  BY <1>1 DEF SyncWire, SyncIdle, SyncPc
<1>4. SyncReading /\ SyncQuiet
  BY <1>2, Zenon DEF SyncReading, SyncQuiet
<1> QED
  BY <1>1, <1>3, <1>4 DEF SyncInv

\* The next byte on the line reaches the tty at the rate it was sent at.
LEMMA SyncArrive ==
    ASSUME TypeOK, SyncInv, Arrive
    PROVE  SyncInv'
<1>1. wire # <<>> /\ wire' = Tail(wire) /\ ctrlPresent
  BY DEF Arrive, SyncInv, SyncIdle, config
<1>2. Head(wire) \in WireByte
  BY <1>1, HeadTailProperties, Zenon DEF TypeOK
<1>3. Head(wire).baud = hostBaud
  <2>1. wire[1].baud = hostBaud /\ Head(wire) = wire[1]
    BY <1>1 DEF SyncInv, SyncWire, TypeOK
  <2> QED
    BY <2>1
<1>4. rx' = Append(rx, Head(wire).b) /\ ~garbled'
  BY <1>3, Zenon DEF Arrive, SyncInv
<1>5. UNCHANGED <<pc, io, resp, hostBaud, ctrlBaud, ctrlPresent, speed, fw, fwLeft, ctrlName>>
  BY DEF Arrive, ctrlVars, config
<1>6. Stream' = Stream
  <2>1. rx \in Seq(Int) /\ wire \in Seq(WireByte)
    BY DEF TypeOK
  <2>2. Append(rx, Head(wire).b) \o Bytes(Tail(wire)) = rx \o Bytes(wire)
    BY <1>1, <2>1, ArriveKeepsStream, Zenon
  <2> QED
    BY <1>1, <1>4, <2>2 DEF Stream
<1>7. SyncWire'
  <2>1. \A i \in 1..Len(Tail(wire)) : Tail(wire)[i] = wire[i + 1] /\ i + 1 \in 1..Len(wire)
    BY <1>1 DEF TypeOK
  <2> QED
    BY <1>1, <1>5, <2>1 DEF SyncInv, SyncWire
<1>8. SyncIdle' /\ SyncPc'
  <2>1. pc \notin {"open", "timedOut", "fwReady"}
    BY <1>1 DEF SyncInv, SyncPc
  <2> QED
    BY <1>1, <1>5, <2>1 DEF SyncInv, SyncIdle, SyncPc
<1>9. SyncReading' /\ SyncQuiet'
  <2>1. OpOf(pc)' = OpOf(pc)
    BY <1>5, OpOfPrime
  <2>2. \A op, st : Answer(op, st)' = Answer(op, st)
    BY <1>5, AnswerPrime
  <2>3. \A op, st : RateAfter(op, st)' = RateAfter(op, st)
    BY <1>5, RatePrime
  <2> QED
    BY <1>5, <1>6, <2>1, <2>2, <2>3 DEF SyncInv, SyncReading, SyncQuiet, Reading,
                                       ReadingAnswer, Active
<1> QED
  BY <1>4, <1>7, <1>8, <1>9 DEF SyncInv

\* sig_alarm ends the program only while nothing is left on the line.
LEMMA SyncAlarm ==
    ASSUME TypeOK, SyncInv, Alarm
    PROVE  SyncInv'
<1>1. pc' = "timedOut" /\ wire = <<>>
      /\ UNCHANGED <<io, resp, rx, wire, hostBaud, ctrlBaud, ctrlPresent, speed, fw, fwLeft,
                     garbled>>
  BY DEF Alarm, ctrlVars, config
<1>2. ~Reading' /\ pc' \notin Active
  BY <1>1 DEF Reading, Active, Commands
<1> QED
  BY <1>1, <1>2 DEF SyncInv, SyncWire, SyncIdle, SyncPc, SyncReading, SyncQuiet

\* Steps that leave read_hci_event idle: io stays "write".
LEMMA NotReadingAfter ==
    ASSUME io' = "write"
    PROVE  SyncReading'
BY Zenon DEF SyncReading, Reading

\* init_uart opens the tty at the controller's default rate.
LEMMA SyncOpenUart ==
    ASSUME TypeOK, SyncInv, OpenUart
    PROVE  SyncInv'
<1>1. /\ pc = "open" /\ io = "write" /\ wire = <<>> /\ ctrlBaud = DefSpeed
      /\ UNCHANGED <<io, resp, wire, ctrlBaud, ctrlPresent, speed, fw, fwLeft, garbled>>
  BY DEF OpenUart, SyncInv, SyncPc, ctrlVars, config
<1>2. \/ pc' = "reset1" /\ hostBaud' = DefSpeed /\ rx' = <<>>
      \/ pc' = "failed" /\ hostBaud' = hostBaud /\ rx' = rx
  BY Zenon DEF OpenUart
<1>3. SyncWire' /\ SyncIdle' /\ SyncPc'
  BY <1>1, <1>2 DEF SyncInv, SyncWire, SyncIdle, SyncPc
<1>4. SyncReading'
  BY <1>1, NotReadingAfter
<1>5. SyncQuiet'
  <2>1. CASE pc' = "reset1" /\ hostBaud' = DefSpeed /\ rx' = <<>>
    <3>1. Stream' = <<>>
      BY <1>1, <2>1, BytesEmpty DEF Stream
    <3> QED
      BY <1>1, <2>1, <3>1 DEF SyncQuiet, NoEventByte
  <2>2. CASE pc' = "failed"
    BY <2>2 DEF SyncQuiet, Active, Commands
  <2> QED
    BY <1>2, <2>1, <2>2
<1> QED
  BY <1>1, <1>3, <1>4, <1>5 DEF SyncInv

\* main continues with the command bcm43xx_locate_patch's result selects.
LEMMA SyncLocate ==
    ASSUME TypeOK, SyncInv, LocatePatchStep
    PROVE  SyncInv'
<1>1. /\ pc = "locate" /\ io = "write"
      /\ UNCHANGED <<io, resp, rx, wire, hostBaud, ctrlBaud, ctrlPresent, speed, fw, fwLeft,
                     garbled>>
  BY DEF LocatePatchStep, SyncInv, SyncPc, ctrlVars, config
<1>2. pc' \in {"clock1", "speed1", "bdaddr", "clock2", "speed2"}
  BY DEF LocatePatchStep, SetSpeedEntry
<1>3. SyncWire' /\ SyncIdle' /\ SyncPc'
  BY <1>1, <1>2 DEF SyncInv, SyncWire, SyncIdle, SyncPc
<1>4. SyncReading'
  BY <1>1, NotReadingAfter
<1>5. SyncQuiet'
  <2>1. ctrlPresent => NoEventByte(Stream) /\ ctrlBaud = hostBaud
    BY <1>1 DEF SyncInv, SyncQuiet, Reading, Active, Commands
  <2> QED
    BY <1>1, <1>2, <2>1 DEF SyncQuiet, Stream
<1> QED
  BY <1>1, <1>3, <1>4, <1>5 DEF SyncInv

\* bcm43xx_load_firmware opens the patch: every record is still to send.
LEMMA SyncOpenFirmware ==
    ASSUME TypeOK, SyncInv, FirmwareShape, OpenFirmware
    PROVE  SyncInv'
<1>1. /\ pc = "fwOpen" /\ io = "write" /\ fwLeft' = fw /\ pc' \in {"fwMode", "failed"}
      /\ UNCHANGED <<io, resp, rx, wire, hostBaud, ctrlBaud, ctrlPresent, speed, fw, garbled>>
  BY DEF OpenFirmware, Return, SyncInv, SyncPc, ctrlVars, config
<1>2. \E j \in 1..Len(fw) : fw = SubSeq(fw, j, Len(fw))
  <2>1. fw \in Seq(Int \X Int) /\ Len(fw) >= 1
    BY HciAssumption DEF TypeOK, FirmwareShape
  <2>2. SubSeq(fw, 1, Len(fw)) = fw
    BY <2>1
  <2> QED
    BY <2>1, <2>2
<1>3. SyncWire' /\ SyncIdle' /\ SyncPc'
  BY <1>1, <1>2 DEF SyncInv, SyncWire, SyncIdle, SyncPc
<1>4. SyncReading'
  BY <1>1, NotReadingAfter
<1>5. SyncQuiet'
  <2>1. ctrlPresent => NoEventByte(Stream) /\ ctrlBaud = hostBaud
    BY <1>1 DEF SyncInv, SyncQuiet, Reading, Active, Commands
  <2> QED
    BY <1>1, <2>1 DEF SyncQuiet, Stream
<1> QED
  BY <1>1, <1>3, <1>4, <1>5 DEF SyncInv

\* After the patch: set_speed(def_speed), the controller's rate since Launch RAM.
LEMMA SyncFirmwareReady ==
    ASSUME TypeOK, SyncInv, FirmwareReady
    PROVE  SyncInv'
<1>1. /\ pc = "fwReady" /\ io = "write" /\ wire = <<>> /\ ctrlBaud = DefSpeed
      /\ pc' = "reset2" /\ hostBaud' = DefSpeed
      /\ UNCHANGED <<io, resp, rx, wire, ctrlBaud, ctrlPresent, speed, fw, fwLeft, garbled>>
  BY DEF FirmwareReady, SyncInv, SyncPc, ctrlVars, config
<1>2. SyncWire' /\ SyncIdle' /\ SyncPc'
  BY <1>1 DEF SyncInv, SyncWire, SyncIdle, SyncPc
<1>3. SyncReading'
  BY <1>1, NotReadingAfter
<1>4. SyncQuiet'
  <2>1. ctrlPresent => NoEventByte(Stream)
    BY <1>1 DEF SyncInv, SyncQuiet, Reading, Active, Commands
  <2> QED
    BY <1>1, <2>1 DEF SyncQuiet, Stream
<1> QED
  BY <1>1, <1>2, <1>3, <1>4 DEF SyncInv

\* init_uart's set_speed(u->speed), the rate both ends already use.
LEMMA SyncAttach ==
    ASSUME TypeOK, SyncInv, Attach
    PROVE  SyncInv'
<1>1. /\ pc = "attach" /\ io = "write" /\ hostBaud = speed
      /\ pc' \in {"attached", "failed"} /\ rx' = <<>> /\ hostBaud' = speed
      /\ UNCHANGED <<io, resp, wire, ctrlBaud, ctrlPresent, speed, fw, fwLeft, garbled>>
  BY DEF Attach, Return, SyncInv, SyncPc, ctrlVars, config
<1>2. SyncWire' /\ SyncIdle' /\ SyncPc'
  BY <1>1 DEF SyncInv, SyncWire, SyncIdle, SyncPc
<1>3. SyncReading'
  BY <1>1, NotReadingAfter
<1>4. SyncQuiet'
  BY <1>1 DEF SyncQuiet, Active, Commands
<1> QED
  BY <1>1, <1>2, <1>3, <1>4 DEF SyncInv

\* A command function writes its command: the controller, at the host's rate,
\* puts its answer on the line behind bytes that hold no 0x04.
LEMMA SyncWrite ==
    ASSUME TypeOK, SyncInv, WriteCommand
    PROVE  SyncInv'
<1>1. /\ pc \in Commands /\ io = "write" /\ io' = "read" /\ resp' = <<>>
      /\ rx' \in {<<>>, rx}
      /\ pc' = pc /\ hostBaud' = hostBaud /\ fwLeft' = fwLeft
      /\ ctrlPresent' = ctrlPresent /\ ctrlName' = ctrlName /\ speed' = speed /\ fw' = fw
  BY DEF WriteCommand, config
<1>2. SyncQuiet'
  BY <1>1, Zenon DEF SyncQuiet, Reading
<1>3. SyncPc'
  BY <1>1 DEF SyncPc, Commands, SyncInv
<1>4. CASE ~ctrlPresent
  <2>1. UNCHANGED <<wire, ctrlBaud, garbled>> /\ rx = <<>>
    BY <1>4 DEF WriteCommand, ctrlVars, SyncInv, SyncIdle
  <2>2. ~garbled' /\ SyncWire' /\ SyncIdle'
    BY <1>1, <1>4, <2>1 DEF SyncInv, SyncWire, SyncIdle
  <2>3. SyncReading'
    BY <1>1, <1>4, Zenon DEF SyncReading
  <2> QED
    BY <1>2, <1>3, <2>2, <2>3 DEF SyncInv
<1>5. CASE ctrlPresent
  <2>1. NoEventByte(Stream) /\ ctrlBaud = hostBaud
    BY <1>1, <1>5 DEF SyncInv, SyncQuiet, Reading, Active, Commands
  <2>2. PICK st \in Statuses(OpOf(pc)) :
            ControllerExecutes(OpOf(pc), st) /\ garbled' = garbled
    BY <1>5, <2>1, Zenon DEF WriteCommand, Statuses
  <2> DEFINE op == OpOf(pc)
             A == Answer(op, st)
             X == [j \in 1..Len(A) |-> [b |-> A[j], baud |-> ctrlBaud]]
  <2>3. op \in Int \X Int /\ st \in Int /\ ctrlName \in Seq(Int)
    BY <1>1, OpOfType, HciAssumption DEF Statuses, CMD_SUCCESS, TypeOK
  <2>4. A \in Seq(Int)
    BY <2>3, AnswerShape, Zenon
  <2>5. X \in Seq(WireByte) /\ Bytes(X) = A /\ \A i \in 1..Len(X) : X[i].baud = ctrlBaud
    <3>1. ctrlBaud \in Int
      BY DEF TypeOK
    <3> QED
      BY <2>4, <3>1, SentBytes, Zenon
  <2>6. wire' = wire \o X /\ ctrlBaud' = RateAfter(op, st)
    BY <2>1, <2>2 DEF ControllerExecutes, RateAfter
  <2>7. SyncWire'
    <3>1. wire \in Seq(WireByte) /\ SyncWire
      BY DEF TypeOK, SyncInv
    <3> QED
      BY <1>1, <2>1, <2>5, <2>6, <3>1, SMTT(60) DEF SyncWire
  <2>8. /\ rx' \in Seq(Int) /\ Bytes(wire) \in Seq(Int)
        /\ NoEventByte(rx' \o Bytes(wire))
    <3>1. rx \in Seq(Int) /\ Bytes(wire) \in Seq(Int)
      BY BytesProps, Zenon DEF TypeOK
    <3>2. NoEventByte(rx) /\ NoEventByte(Bytes(wire))
      BY <2>1, <3>1, NoEventConcat, Zenon DEF Stream
    <3>3. rx' \in Seq(Int) /\ NoEventByte(rx')
      <4>1. CASE rx' = <<>>
        BY <4>1 DEF NoEventByte
      <4>2. CASE rx' = rx
        BY <3>1, <3>2, <4>2
      <4> QED
        BY <1>1, <4>1, <4>2
    <3> QED
      BY <3>1, <3>2, <3>3, NoEventConcat, Zenon
  <2>9. Stream' = (rx' \o Bytes(wire)) \o A
    <3>1. Stream' = rx' \o (Bytes(wire) \o A)
      <4>1. wire \in Seq(WireByte)
        BY DEF TypeOK
      <4>2. Bytes(wire \o X) = Bytes(wire) \o A
        BY <2>5, <4>1, BytesConcat, Zenon
      <4> QED
        BY <2>6, <4>2, Zenon DEF Stream
    <3> QED
      BY <2>4, <2>8, <3>1, CatAssoc, Zenon
  <2>10. ReadingFrom(resp', Stream', A, RespSize(pc))
    <3>1. rx' \o Bytes(wire) \in Seq(Int)
      BY <2>8, CatType, Zenon
    <3>2. JunkThen((rx' \o Bytes(wire)) \o A, A)
      BY <2>4, <2>8, <3>1, JunkIntro, Zenon
    <3> QED
      BY <1>1, <2>9, <3>2, Zenon DEF ReadingFrom
  <2>11. SyncReading'
    <3>1. OpOf(pc)' = op
      BY <1>1, OpOfPrime
    <3>2. \A o, t : Answer(o, t)' = Answer(o, t)
      BY <1>1, AnswerPrime
    <3>3. \A o, t : RateAfter(o, t)' = RateAfter(o, t)
      BY <1>1, RatePrime
    <3> QED
      BY <1>1, <2>2, <2>6, <2>10, <3>1, <3>2, <3>3, Zenon DEF SyncReading, ReadingAnswer
  <2>12. SyncIdle' /\ ~garbled'
    BY <1>1, <1>5, <2>2 DEF SyncIdle, SyncInv
  <2> QED
    BY <1>2, <1>3, <2>7, <2>11, <2>12 DEF SyncInv
<1> QED
  BY <1>4, <1>5

\* One read() of read_hci_event: it goes on reading the same answer.
LEMMA SyncRead ==
    ASSUME TypeOK, SyncInv, ReadEvent
    PROVE  SyncInv'
<1>1. /\ pc \in Commands /\ io = "read" /\ ReadStep(RespSize(pc))
      /\ UNCHANGED <<pc, io, wire, hostBaud, ctrlBaud, ctrlPresent, ctrlName, speed, fw,
                     fwLeft, garbled>>
  BY DEF ReadEvent, ctrlVars, config
<1>2. ~garbled' /\ SyncWire' /\ SyncPc'
  BY <1>1 DEF SyncInv, SyncWire, SyncPc
<1>3. SyncQuiet'
  BY <1>1, Zenon DEF SyncQuiet, Reading
<1>4. ctrlPresent
  BY <1>1 DEF SyncInv, SyncIdle, ReadStep
<1>5. SyncIdle'
  BY <1>1, <1>4 DEF SyncIdle
<1>6. PICK st \in Statuses(OpOf(pc)) :
          ReadingAnswer(Answer(OpOf(pc), st)) /\ ctrlBaud = RateAfter(OpOf(pc), st)
  BY <1>1, <1>4, Zenon DEF SyncInv, SyncReading, Reading
<1> DEFINE op == OpOf(pc)
           A == Answer(op, st)
           size == RespSize(pc)
           W == Bytes(wire)
<1>7. op \in Int \X Int /\ st \in Int /\ ctrlName \in Seq(Int)
  BY <1>1, OpOfType, HciAssumption DEF Statuses, CMD_SUCCESS, TypeOK
<1>8. /\ A \in Seq(Int) /\ Len(A) >= 3 /\ A[1] = HCI_EVENT_PKT /\ A[3] \in Nat
  <2>1. /\ A \in Seq(Int)
        /\ Len(A) = IF op = ReadLocalName THEN 7 + NameField ELSE 7
        /\ A[1] = HCI_EVENT_PKT
        /\ A[3] = Len(A) - 3
    BY <1>7, AnswerShape, Zenon
  <2> QED
    BY <2>1, HciAssumption
<1>9. size \in Nat /\ size \in Int /\ size >= 3
  BY DEF RespSize, NameBufSize, CC_MIN_SIZE
<1>10. /\ resp \in Seq(Int) /\ rx \in Seq(Int) /\ W \in Seq(Int)
       /\ resp' \in Seq(Int) /\ rx' \in Seq(Int)
  <2>1. resp \in Seq(Int) /\ rx \in Seq(Int) /\ wire \in Seq(WireByte)
    BY DEF TypeOK
  <2>2. W \in Seq(Int)
    BY <2>1, BytesProps, Zenon
  <2>3. resp' \in Seq(Int) /\ rx' \in Seq(Int)
    BY <1>1, <1>9, <2>1, ReadStepType, Zenon
  <2> QED
    BY <2>1, <2>2, <2>3
<1>11. ReadingFrom(resp, rx \o W, A, size)
  BY <1>6, Zenon DEF ReadingAnswer, Stream
<1>12. ReadingFrom(resp', rx' \o W, A, size)
  <2>1. \A r, s, r2, s2 \in Seq(Int) :
           resp = r /\ rx = s /\ resp' = r2 /\ rx' = s2 /\ ReadStep(size)
           /\ ReadingFrom(r, s \o W, A, size) => ReadingFrom(r2, s2 \o W, A, size)
    BY <1>8, <1>9, <1>10, ReadKeepsAnswer, Zenon
  <2> QED
    BY <1>1, <1>10, <1>11, <2>1, Zenon
<1>13. SyncReading'
  <3>1. OpOf(pc)' = op
    BY <1>1, OpOfPrime
  <3>2. \A o, t : Answer(o, t)' = Answer(o, t)
    BY <1>1, AnswerPrime
  <3>3. \A o, t : RateAfter(o, t)' = RateAfter(o, t)
    BY <1>1, RatePrime
  <3>4. Stream' = rx' \o W
    BY <1>1 DEF Stream
  <3> QED
    BY <1>1, <1>6, <1>12, <3>1, <3>2, <3>3, <3>4, Zenon DEF SyncReading, ReadingAnswer
<1> QED
  BY <1>2, <1>3, <1>5, <1>13 DEF SyncInv

\* read_hci_event returned with an event, so a controller answered.
LEMMA AnsweredPresent ==
    ASSUME TypeOK, SyncInv, Answered
    PROVE  ctrlPresent
BY DEF Answered, EventRead, SyncInv, SyncIdle

\* Only Set UART Speed and Launch RAM change the controller's rate.
LEMMA RateKeep ==
    ASSUME NEW op, NEW st, op \notin {SetUartSpeed, LaunchRam}
    PROVE  RateAfter(op, st) = hostBaud
BY DEF RateAfter

\* What every command function's return leaves of the invariant: it goes
\* back to writing, with the line, the controller and the flag untouched.
LEMMA DoneFrame ==
    ASSUME TypeOK, SyncInv, Answered, io' = "write",
           UNCHANGED <<wire, ctrlBaud, ctrlPresent, garbled>>,
           hostBaud' = hostBaud \/ wire = <<>>
    PROVE  ctrlPresent /\ ~garbled' /\ SyncWire' /\ SyncIdle' /\ SyncReading'
<1>1. ctrlPresent
  BY AnsweredPresent
<1>2. SyncWire'
  <2>1. CASE hostBaud' = hostBaud
    BY <2>1 DEF SyncInv, SyncWire
  <2>2. CASE wire = <<>>
    BY <2>2 DEF SyncWire
  <2> QED
    BY <2>1, <2>2
<1>3. SyncReading'
  BY NotReadingAfter
<1> QED
  BY <1>1, <1>2, <1>3 DEF SyncInv, SyncIdle

\* The opcodes of the commands are distinct.
LEMMA OpcodesDistinct ==
    /\ Reset \notin {SetUartSpeed, LaunchRam, ReadLocalName}
    /\ ReadLocalName \notin {SetUartSpeed, LaunchRam}
    /\ SetClock \notin {SetUartSpeed, LaunchRam, ReadLocalName}
    /\ SetBdaddr \notin {SetUartSpeed, LaunchRam, ReadLocalName}
    /\ DownloadMinidriver \notin {SetUartSpeed, LaunchRam, ReadLocalName}
    /\ SetUartSpeed \notin {LaunchRam, ReadLocalName}
    /\ LaunchRam # ReadLocalName
BY DEF Reset, ReadLocalName, SetClock, SetBdaddr, DownloadMinidriver, SetUartSpeed,
       LaunchRam

\* bcm43xx_reset returns: the controller kept its rate.
LEMMA SyncResetDone ==
    ASSUME TypeOK, SyncInv, NamesAreText, ResetDone
    PROVE  SyncInv'
<1>1. /\ Answered /\ pc \in {"reset1", "reset2"} /\ io' = "write"
      /\ UNCHANGED <<rx, wire, hostBaud, ctrlBaud, ctrlPresent, fwLeft, fw, garbled>>
  BY DEF ResetDone, ctrlVars, config
<1>2. ctrlPresent /\ ~garbled' /\ SyncWire' /\ SyncIdle' /\ SyncReading'
  BY <1>1, DoneFrame
<1>3. pc' \in {"name", "failed", "bdaddr", "clock2", "speed2"}
  BY <1>1 DEF ResetDone, Return, AfterReset2, SetSpeedEntry
<1>4. SyncPc'
  BY <1>1, <1>3 DEF SyncPc
<1>5. PICK st \in Statuses(OpOf(pc)) :
          ctrlBaud = RateAfter(OpOf(pc), st) /\ NoEventByte(Stream)
  BY <1>1, <1>2, AnsweredFacts, Zenon
<1>6. ctrlBaud = hostBaud
  BY <1>1, <1>5, OpOfCases, OpcodesDistinct, RateKeep
<1>7. SyncQuiet'
  BY <1>1, <1>3, <1>5, <1>6 DEF SyncQuiet, Stream
<1> QED
  BY <1>2, <1>4, <1>7 DEF SyncInv

\* bcm43xx_read_local_name returns: the name's padding holds no 0x04.
LEMMA SyncNameDone ==
    ASSUME TypeOK, SyncInv, NamesAreText, ReadLocalNameDone
    PROVE  SyncInv'
<1>0. pc' \in {"locate", "failed"}
  BY Zenon DEF ReadLocalNameDone
<1>1. /\ Answered /\ pc = "name" /\ io' = "write" /\ pc' \in {"locate", "failed"}
      /\ UNCHANGED <<rx, wire, hostBaud, ctrlBaud, ctrlPresent, fwLeft, fw, garbled>>
  BY <1>0 DEF ReadLocalNameDone, ctrlVars, config
<1>2. ctrlPresent /\ ~garbled' /\ SyncWire' /\ SyncIdle' /\ SyncReading'
  BY <1>1, DoneFrame
<1>3. SyncPc'
  BY <1>1 DEF SyncPc
<1>4. PICK st \in Statuses(OpOf(pc)) :
          ctrlBaud = RateAfter(OpOf(pc), st) /\ NoEventByte(Stream)
  BY <1>1, <1>2, AnsweredFacts, Zenon
<1>5. ctrlBaud = hostBaud
  BY <1>1, <1>4, OpOfCases, OpcodesDistinct, RateKeep
<1>6. SyncQuiet'
  BY <1>1, <1>4, <1>5 DEF SyncQuiet, Stream
<1> QED
  BY <1>2, <1>3, <1>6 DEF SyncInv

\* bcm43xx_set_clock returns: the controller kept its rate.
LEMMA SyncClockDone ==
    ASSUME TypeOK, SyncInv, NamesAreText, SetClockDone
    PROVE  SyncInv'
<1>1. /\ Answered /\ pc \in {"clock1", "clock2"} /\ io' = "write"
      /\ pc' \in {"speed1", "speed2", "failed"}
      /\ UNCHANGED <<rx, wire, hostBaud, ctrlBaud, ctrlPresent, fwLeft, fw, garbled>>
  BY DEF SetClockDone, Return, ctrlVars, config
<1>2. ctrlPresent /\ ~garbled' /\ SyncWire' /\ SyncIdle' /\ SyncReading'
  BY <1>1, DoneFrame
<1>3. SyncPc'
  BY <1>1 DEF SyncPc
<1>4. PICK st \in Statuses(OpOf(pc)) :
          ctrlBaud = RateAfter(OpOf(pc), st) /\ NoEventByte(Stream)
  BY <1>1, <1>2, AnsweredFacts, Zenon
<1>5. ctrlBaud = hostBaud
  BY <1>1, <1>4, OpOfCases, OpcodesDistinct, RateKeep
<1>6. SyncQuiet'
  BY <1>1, <1>4, <1>5 DEF SyncQuiet, Stream
<1> QED
  BY <1>2, <1>3, <1>6 DEF SyncInv

\* bcm43xx_set_bdaddr returns (its result ignored): the rate is kept.
LEMMA SyncBdaddrDone ==
    ASSUME TypeOK, SyncInv, NamesAreText, SetBdaddrDone
    PROVE  SyncInv'
<1>1. /\ Answered /\ pc = "bdaddr" /\ io' = "write"
      /\ pc' \in {"clock2", "speed2"}
      /\ UNCHANGED <<rx, wire, hostBaud, ctrlBaud, ctrlPresent, fwLeft, fw, garbled>>
  BY DEF SetBdaddrDone, SetSpeedEntry, ctrlVars, config
<1>2. ctrlPresent /\ ~garbled' /\ SyncWire' /\ SyncIdle' /\ SyncReading'
  BY <1>1, DoneFrame
<1>3. SyncPc'
  BY <1>1 DEF SyncPc
<1>4. PICK st \in Statuses(OpOf(pc)) :
          ctrlBaud = RateAfter(OpOf(pc), st) /\ NoEventByte(Stream)
  BY <1>1, <1>2, AnsweredFacts, Zenon
<1>5. ctrlBaud = hostBaud
  BY <1>1, <1>4, OpOfCases, OpcodesDistinct, RateKeep
<1>6. SyncQuiet'
  BY <1>1, <1>4, <1>5 DEF SyncQuiet, Stream
<1> QED
  BY <1>2, <1>3, <1>6 DEF SyncInv

\* The stream is the tty's bytes followed by the line's.
LEMMA StreamParts ==
    ASSUME TypeOK
    PROVE  /\ rx \in Seq(Int) /\ Bytes(wire) \in Seq(Int)
           /\ NoEventByte(Stream) => NoEventByte(Bytes(wire))
           /\ Stream = <<>> => rx = <<>> /\ wire = <<>>
<1>1. rx \in Seq(Int) /\ wire \in Seq(WireByte)
  BY DEF TypeOK
<1>2. Bytes(wire) \in Seq(Int) /\ (Bytes(wire) = <<>> <=> wire = <<>>)
  BY <1>1, BytesProps, Zenon
<1>3. NoEventByte(Stream) => NoEventByte(Bytes(wire))
  BY <1>1, <1>2, NoEventConcat, Zenon DEF Stream
<1>4. Stream = <<>> => rx = <<>> /\ Bytes(wire) = <<>>
  BY <1>1, <1>2 DEF Stream
<1> QED
  BY <1>1, <1>2, <1>3, <1>4

\* bcm43xx_set_speed returns: on success both ends now use u->speed.
LEMMA SyncSpeedDone ==
    ASSUME TypeOK, SyncInv, NamesAreText, SetSpeedDone
    PROVE  SyncInv'
<1>1. /\ Answered /\ pc \in {"speed1", "speed2"} /\ io' = "write"
      /\ UNCHANGED <<rx, wire, ctrlBaud, ctrlPresent, fwLeft, fw, garbled, speed>>
      /\ CommandComplete(SetUartSpeed) =>
            pc' \in {"fwOpen", "attach"} /\ hostBaud' = speed
      /\ ~CommandComplete(SetUartSpeed) => pc' = "failed"
  BY DEF SetSpeedDone, Return, ctrlVars, config
<1>2. ctrlPresent
  BY <1>1, AnsweredPresent
<1>3. PICK st \in Statuses(SetUartSpeed) :
          /\ ctrlBaud = RateAfter(SetUartSpeed, st)
          /\ CommandComplete(SetUartSpeed) <=> st = CMD_SUCCESS
          /\ Stream = <<>>
  <2>1. OpOf(pc) = SetUartSpeed
    BY <1>1, OpOfCases
  <2> QED
    BY <1>1, <1>2, <2>1, OpcodesDistinct, AnsweredFacts, Zenon
<1>4. rx = <<>> /\ wire = <<>>
  BY <1>3, StreamParts
<1>5. ~garbled' /\ SyncWire' /\ SyncIdle' /\ SyncReading'
  BY <1>1, <1>4, DoneFrame
<1>6. CASE CommandComplete(SetUartSpeed)
  <2>1. ctrlBaud = speed /\ hostBaud' = speed /\ pc' \in {"fwOpen", "attach"}
    BY <1>1, <1>3, <1>6 DEF RateAfter
  <2>2. SyncPc'
    BY <1>1, <2>1 DEF SyncPc
  <2>3. SyncQuiet'
    BY <1>1, <1>4, <2>1, BytesEmpty DEF SyncQuiet, Stream, NoEventByte
  <2> QED
    BY <1>5, <2>2, <2>3 DEF SyncInv
<1>7. CASE ~CommandComplete(SetUartSpeed)
  BY <1>1, <1>5, <1>7 DEF SyncInv, SyncPc, SyncQuiet, Active, Commands
<1> QED
  BY <1>6, <1>7

\* The download-mode command is confirmed; the records follow.
LEMMA SyncDownloadDone ==
    ASSUME TypeOK, SyncInv, NamesAreText, DownloadModeDone
    PROVE  SyncInv'
<1>1. /\ Answered /\ pc = "fwMode" /\ io' = "write" /\ rx' \in {<<>>, rx}
      /\ pc' \in {"fwReady", "fwRec", "failed"}
      /\ pc' = "fwReady" => fwLeft = <<>>
      /\ UNCHANGED <<wire, hostBaud, ctrlBaud, ctrlPresent, fwLeft, fw, garbled>>
  BY DEF DownloadModeDone, Return, ctrlVars, config
<1>2. fwLeft # <<>>
  <2>1. PICK j \in 1..Len(fw) : fwLeft = SubSeq(fw, j, Len(fw))
    BY <1>1 DEF SyncInv, SyncPc
  <2>2. fw \in Seq(Int \X Int)
    BY HciAssumption DEF TypeOK
  <2>3. Len(fwLeft) >= 1
    BY <2>1, <2>2
  <2> QED
    BY <2>3
<1>3. ctrlPresent
  BY <1>1, AnsweredPresent
<1>4. PICK st \in Statuses(DownloadMinidriver) :
          ctrlBaud = RateAfter(DownloadMinidriver, st) /\ Stream = <<>>
  <2>1. OpOf(pc) = DownloadMinidriver
    BY <1>1, OpOfCases
  <2> QED
    BY <1>1, <1>3, <2>1, OpcodesDistinct, AnsweredFacts, Zenon
<1>5. rx = <<>> /\ wire = <<>> /\ ctrlBaud = hostBaud
  BY <1>4, StreamParts, OpcodesDistinct, RateKeep
<1>6. ~garbled' /\ SyncWire' /\ SyncIdle' /\ SyncReading'
  BY <1>1, DoneFrame
<1>7. SyncPc'
  BY <1>1, <1>2 DEF SyncInv, SyncPc
<1>8. SyncQuiet'
  BY <1>1, <1>5, BytesEmpty DEF SyncQuiet, Stream, NoEventByte
<1> QED
  BY <1>6, <1>7, <1>8 DEF SyncInv

\* One record's answer is read and the tty flushed.  The last record is
\* Launch RAM, which the controller accepts, leaving it at its default rate;
\* no earlier record changes the rate.
LEMMA SyncRecordDone ==
    ASSUME TypeOK, SyncInv, NamesAreText, FirmwareShape, LaunchAccepted, FirmwareRecordDone
    PROVE  SyncInv'
<1>1. /\ Answered /\ pc = "fwRec" /\ io' = "write" /\ rx' = <<>>
      /\ fwLeft' = Tail(fwLeft)
      /\ pc' = IF Tail(fwLeft) = <<>> THEN "fwReady" ELSE "fwRec"
      /\ UNCHANGED <<wire, hostBaud, ctrlBaud, ctrlPresent, fw, garbled>>
  BY DEF FirmwareRecordDone, ctrlVars, config
<1>2. PICK j \in 1..Len(fw) : fwLeft = SubSeq(fw, j, Len(fw))
  BY <1>1 DEF SyncInv, SyncPc
<1>3. /\ fw \in Seq(Int \X Int) /\ Len(fw) >= 1 /\ fw[Len(fw)] = LaunchRam
      /\ \A i \in 1..(Len(fw) - 1) : fw[i] \notin {LaunchRam, SetUartSpeed}
  BY HciAssumption DEF TypeOK, FirmwareShape
<1>4. Head(fwLeft) = fw[j] /\ Tail(fwLeft) = SubSeq(fw, j + 1, Len(fw))
  BY <1>2, <1>3, HeadTailOfSubSeq
<1>5. ctrlPresent
  BY <1>1, AnsweredPresent
<1>6. PICK st \in Statuses(fw[j]) :
          /\ ctrlBaud = RateAfter(fw[j], st)
          /\ NoEventByte(Stream)
          /\ fw[j] # ReadLocalName => Stream = <<>>
  <2>1. OpOf(pc) = fw[j]
    BY <1>1, <1>4, OpOfCases
  <2> QED
    BY <1>1, <1>5, <2>1, AnsweredFacts, Zenon
<1>7. ~garbled' /\ SyncWire' /\ SyncIdle' /\ SyncReading'
  BY <1>1, DoneFrame
<1>8. CASE j = Len(fw)
  <2>1. Tail(fwLeft) = <<>> /\ pc' = "fwReady"
    BY <1>1, <1>3, <1>4, <1>8
  <2>2. fw[j] = LaunchRam /\ st = CMD_SUCCESS
    BY <1>3, <1>8 DEF Statuses, LaunchAccepted
  <2>3. ctrlBaud = DefSpeed
    BY <1>6, <2>2 DEF RateAfter, LaunchRam, SetUartSpeed
  <2>4. wire = <<>>
    BY <1>6, <2>2, OpcodesDistinct, StreamParts
  <2>5. SyncPc'
    BY <1>1, <2>1, <2>3, <2>4 DEF SyncPc
  <2>6. SyncQuiet'
    BY <1>1, <2>1, <2>4, BytesEmpty DEF SyncQuiet, Stream, NoEventByte
  <2> QED
    BY <1>7, <2>5, <2>6 DEF SyncInv
<1>9. CASE j < Len(fw)
  <2>0. Len(SubSeq(fw, j + 1, Len(fw))) = Len(fw) - j
    BY <1>3, <1>9
  <2>1. Tail(fwLeft) # <<>> /\ pc' = "fwRec"
    <3>0. Len(Tail(fwLeft)) = Len(fw) - j
      BY <1>4, <2>0, Zenon
    <3>1. Len(Tail(fwLeft)) >= 1
      BY <1>3, <1>9, <3>0
    <3>2. Tail(fwLeft) # <<>>
      BY <3>1
    <3> QED
      BY <1>1, <3>2
  <2>2. ctrlBaud = hostBaud
    <3>1. fw[j] \notin {SetUartSpeed, LaunchRam}
      BY <1>3, <1>9
    <3> QED
      BY <1>6, <3>1, RateKeep
  <2>3. SyncPc'
    <3>1. j + 1 \in 1..Len(fw')
      BY <1>1, <1>9
    <3>2. fwLeft' = SubSeq(fw', j + 1, Len(fw'))
      BY <1>1, <1>4
    <3> QED
      BY <2>1, <3>1, <3>2, Zenon DEF SyncPc
  <2>4. NoEventByte(Stream')
    <3>1. NoEventByte(Bytes(wire)) /\ Bytes(wire) \in Seq(Int)
      BY <1>6, StreamParts
    <3> QED
      BY <1>1, <3>1 DEF Stream
  <2>5. SyncQuiet'
    BY <1>1, <2>1, <2>2, <2>4 DEF SyncQuiet
  <2> QED
    BY <1>7, <2>3, <2>5 DEF SyncInv
<1> QED
  BY <1>3, <1>8, <1>9

\* A step that changes no variable keeps the invariant.
LEMMA SyncStutter ==
    ASSUME SyncInv, UNCHANGED vars
    PROVE  SyncInv'
<1>1. UNCHANGED <<pc, io, resp, rx, wire, hostBaud, ctrlBaud, ctrlPresent, ctrlName,
                  speed, fw, fwLeft, garbled>>
  BY DEF vars
<1>2. OpOf(pc)' = OpOf(pc)
  BY <1>1, OpOfPrime
<1>3. \A op, st : Answer(op, st)' = Answer(op, st)
  BY <1>1, AnswerPrime
<1>4. \A op, st : RateAfter(op, st)' = RateAfter(op, st)
  BY <1>1, RatePrime
<1> QED
  BY <1>1, <1>2, <1>3, <1>4 DEF SyncInv, SyncWire, SyncIdle, SyncPc, SyncReading,
                                 SyncQuiet, Reading, ReadingAnswer, Stream, Active

\* Every step of hciattach, the line and the alarm keeps the invariant.
LEMMA SyncNext ==
    ASSUME TypeOK, SyncInv, FirmwareShape, LaunchAccepted, NamesAreText, [Next]_vars
    PROVE  SyncInv'
<1>1. CASE OpenUart
  BY <1>1, SyncOpenUart
<1>2. CASE WriteCommand
  BY <1>2, SyncWrite
<1>3. CASE ReadEvent
  BY <1>3, SyncRead
<1>4. CASE ResetDone
  BY <1>4, SyncResetDone
<1>5. CASE ReadLocalNameDone
  BY <1>5, SyncNameDone
<1>6. CASE LocatePatchStep
  BY <1>6, SyncLocate
<1>7. CASE SetClockDone
  BY <1>7, SyncClockDone
<1>8. CASE SetSpeedDone
  BY <1>8, SyncSpeedDone
<1>9. CASE OpenFirmware
  BY <1>9, SyncOpenFirmware
<1>10. CASE DownloadModeDone
  BY <1>10, SyncDownloadDone
<1>11. CASE FirmwareRecordDone
  BY <1>11, SyncRecordDone
<1>12. CASE FirmwareReady
  BY <1>12, SyncFirmwareReady
<1>13. CASE SetBdaddrDone
  BY <1>13, SyncBdaddrDone
<1>14. CASE Attach
  BY <1>14, SyncAttach
<1>15. CASE Alarm
  BY <1>15, SyncAlarm
<1>16. CASE Arrive
  BY <1>16, SyncArrive
<1>17. CASE UNCHANGED vars
  BY <1>17, SyncStutter
<1> QED
  BY <1>1, <1>2, <1>3, <1>4, <1>5, <1>6, <1>7, <1>8, <1>9, <1>10, <1>11, <1>12,
     <1>13, <1>14, <1>15, <1>16, <1>17 DEF Next, HostStep

\* Under the three hypotheses, TypeOK and SyncInv hold in every state.
LEMMA SyncAlways ==
    ASSUME FirmwareShape, LaunchAccepted, NamesAreText
    PROVE  Spec => [](TypeOK /\ SyncInv)
<1>1. Init => TypeOK /\ SyncInv
  BY TypeInit, SyncInit
<1>2. TypeOK /\ SyncInv /\ [Next]_vars => (TypeOK /\ SyncInv)'
  BY TypeNext, SyncNext
<1> QED
  BY <1>1, <1>2, PTL DEF Spec

(***************************************************************************)
(* hciattach and the controller never talk past each other: no command    *)
(* byte and no answer byte ever crosses the UART at a rate its receiver   *)
(* does not use, through bcm43xx_set_speed's two rate changes, the patch  *)
(* download's Launch RAM and the set_speed(def_speed) after it, and       *)
(* init_uart's final set_speed.  This holds for every rate, name, patch   *)
(* and set of rejectable commands, provided the patch ends with Launch    *)
(* RAM and holds no other Launch RAM or Set UART Speed record, the        *)
(* controller accepts Launch RAM, and the controller's name holds no 0x04 *)
(* byte.                                                                   *)
(***************************************************************************)
THEOREM LinkInSyncInvariant ==
    ASSUME FirmwareShape, LaunchAccepted, NamesAreText
    PROVE  Spec => []LinkInSync
<1>1. TypeOK /\ SyncInv => LinkInSync
  BY DEF SyncInv, LinkInSync
<1> QED
  BY <1>1, SyncAlways, PTL

\* The steps that set the tty's rate find the line empty and leave it so.
LEMMA QuietRateStep ==
    ASSUME TypeOK, SyncInv, NamesAreText, [Next]_vars
    PROVE  [hostBaud' # hostBaud => wire = <<>> /\ wire' = <<>>]_vars
<1>1. CASE OpenUart
  BY <1>1 DEF OpenUart, SyncInv, SyncPc
<1>2. CASE SetSpeedDone
  <2>1. Answered /\ pc \in {"speed1", "speed2"} /\ wire' = wire
    BY <1>2 DEF SetSpeedDone
  <2>2. ctrlPresent
    BY <2>1, AnsweredPresent
  <2>3. OpOf(pc) = SetUartSpeed
    BY <2>1, OpOfCases
  <2>4. Stream = <<>>
    BY <2>1, <2>2, <2>3, OpcodesDistinct, AnsweredFacts, Zenon
  <2>5. wire = <<>>
    BY <2>4, StreamParts
  <2> QED
    BY <2>1, <2>5
<1>3. CASE FirmwareReady
  BY <1>3 DEF FirmwareReady, SyncInv, SyncPc
<1>4. CASE Attach
  BY <1>4 DEF Attach, SyncInv, SyncPc
<1>5. CASE WriteCommand \/ ReadEvent \/ ResetDone \/ LocatePatchStep \/ SetClockDone
           \/ OpenFirmware \/ DownloadModeDone \/ FirmwareRecordDone \/ SetBdaddrDone
           \/ Alarm \/ Arrive \/ UNCHANGED vars
  BY <1>5 DEF WriteCommand, ReadEvent, ResetDone, LocatePatchStep, SetClockDone,
              OpenFirmware, DownloadModeDone, FirmwareRecordDone, SetBdaddrDone,
              Alarm, Arrive, vars
<1>6. CASE ReadLocalNameDone
  BY <1>6 DEF ReadLocalNameDone
<1> QED
  BY <1>1, <1>2, <1>3, <1>4, <1>5, <1>6 DEF Next, HostStep

(***************************************************************************)
(* The tty's rate changes only while no byte is in flight, before or      *)
(* after the step: bcm43xx_set_speed switches the host only once          *)
(* read_hci_event has consumed the whole Set UART Speed answer, and       *)
(* set_speed(def_speed) runs only once the Launch RAM answer is read.     *)
(* Same hypotheses as LinkInSyncInvariant.                                 *)
(***************************************************************************)
THEOREM RateChangesOnQuietLineHolds ==
    ASSUME FirmwareShape, LaunchAccepted, NamesAreText
    PROVE  Spec => RateChangesOnQuietLine
<1>1. TypeOK /\ SyncInv /\ [Next]_vars
        => [hostBaud' # hostBaud => wire = <<>> /\ wire' = <<>>]_vars
  BY QuietRateStep
<1> QED
  BY <1>1, SyncAlways, PTL DEF Spec, RateChangesOnQuietLine

=============================================================================
