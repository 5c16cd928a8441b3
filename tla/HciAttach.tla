----------------------------- MODULE HciAttach -----------------------------
(***************************************************************************)
(* hciattach for the BCM43xx controller of the Raspberry Pi               *)
(* (src/hals/bluetooth/btuart/hciattach_rpi3.c): init_uart opens the tty, *)
(* bcm43xx_init drives the controller through HCI commands, and the line  *)
(* discipline is handed to the kernel.  The host is one sequential        *)
(* program, pc its position; the controller and the UART are its         *)
(* environment.                                                            *)
(*                                                                         *)
(* Each command function writes a command and calls read_hci_event, one  *)
(* read() per step, on the bytes the tty has received (rx).  The          *)
(* controller answers every command it can decode with an event, whose    *)
(* bytes travel over the wire at the controller's baud rate and arrive    *)
(* one at a time; a byte sent at a rate the host does not listen at       *)
(* arrives as noise, and a command written at a rate the controller does  *)
(* not listen at is lost.  The controller's behaviour is the one the code *)
(* relies on: it answers Command Complete, switches its rate after        *)
(* answering the vendor set-speed command, and falls back to its default  *)
(* rate when the patch RAM is launched ("Controller speed has been reset  *)
(* to def speed").                                                         *)
(***************************************************************************)
EXTENDS Integers, Sequences

CONSTANTS
    DefSpeed,   \* u->init_speed: the controller's rate after power-up and after a patch
    Speeds,     \* the values u->speed may take (uart[] or the command line)
    Names,      \* the local names the controller may report
    NameField,  \* name bytes in its Read Local Name event (248 in HCI)
    Dirs,       \* the listings FIRMWARE_DIR may have (NoDir: it cannot be opened)
    NoDir,
    Firmwares,  \* the record opcodes a .hcd file may hold, in file order
    Rejectable, \* the opcodes the controller may answer with a failure status
    Noise,      \* what the host reads of a byte sent at another rate
    Uninit,     \* what an uninitialised byte of malloc'd memory may hold
    ScanPatchDir(_, _) \* whether bcm43xx_locate_patch's scan of a listing finds the chip's patch

\* Rates are numbers, bytes and opcodes' bytes integers.
ASSUME HciAssumption ==
    /\ DefSpeed \in Nat
    /\ Speeds \subseteq Nat
    /\ NameField \in Nat
    /\ Names \subseteq Seq(Int)
    /\ Firmwares \subseteq Seq(Int \X Int)
    /\ Noise \subseteq Int

\* The opcodes (low, high byte) of the commands bcm43xx_init sends.
Reset == <<\h03, \h0C>>
ReadLocalName == <<\h14, \h0C>>
SetBdaddr == <<\h01, \hFC>>
SetClock == <<\h45, \hFC>>
SetUartSpeed == <<\h18, \hFC>>
DownloadMinidriver == <<\h2E, \hFC>>
LaunchRam == <<\h4E, \hFC>>

HCI_EVENT_PKT == \h04
EVT_CMD_COMPLETE == \h0E
CMD_SUCCESS == 0
CC_MIN_SIZE == 7
NameBufSize == 20            \* char chip_name[20]
UINT_MAX == 2^32 - 1

\* The value chipName holds before bcm43xx_read_local_name has filled it.
NotRead == <<-1>>

VARIABLES
    pc,          \* where the host program is
    io,          \* within a command function: "write" or "read"
    resp,        \* the bytes read_hci_event has stored in the response buffer
    rx,          \* bytes the tty has received and the host has not read
    wire,        \* bytes the controller has sent, with the rate they were sent at
    hostBaud,    \* the tty's rate
    ctrlBaud,    \* the controller's rate
    ctrlPresent, \* a controller is powered and attached to the UART
    ctrlName,    \* the controller's local name
    ctrlPatched, \* the controller runs the downloaded patch
    ctrlClock48, \* the controller's UART clock is 48 MHz
    ctrlBdaddr,  \* the controller holds the BD address it was given
    speed,       \* u->speed
    bdaddr,      \* u->bdaddr is set (the sixth argument was given)
    fwDir,       \* the listing of FIRMWARE_DIR
    fw,          \* the records of the patch file
    fwLeft,      \* the records bcm43xx_load_firmware has not yet sent
    chipName,    \* chip_name as bcm43xx_read_local_name left it
    patchFound,  \* bcm43xx_locate_patch found a patch
    garbled      \* some command or event byte went over the UART at a rate its receiver did not use

vars == <<pc, io, resp, rx, wire, hostBaud, ctrlBaud, ctrlPresent, ctrlName, ctrlPatched,
          ctrlClock48, ctrlBdaddr, speed, bdaddr, fwDir, fw, fwLeft, chipName,
          patchFound, garbled>>

ctrlVars == <<ctrlBaud, ctrlPatched, ctrlClock48, ctrlBdaddr>>
config == <<ctrlPresent, ctrlName, speed, bdaddr, fwDir, fw>>

Min(a, b) == IF a < b THEN a ELSE b
-----------------------------------------------------------------------------
(***************************************************************************)
(* read_hci_event(fd, buf, size): skip to a 0x04 one byte at a time, read *)
(* the event code and the parameter length, then min(length, size - 3)    *)
(* parameter bytes; every read() returns as soon as one byte is there (the *)
(* tty is raw, VMIN 1), at most as many as asked for.  resp holds         *)
(* buf[0 .. count - 1].                                                    *)
(***************************************************************************)
Remain(r, size) == IF r[3] < size - 3 THEN r[3] ELSE size - 3

EventRead(r, size) == Len(r) >= 3 /\ Len(r) - 3 >= Remain(r, size)

Wanted(r, size) ==
    IF Len(r) < 3 THEN 3 - Len(r) ELSE Remain(r, size) - (Len(r) - 3)

ReadStep(size) ==
    /\ rx # <<>>
    /\ ~EventRead(resp, size)
    /\ IF resp = <<>>
          THEN /\ resp' = IF Head(rx) = HCI_EVENT_PKT THEN <<HCI_EVENT_PKT>> ELSE <<>>
               /\ rx' = Tail(rx)
          ELSE LET k == Min(Wanted(resp, size), Len(rx))
               IN  /\ resp' = resp \o SubSeq(rx, 1, k)
                   /\ rx' = SubSeq(rx, k + 1, Len(rx))

\* The caller's check: at least CC_MIN_SIZE bytes, the opcode of its command
\* in buf[4], buf[5], and status CMD_SUCCESS in buf[6].
CommandComplete(op) ==
    /\ Len(resp) >= CC_MIN_SIZE
    /\ resp[5] = op[1] /\ resp[6] = op[2] /\ resp[7] = CMD_SUCCESS
-----------------------------------------------------------------------------
(***************************************************************************)
(* The controller answers the command op with status: Command Complete    *)
(* with four parameter bytes, or, for Read Local Name, with its name      *)
(* padded with NUL bytes to NameField.  A successful command takes        *)
(* effect once the answer is sent.                                         *)
(***************************************************************************)
Padded(name, n) == [j \in 1..n |-> IF j <= Len(name) THEN name[j] ELSE 0]

Answer(op, status) ==
    IF op = ReadLocalName
        THEN <<HCI_EVENT_PKT, EVT_CMD_COMPLETE, 4 + NameField, 1, op[1], op[2], status>>
             \o Padded(ctrlName, NameField)
        ELSE <<HCI_EVENT_PKT, EVT_CMD_COMPLETE, 4, 1, op[1], op[2], status>>

ControllerExecutes(op, status) ==
    LET ans == Answer(op, status)
        ok == status = CMD_SUCCESS
    IN  /\ wire' = wire \o [j \in 1..Len(ans) |-> [b |-> ans[j], baud |-> ctrlBaud]]
        /\ ctrlBaud' = IF ok /\ op = SetUartSpeed THEN speed
                       ELSE IF ok /\ op = LaunchRam THEN DefSpeed
                       ELSE ctrlBaud
        /\ ctrlPatched' = (ctrlPatched \/ (ok /\ op = LaunchRam))
        /\ ctrlClock48' = (ctrlClock48 \/ (ok /\ op = SetClock))
        /\ ctrlBdaddr' = (ctrlBdaddr \/ (ok /\ op = SetBdaddr))
-----------------------------------------------------------------------------
(***************************************************************************)
(* bcm43xx_read_local_name: buf is the malloc(size + CC_MIN_SIZE) buffer,  *)
(* its first bytes those read_hci_event(fd, resp, size) stored, the rest   *)
(* uninitialised.  name_len = resp[2] - 1 in unsigned arithmetic, then     *)
(* strncpy(name, &resp[7], MIN(name_len, size)) copies up to the first    *)
(* NUL and pads with NUL up to that count, leaving the rest of the stack  *)
(* array chip_name as it was (stack); name[size - 1] = 0.  chip_name is   *)
(* the string up to the first NUL.                                         *)
(***************************************************************************)
\* Plausible fault: the name is taken from resp[6], the status byte, on.
ChipNameOfAtStatus(buf, stack) ==
    LET n == Min(IF buf[3] = 0 THEN UINT_MAX ELSE buf[3] - 1, NameBufSize)
        src(j) == buf[7 + j]
        dst(j) == CASE j = NameBufSize - 1 -> 0
                    [] j < n -> IF \A i \in 0..(j - 1) : src(i) # 0 THEN src(j) ELSE 0
                    [] OTHER -> stack[j]
        l == CHOOSE l \in 0..(NameBufSize - 1) :
                 /\ \A i \in 0..(l - 1) : dst(i) # 0
                 /\ dst(l) = 0
    IN  [j \in 1..l |-> dst(j - 1)]

CopyCount(buf) ==
    Min(IF buf[3] = 0 THEN UINT_MAX ELSE buf[3] - 1, NameBufSize)

ChipNameOf(buf, stack) ==
    LET n == CopyCount(buf)
        src(j) == buf[8 + j]
        dst(j) == CASE j = NameBufSize - 1 -> 0
                    [] j < n -> IF \A i \in 0..(j - 1) : src(i) # 0 THEN src(j) ELSE 0
                    [] OTHER -> stack[j]
        l == CHOOSE l \in 0..(NameBufSize - 1) :
                 /\ \A i \in 0..(l - 1) : dst(i) # 0
                 /\ dst(l) = 0
    IN  [j \in 1..l |-> dst(j - 1)]

\* bcm43xx_locate_patch(dir_name, chip_name, location): opendir fails for
\* NoDir; otherwise ScanPatchDir searches the listing (HciAttachPatch).
LocatePatch(dir, chip) == IF dir = NoDir THEN FALSE ELSE ScanPatchDir(dir, chip)
-----------------------------------------------------------------------------
(***************************************************************************)
(* The host program.  A command function is at pc while it writes its     *)
(* command (io = "write") and while it reads the answer (io = "read").    *)
(* The labels ending in 1 are the patch path of bcm43xx_init, those in 2  *)
(* the common tail; "open" and "attach" are init_uart around it, and the  *)
(* program ends "attached" (main waits in ppoll), "failed" (exit(1)) or   *)
(* "timedOut" (sig_alarm's exit(1)).                                      *)
(***************************************************************************)
Commands == {"reset1", "name", "clock1", "speed1", "fwMode", "fwRec",
             "reset2", "bdaddr", "clock2", "speed2"}

OpOf(label) ==
    CASE label \in {"reset1", "reset2"} -> Reset
      [] label = "name" -> ReadLocalName
      [] label \in {"clock1", "clock2"} -> SetClock
      [] label \in {"speed1", "speed2"} -> SetUartSpeed
      [] label = "fwMode" -> DownloadMinidriver
      [] label = "bdaddr" -> SetBdaddr
      [] label = "fwRec" -> Head(fwLeft)

\* bcm43xx_reset and the firmware records are written without a tcflush.
FlushesFirst == Commands \ {"reset1", "reset2", "fwRec"}

RespSize(label) == IF label = "name" THEN NameBufSize ELSE CC_MIN_SIZE

\* bcm43xx_set_speed: bcm43xx_set_clock first when the rate is above 3 Mbit/s.
\* The labels of its two calls are clock1/speed1 and clock2/speed2.
SetSpeedEntry(clockLabel, speedLabel) ==
    IF speed > 3000000 THEN clockLabel ELSE speedLabel

hostVars == <<pc, io, resp, rx, hostBaud, fwLeft, chipName, patchFound>>
-----------------------------------------------------------------------------
\* Power-up: the controller listens at its default rate; the tty is not open.
Init ==
    /\ pc = "open" /\ io = "write"
    /\ resp = <<>> /\ rx = <<>> /\ wire = <<>>
    /\ hostBaud = 0
    /\ ctrlBaud = DefSpeed
    /\ ctrlPresent \in BOOLEAN
    /\ ctrlName \in Names
    /\ ctrlPatched = FALSE /\ ctrlClock48 = FALSE /\ ctrlBdaddr = FALSE
    /\ speed \in Speeds
    /\ bdaddr \in BOOLEAN
    /\ fwDir \in Dirs
    /\ fw \in Firmwares
    /\ fwLeft = <<>>
    /\ chipName = NotRead
    /\ patchFound = FALSE
    /\ garbled = FALSE

(***************************************************************************)
(* init_uart up to u->init: open the tty, tcflush, raw mode, set the      *)
(* initial rate, tcflush.  Any of these calls may fail (goto fail).       *)
(***************************************************************************)
OpenUart ==
    /\ pc = "open"
    /\ \E ok \in BOOLEAN :
          IF ok THEN /\ pc' = "reset1"
                     /\ hostBaud' = DefSpeed
                     /\ rx' = <<>>
                ELSE /\ pc' = "failed"
                     /\ UNCHANGED <<hostBaud, rx>>
    /\ UNCHANGED <<io, resp, wire, ctrlVars, config, fwLeft, chipName, patchFound, garbled>>

(***************************************************************************)
(* A command function's tcflush and write(fd, cmd, sizeof(cmd)).  Without *)
(* a controller nothing answers.  The controller decodes the command only *)
(* at its own rate, and answers with success, or with a failure if it     *)
(* may reject that command.                                                *)
(***************************************************************************)
\* Plausible fault: bcm43xx_set_speed calls set_speed right after write(),
\* before read_hci_event has taken the controller's answer.
WriteCommandEarlySwitch ==
    /\ pc \in Commands /\ io = "write"
    /\ rx' = IF pc \in FlushesFirst THEN <<>> ELSE rx
    /\ resp' = <<>>
    /\ io' = "read"
    /\ IF ~ctrlPresent THEN UNCHANGED <<wire, ctrlVars, garbled>>
       ELSE IF hostBaud = ctrlBaud
          THEN /\ \E status \in {CMD_SUCCESS} \cup (IF OpOf(pc) \in Rejectable THEN {1} ELSE {}) :
                     ControllerExecutes(OpOf(pc), status)
               /\ UNCHANGED garbled
          ELSE /\ garbled' = TRUE
               /\ UNCHANGED <<wire, ctrlVars>>
    /\ hostBaud' = IF pc \in {"speed1", "speed2"} THEN speed ELSE hostBaud
    /\ UNCHANGED <<pc, config, fwLeft, chipName, patchFound>>

WriteCommand ==
    /\ pc \in Commands /\ io = "write"
    /\ rx' = IF pc \in FlushesFirst THEN <<>> ELSE rx
    /\ resp' = <<>>
    /\ io' = "read"
    /\ IF ~ctrlPresent THEN UNCHANGED <<wire, ctrlVars, garbled>>
       ELSE IF hostBaud = ctrlBaud
          THEN /\ \E status \in {CMD_SUCCESS} \cup (IF OpOf(pc) \in Rejectable THEN {1} ELSE {}) :
                     ControllerExecutes(OpOf(pc), status)
               /\ UNCHANGED garbled
          ELSE /\ garbled' = TRUE
               /\ UNCHANGED <<wire, ctrlVars>>
    /\ UNCHANGED <<pc, hostBaud, config, fwLeft, chipName, patchFound>>

\* One read() of read_hci_event on behalf of the command at pc.
ReadEvent ==
    /\ pc \in Commands /\ io = "read"
    /\ ReadStep(RespSize(pc))
    /\ UNCHANGED <<pc, io, wire, hostBaud, ctrlVars, config, fwLeft, chipName,
                   patchFound, garbled>>

\* read_hci_event has returned for the command at pc.
Answered == pc \in Commands /\ io = "read" /\ EventRead(resp, RespSize(pc))

\* The function at pc returns: on to next, or to exit(1) when it failed.
Return(ok, next) == pc' = IF ok THEN next ELSE "failed"

AfterReset2 == IF bdaddr THEN "bdaddr" ELSE SetSpeedEntry("clock2", "speed2")

\* bcm43xx_reset, in bcm43xx_init's first step and after the patch.
ResetDone ==
    /\ Answered /\ pc \in {"reset1", "reset2"}
    /\ Return(CommandComplete(Reset), IF pc = "reset1" THEN "name" ELSE AfterReset2)
    /\ io' = "write"
    /\ UNCHANGED <<resp, rx, wire, hostBaud, ctrlVars, config, fwLeft, chipName,
                   patchFound, garbled>>

\* bcm43xx_read_local_name's check and copy of the name.
ReadLocalNameDone ==
    /\ Answered /\ pc = "name"
    /\ IF CommandComplete(ReadLocalName)
          THEN \E heap \in [(Len(resp) + 1)..(NameBufSize + CC_MIN_SIZE) -> Uninit],
                  stack \in [CopyCount(resp)..(NameBufSize - 2) -> Uninit] :
                  LET buf == [i \in 1..(NameBufSize + CC_MIN_SIZE) |->
                                 IF i <= Len(resp) THEN resp[i] ELSE heap[i]]
                  IN  /\ chipName' = ChipNameOf(buf, stack)
                      /\ pc' = "locate"
          ELSE /\ pc' = "failed"
               /\ UNCHANGED chipName
    /\ io' = "write"
    /\ UNCHANGED <<resp, rx, wire, hostBaud, ctrlVars, config, fwLeft, patchFound, garbled>>

\* bcm43xx_locate_patch(FIRMWARE_DIR, chip_name, fw_path) and the branch on it.
LocatePatchStep ==
    /\ pc = "locate"
    /\ patchFound' = LocatePatch(fwDir, chipName)
    /\ pc' = IF patchFound' THEN SetSpeedEntry("clock1", "speed1")
             ELSE IF bdaddr THEN "bdaddr" ELSE SetSpeedEntry("clock2", "speed2")
    /\ UNCHANGED <<io, resp, rx, wire, hostBaud, ctrlVars, config, fwLeft, chipName, garbled>>

\* bcm43xx_set_clock(fd, BCM43XX_CLOCK_48), called by bcm43xx_set_speed.
SetClockDone ==
    /\ Answered /\ pc \in {"clock1", "clock2"}
    /\ Return(CommandComplete(SetClock), IF pc = "clock1" THEN "speed1" ELSE "speed2")
    /\ io' = "write"
    /\ UNCHANGED <<resp, rx, wire, hostBaud, ctrlVars, config, fwLeft, chipName,
                   patchFound, garbled>>

\* bcm43xx_set_speed: once the controller has confirmed the new rate, the
\* tty is switched to it (set_speed).
SetSpeedDone ==
    /\ Answered /\ pc \in {"speed1", "speed2"}
    /\ Return(CommandComplete(SetUartSpeed), IF pc = "speed1" THEN "fwOpen" ELSE "attach")
    /\ hostBaud' = IF CommandComplete(SetUartSpeed) THEN speed ELSE hostBaud
    /\ io' = "write"
    /\ UNCHANGED <<resp, rx, wire, ctrlVars, config, fwLeft, chipName, patchFound, garbled>>

\* bcm43xx_load_firmware opens the patch file (it may fail to).
OpenFirmware ==
    /\ pc = "fwOpen"
    /\ \E ok \in BOOLEAN : Return(ok, "fwMode")
    /\ fwLeft' = fw
    /\ UNCHANGED <<io, resp, rx, wire, hostBaud, ctrlVars, config, chipName,
                   patchFound, garbled>>

\* The download-mode command is confirmed; nanosleep and tcflush, then the
\* records are sent until read() of the file returns 0.
DownloadModeDone ==
    /\ Answered /\ pc = "fwMode"
    /\ Return(CommandComplete(DownloadMinidriver), IF fwLeft = <<>> THEN "fwReady" ELSE "fwRec")
    /\ rx' = IF CommandComplete(DownloadMinidriver) THEN <<>> ELSE rx
    /\ io' = "write"
    /\ UNCHANGED <<resp, wire, hostBaud, ctrlVars, config, fwLeft, chipName,
                   patchFound, garbled>>

\* One record's answer: read_hci_event's result is not looked at; tcflush.
FirmwareRecordDone ==
    /\ Answered /\ pc = "fwRec"
    /\ fwLeft' = Tail(fwLeft)
    /\ pc' = IF Tail(fwLeft) = <<>> THEN "fwReady" ELSE "fwRec"
    /\ rx' = <<>>
    /\ io' = "write"
    /\ UNCHANGED <<resp, wire, hostBaud, ctrlVars, config, chipName, patchFound, garbled>>

\* bcm43xx_load_firmware returns 0; usleep, then set_speed(def_speed) since
\* the controller is back at its default rate.
\* Plausible fault: the tty is left at u->speed after the patch.
FirmwareReadyKeepRate ==
    /\ pc = "fwReady"
    /\ pc' = "reset2"
    /\ UNCHANGED <<io, resp, rx, wire, hostBaud, ctrlVars, config, fwLeft, chipName,
                   patchFound, garbled>>

FirmwareReady ==
    /\ pc = "fwReady"
    /\ pc' = "reset2"
    /\ hostBaud' = DefSpeed
    /\ UNCHANGED <<io, resp, rx, wire, ctrlVars, config, fwLeft, chipName,
                   patchFound, garbled>>

\* bcm43xx_set_bdaddr: its result is ignored by bcm43xx_init.
SetBdaddrDone ==
    /\ Answered /\ pc = "bdaddr"
    /\ pc' = SetSpeedEntry("clock2", "speed2")
    /\ io' = "write"
    /\ UNCHANGED <<resp, rx, wire, hostBaud, ctrlVars, config, fwLeft, chipName,
                   patchFound, garbled>>

(***************************************************************************)
(* init_uart after u->init: tcflush, set_speed(u->speed), then the line   *)
(* discipline, flags and protocol ioctls, any of which may fail.          *)
(***************************************************************************)
\* Plausible fault: init_uart sets u->init_speed instead of u->speed.
AttachInitRate ==
    /\ pc = "attach"
    /\ rx' = <<>>
    /\ hostBaud' = DefSpeed
    /\ \E ok \in BOOLEAN : Return(ok, "attached")
    /\ UNCHANGED <<io, resp, wire, ctrlVars, config, fwLeft, chipName, patchFound, garbled>>

Attach ==
    /\ pc = "attach"
    /\ rx' = <<>>
    /\ hostBaud' = speed
    /\ \E ok \in BOOLEAN : Return(ok, "attached")
    /\ UNCHANGED <<io, resp, wire, ctrlVars, config, fwLeft, chipName, patchFound, garbled>>

\* Plausible fault: hciattach run with -t 0, so main's alarm(to) arms no
\* timer and SIGALRM never comes.
AlarmNotArmed == FALSE

\* alarm(to) expires while read_hci_event waits for bytes that will never
\* come: sig_alarm exits.
Alarm ==
    /\ pc \in Commands /\ io = "read"
    /\ ~EventRead(resp, RespSize(pc))
    /\ rx = <<>> /\ wire = <<>>
    /\ pc' = "timedOut"
    /\ UNCHANGED <<io, resp, rx, wire, hostBaud, ctrlVars, config, fwLeft, chipName,
                   patchFound, garbled>>

\* The next byte on the wire reaches the tty, as noise if the rates differ.
Arrive ==
    /\ wire # <<>>
    /\ wire' = Tail(wire)
    /\ IF Head(wire).baud = hostBaud
          THEN rx' = Append(rx, Head(wire).b) /\ UNCHANGED garbled
          ELSE \E n \in Noise : rx' = Append(rx, n) /\ garbled' = TRUE
    /\ UNCHANGED <<pc, io, resp, hostBaud, ctrlVars, config, fwLeft, chipName, patchFound>>

\* A step of the hciattach process itself.
HostStep ==
    \/ OpenUart \/ WriteCommand \/ ReadEvent
    \/ ResetDone \/ ReadLocalNameDone \/ LocatePatchStep \/ SetClockDone
    \/ SetSpeedDone \/ OpenFirmware \/ DownloadModeDone \/ FirmwareRecordDone
    \/ FirmwareReady \/ SetBdaddrDone \/ Attach

Next == HostStep \/ Alarm \/ Arrive

Spec == Init /\ [][Next]_vars

(***************************************************************************)
(* Fairness: hciattach is a single process that is never blocked except  *)
(* in read(), so it keeps taking steps while one is enabled; the UART     *)
(* delivers every byte that is on the line; and once alarm(to) is armed   *)
(* (main, before init_uart) the kernel delivers SIGALRM to a process that *)
(* keeps waiting.                                                          *)
(***************************************************************************)
FairSpec == Spec /\ WF_vars(HostStep) /\ WF_vars(Arrive) /\ WF_vars(Alarm)
-----------------------------------------------------------------------------
(***************************************************************************)
(* Host and controller never talk past each other: every command is       *)
(* written at the rate the controller listens at and every byte of every  *)
(* answer is read at the rate it was sent at.  This is about the order of *)
(* the rate changes in bcm43xx_set_speed (controller first, host once the *)
(* answer is in) and about set_speed(def_speed) after the patch, which    *)
(* must follow the controller's fall-back to its default rate.            *)
(***************************************************************************)
LinkInSync == ~garbled

(***************************************************************************)
(* The tty's rate changes only while no byte is in flight, before or      *)
(* after the step: init_uart's set_speed calls, bcm43xx_set_speed's       *)
(* set_speed once read_hci_event has taken the whole answer, and the      *)
(* set_speed(def_speed) after the patch, once the Launch RAM answer is    *)
(* read, never switch the host under a byte the controller is sending.    *)
(***************************************************************************)
RateChangesOnQuietLine ==
    [][hostBaud' # hostBaud => wire = <<>> /\ wire' = <<>>]_vars

(***************************************************************************)
(* When hciattach hands the tty to the kernel ("Device setup complete"),  *)
(* host and controller both run at u->speed, and the controller runs the  *)
(* patch exactly when one was found for it.                               *)
(***************************************************************************)
AttachedConfigured ==
    pc = "attached" =>
        /\ hostBaud = speed
        /\ ctrlBaud = speed
        /\ ctrlPatched = patchFound
=============================================================================
