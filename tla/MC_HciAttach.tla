---------------------------- MODULE MC_HciAttach ----------------------------
(***************************************************************************)
(* hciattach on the two Raspberry Pi controllers: the BCM43430A1 of the   *)
(* Pi 3 B and the BCM4345C0 of the Pi 3 B+, with a firmware directory     *)
(* holding the first one's patch at its top, the second one's in a        *)
(* subdirectory, or no directory at all; u->speed the default 3 Mbit/s or *)
(* 4 Mbit/s from the command line (which needs the 48 MHz clock).         *)
(***************************************************************************)
EXTENDS HciAttach, HciAttachPatch

\* Vendor command Write RAM, which every record of a .hcd file but the last is.
WriteRam == <<\h4C, \hFC>>

\* "BCM43430A1" and "BCM4345C0".
BCM43430A1 == <<66, 67, 77, 52, 51, 52, 51, 48, 65, 49>>
BCM4345C0 == <<66, 67, 77, 52, 51, 52, 53, 67, 48>>

MCNames == {BCM43430A1, BCM4345C0}

File(name) == [name |-> name, isDir |-> FALSE, entries |-> <<>>]
Dir(name, entries) == [name |-> name, isDir |-> TRUE, entries |-> entries]

\* "brcm" names the subdirectory.
MCDirs ==
    { <<Dir(Dot, <<>>), Dir(DotDot, <<>>), File(BCM43430A1 \o FW_EXT)>>,
      <<Dir(Dot, <<>>), Dir(DotDot, <<>>),
        Dir(<<98, 114, 99, 109>>, <<Dir(Dot, <<>>), Dir(DotDot, <<>>),
                                    File(BCM4345C0 \o FW_EXT)>>)>>,
      NoDir }

MCFirmwares == {<<WriteRam, LaunchRam>>}

\* Every command bcm43xx_init checks may be rejected; the patch records,
\* whose answers bcm43xx_load_firmware ignores, are taken to be accepted.
MCRejectable == {Reset, ReadLocalName, SetBdaddr, SetClock, SetUartSpeed,
                 DownloadMinidriver}
-----------------------------------------------------------------------------
(***************************************************************************)
(* The chip name bcm43xx_read_local_name returns is the controller's      *)
(* local name (cut to the 19 characters chip_name holds): the parameter   *)
(* count read_hci_event truncates to, the offset of the name in the       *)
(* answer and the strncpy bound agree.                                     *)
(***************************************************************************)
ChipNameIsLocalName ==
    chipName # NotRead =>
        chipName = SubSeq(ctrlName, 1, Min(Len(ctrlName), NameBufSize - 1))

(***************************************************************************)
(* hciattach always ends its setup: every run of init_uart and            *)
(* bcm43xx_init reaches "Device setup complete", an error exit, or the    *)
(* timeout, whatever the controller does.  This is about read_hci_event's *)
(* blocking reads (each waits for bytes that may never come) and the      *)
(* SIGALRM timeout main arms before init_uart as their only way out.      *)
(***************************************************************************)
SetupEnds == <>(pc \in {"attached", "failed", "timedOut"})
=============================================================================
