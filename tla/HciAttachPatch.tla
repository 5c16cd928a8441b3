--------------------------- MODULE HciAttachPatch ---------------------------
(***************************************************************************)
(* bcm43xx_locate_patch (src/hals/bluetooth/btuart/hciattach_rpi3.c): the *)
(* recursive scan of FIRMWARE_DIR for the chip's .hcd file.  It is kept   *)
(* apart from HciAttach, which takes the scan as the constant operator    *)
(* ScanPatchDir, so that the host program can be reasoned about for every *)
(* outcome of the search; the model-checking module instantiates that     *)
(* constant with ScanFirmwareDir.                                          *)
(***************************************************************************)
EXTENDS Naturals, Sequences

FW_EXT == <<46, 104, 99, 100>>   \* ".hcd"
Dot == <<46>>
DotDot == <<46, 46>>

(***************************************************************************)
(* Scan a directory in readdir order.  A subdirectory other than . and .. *)
(* is searched and ends the scan if it holds the patch.  A file whose     *)
(* name starts with chip_name ends the scan: found if the name ends in    *)
(* FW_EXT, not found otherwise (also when it is shorter than the          *)
(* extension).  An entry is [name, isDir, entries].                        *)
(***************************************************************************)
IsPrefix(p, s) == Len(p) <= Len(s) /\ SubSeq(s, 1, Len(p)) = p

HasFwExt(name) ==
    Len(name) >= Len(FW_EXT) /\ SubSeq(name, Len(name) - 3, Len(name)) = FW_EXT

RECURSIVE ScanDir(_, _, _)
ScanDir(entries, k, chip) ==
    IF k > Len(entries) THEN FALSE
    ELSE LET e == entries[k]
         IN  IF e.isDir
                THEN IF e.name \in {Dot, DotDot} THEN ScanDir(entries, k + 1, chip)
                     ELSE ScanDir(e.entries, 1, chip) \/ ScanDir(entries, k + 1, chip)
             ELSE IF IsPrefix(chip, e.name) THEN HasFwExt(e.name)
             ELSE ScanDir(entries, k + 1, chip)

\* The scan of an opened directory, from its first entry.
ScanFirmwareDir(entries, chip) == ScanDir(entries, 1, chip)
=============================================================================
