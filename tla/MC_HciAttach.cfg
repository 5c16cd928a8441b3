\* The Read Local Name answer carries 16 name bytes here (248 on the chip):
\* more than read_hci_event keeps of it, so a tail is left on the wire.
CONSTANTS
    DefSpeed = 115200
    Speeds = {3000000, 4000000}
    Names <- MCNames
    NameField = 16
    Dirs <- MCDirs
    NoDir = NoDir
    Firmwares <- MCFirmwares
    Rejectable <- MCRejectable
    Noise = {0, 4}
    Uninit = {0, 65}
    ScanPatchDir <- ScanFirmwareDir
SPECIFICATION FairSpec
INVARIANTS
    LinkInSync
    ChipNameIsLocalName
    AttachedConfigured
PROPERTIES
    SetupEnds
    RateChangesOnQuietLine
\* hciattach ends: it exits on a failure or a timeout, and once attached it
\* only waits in ppoll for a signal.
CHECK_DEADLOCK FALSE
