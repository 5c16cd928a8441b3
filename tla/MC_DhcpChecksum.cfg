\* The byte values include 0xFF so that carries are folded, and messages of
\* odd and even length up to 6 bytes.
CONSTANTS
    LittleEndian = TRUE
    ByteVals = {0, 1, 128, 255}
    MaxMessage = 6
    Headers <- MCHeaders
INIT ChecksumInit
NEXT ChecksumNext
INVARIANTS ChecksumsVerify RawUdpRoundTrip
\* Appending stops at MaxMessage: the longest messages end the run.
CHECK_DEADLOCK FALSE
