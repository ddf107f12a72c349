SPECIFICATION Spec
CONSTANTS
    Readers = {"ReadObjects", "Multicast", "ReadObjectEnums", "Server"}
    Sizes <- MCSizes
    JunkCount = 1
    Datagram = 64
INVARIANTS
    ReadAsWritten
    AtABlock
    NewerIsRead
CHECK_DEADLOCK FALSE
