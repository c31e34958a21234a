SPECIFICATION Spec
CONSTANTS
    None = None
    MaxLength = 3
    Encodings <- AllEncodings
    Amounts <- UpToTwo
INVARIANTS TypeOK Faithful TellsWireBytes
PROPERTIES EndReleases DataIsStable
CHECK_DEADLOCK FALSE
