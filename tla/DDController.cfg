SPECIFICATION FairSpec
CONSTANTS
    SECTORS_PER_BLOCK = 3
    Tracks = {"plain", "six", "protected", "invalid"}
    Sectors <- BlockStarts
    Guests = {TRUE}
    MaxQueued = 2
INVARIANTS NoStall LineSound SectorsInOrder ProtectedUntouched MotorTimed
PROPERTIES TransferEnds CommandEnds
