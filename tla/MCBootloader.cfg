CONSTANTS
    Code <- MCCode
    crc32 <- MCCrc
    ARMBASE <- MCBase
    AddressSpan = 65536
    LoaderStarts = {32770, 40000}
    LoaderSize = 100
    Printed = {10, 102}
    Junk = 9
    Glitches = {"none", "open", "send"}
    MaxLosses = 2
    MaxRuns = 2
    MaxUnread = 2
CHECK_DEADLOCK FALSE
SPECIFICATION FairSpec
INVARIANTS TypeOK SuccessMeansInstalled GuardedIntact
PROPERTIES HangsOnlyIfFed InstallCompletes
