SPECIFICATION Spec
CONSTANTS
    HexDigits = 2
    Char <- MCChar
    exit_string <- MCMarker
    Programs <- MCPrograms
    DeviceCounts = {1, 2}
    TxFifo = 2
    TtyBuffer = 2
    BufSize = 2
    StdoutSize = 2
    MAX_OPEN_ATTEMPTS = 2
    MaxKeys = 1
    MaxLost = 1
INVARIANTS ScreenFaithful ExitMeansDone NumbersReadBack
PROPERTIES DoneEndsConsole CableEndsConsole
CHECK_DEADLOCK FALSE
