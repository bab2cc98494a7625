CONSTANTS
    Guests = {g0, g1}
    ByteValues = 128
    Values <- MCValues
    Bytes = {65}
    RxFifo = 1
    TxFifo = 1
    Faults <- LinkFaults
CHECK_DEADLOCK FALSE
SPECIFICATION Spec
INVARIANTS LinkRegisterAccess
