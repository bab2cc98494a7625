SPECIFICATION FairSpec
CONSTANTS
    HV_MAX_VIRQS = 1
    HV_MAX_GUEST_VCPUS = 2
    TickWrap = 5
    MAX_DELTA = 2
    MaxLatency = 1
    Periods = {0}
    Delays = {2}
PROPERTIES
    ExpiryUnblocks
