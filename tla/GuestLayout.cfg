CONSTANTS
    HV_MAX_VM_REGIONS = 2
    AddressPages = 19
    HV_STAGE2_DESCS_PER_TABLE = 3
    HV_STAGE2_MAX_TABLE_PAGES = 3
    HV_MAX_VMS = 2
    PoolBase = 3
    TlbEntries = 1
    GUEST_BASE = 9
    GUEST_SLOT_SIZE = 3
    HV_GUEST_UART_BASE = 18
    HYP_STACK_TOP = 17
    HypStackPages = 2
    RegionRequests <- BootRegions
    MapRequests <- BootMaps
    UnmapRequests <- BootUnmaps
SPECIFICATION Spec
INVARIANTS TlbCoherent GuestConfined FramesNotShared
