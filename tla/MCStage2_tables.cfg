CONSTANTS
    HV_MAX_VM_REGIONS = 2
    AddressPages = 8
    HV_STAGE2_DESCS_PER_TABLE = 2
    HV_STAGE2_MAX_TABLE_PAGES = 5
    HV_MAX_VMS = 1
    PoolBase = 8
    TlbEntries = 1
    RegionRequests <- OneVmRegions
    MapRequests <- OneVmMaps
    UnmapRequests <- OneVmUnmaps
SPECIFICATION Spec
INVARIANTS TypeOK TableTree RegionsDisjoint CallResultsHold
PROPERTIES ImplementsAddressSpace
