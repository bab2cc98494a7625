SPECIFICATION FairSpec
CONSTANTS
    HV_MAX_VIRQS = 1
    HV_MAX_GUEST_VCPUS = 2
    TickWrap = 6
    MAX_DELTA = 2
    MaxLatency = 1
    Periods = {0, 1}
    Delays = {0, 3}
INVARIANTS
    TypeOK
    OneRunning
    WorkConserving
    VirqLineInSync
    MachineFollowsVcpu
    PhysicalTimerCovers
    LineNotNested
PROPERTIES
    ExitIsFinal
    NoInterruptStorm
    RoundRobin
    RunnableRuns
    SleeperWakes
