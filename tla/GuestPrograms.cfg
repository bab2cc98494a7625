SPECIFICATION GuestSpec
CONSTANTS
    HV_MAX_VIRQS = 1
    HV_MAX_GUEST_VCPUS = 2
    TickWrap = 1
    MAX_DELTA = 2
    MaxLatency = 1
    Periods = {}
    Delays = {}
    Target = 2
    Rounds = 2
    DelayTicks = 2
    TimerPeriod = 1
INVARIANTS InterruptsCounted
PROPERTIES DelayLasts GuestsFinish
CHECK_DEADLOCK FALSE
