SPECIFICATION Spec
CONSTANTS
    Vcpus = {g0, g1}
    Boot = g0
    Words = {a, b}
    Zero = a
    PcLimit = 2
    GuestRegs = {"cp15"}
INVARIANTS
    SysRegsPreserved
