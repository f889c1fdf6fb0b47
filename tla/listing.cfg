SPECIFICATION ListingSpec
CONSTANTS
    MemListSize = 8
    KernelSize = 1
    SystemMemory = 11
    RamSize = 13
    ProcSlots = 5
    StackSize = 1
    QueueSize = 1
    ImageSizes = {1}
    Bodies = {}
    RegVals = {}
    BootTicks = {5}
    MaxTick = 12
    Offsets = {}
    Buffers = {}
    Exceptions = {}
    MsgOffset = 0
    Addressees = {}
INVARIANTS
    ListingAscends
    MissedByExits
    GarbageByExits
CHECK_DEADLOCK FALSE
