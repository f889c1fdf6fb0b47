SPECIFICATION Spec
CONSTANTS
    MemListSize = 6
    KernelSize = 1
    SystemMemory = 9
    RamSize = 13
    ProcSlots = 5
    StackSize = 1
    QueueSize = 1
    ImageSizes = {1, 2}
    Bodies = {}
    RegVals = {0}
    BootTicks = {5}
    MaxTick = 9
    Offsets = {1}
    Buffers <- MCBuffers
    Exceptions = {}
    MsgOffset = 0
    Addressees = {0, 2, 3}
INVARIANTS
    TypeOK
    TablesAgree
    Packed
    RegionsDisjoint
    PidsAscend
    InputServed
    NobodyForgotten
    SchedulerNeverHangs
PROPERTIES
    MemoryPreserved
CHECK_DEADLOCK FALSE
