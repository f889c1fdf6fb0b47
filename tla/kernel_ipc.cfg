SPECIFICATION Spec
CONSTANTS
    MemListSize = 8
    KernelSize = 1
    SystemMemory = 9
    RamSize = 11
    ProcSlots = 4
    StackSize = 1
    QueueSize = 2
    ImageSizes = {1}
    Bodies = {100}
    RegVals = {0}
    BootTicks = {4}
    MaxTick = 8
    Offsets = {}
    Buffers = {}
    Exceptions = {}
    MsgOffset = 0
    Addressees = {0, 2, 3}
PROPERTIES
    DeliversMail
CHECK_DEADLOCK FALSE
