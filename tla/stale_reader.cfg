SPECIFICATION Spec
CONSTANTS
    MemListSize = 8
    KernelSize = 1
    SystemMemory = 9
    RamSize = 11
    ProcSlots = 4
    StackSize = 1
    QueueSize = 1
    ImageSizes = {1}
    Bodies = {}
    RegVals = {0}
    BootTicks = {4}
    MaxTick = 12
    Offsets = {}
    Buffers <- MCBuffers
    Exceptions = {}
    MsgOffset = 0
    Addressees = {0, 2, 3}
PROPERTIES
    KeystrokesIsolated
CHECK_DEADLOCK FALSE
