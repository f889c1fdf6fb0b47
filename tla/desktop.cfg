SPECIFICATION DesktopSpec
CONSTANTS
    MemListSize = 8
    KernelSize = 1
    SystemMemory = 9
    RamSize = 11
    ProcSlots = 4
    StackSize = 1
    QueueSize = 1
    ImageSizes = {1}
    Bodies = {}
    RegVals = {0}
    BootTicks = {4}
    MaxTick = 8
    Offsets = {}
    Buffers = {}
    Exceptions = {}
    MsgOffset = 0
    Addressees = {}
    Requests = {101}
    MouMov = 102
INVARIANTS
    RunningIsCurrent
    MouseInStep
PROPERTIES
    
    ScreenNotInherited
    SegmentsKept
CHECK_DEADLOCK FALSE
