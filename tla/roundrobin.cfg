SPECIFICATION ShellSpec
CONSTANTS
    Ids = {i1, i2, i3, i4, i5}
    Capacity = 4
    ShellId = i2
PROPERTIES
    NoStarvation
    ShellReturns
CHECK_DEADLOCK FALSE
