SPECIFICATION Spec
CONSTANTS
    Block = 4
    Discs <- MCDiscs
    Words <- MCWords
    DriveWords = {"A:", "B:"}
    Initial <- MCInitial
    Lines <- MCLines
    Paths <- MCPaths
    TooLong <- MCTooLong
    MaxStrays = 2
INVARIANTS
    FindsFile
    
    ReadFits
    
CHECK_DEADLOCK FALSE
