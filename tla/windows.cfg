SPECIFICATION Spec
CONSTANTS
    Width = 4
    Height = 4
    Word = 8
    Desk = Desk
    Title = Title
    Body = Body
    Cursor = Cursor
    TitleHeight = 1
    CursorSize <- MCCursorSize
    PowerSize <- MCPowerSize
    MaxWindows = 3
    QueueSize = 2
    FirstWindows <- MCFirstWindows
    Clients = {7, 8, 9}
    Ask <- MCAsk
    Marks <- MCMarks
    Moves <- MCMoves
    Start <- MCStart
    MaxEvents = 2
INVARIANTS
    OnlyCursorHides
    
PROPERTIES
    DragKeepsHold
CHECK_DEADLOCK FALSE
