SPECIFICATION Spec
CONSTANTS
    Width = 4
    Height = 2
    VideoMem = 2
    Glyphs = {"a"}
    Sizes = {1, 10}
INVARIANTS
    
    BlankAhead
