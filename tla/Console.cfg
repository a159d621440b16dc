SPECIFICATION Spec
CONSTANTS
    Threads = {"main", "kbd"}
    Irq = "kbd"
    Rows = 2
    Cols = 3
    TabStop = 2
    SlackRows = 2
    Glyphs = {"a", "z", "-", "[", "k", "]", "0", "1", "2", "3", "4", "5", "6", "7", "8", "9", "A", "B", "C", "D", "E", "F"}
    Colors = {"white", "green", "red", "yellow"}
    White = "white"
    PosBase = 4
    IntBits = 5
    MaxCalls <- MCMaxCalls
    Logged <- MCLogged
    Typed = {"z", "bs"}
    Formats <- MCFormats
INVARIANTS
    CursorOnScreen
    StoresInVideoMemory
    MessagesComplete
    ScreenShowsTail
CHECK_DEADLOCK FALSE
