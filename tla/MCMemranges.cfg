SPECIFICATION MtrrSpec
CONSTANTS
    Top = 48
    Align = 2
    Tag = {"WB", "UC", "WC", "WP"}
    NumFree = 4
    Reach = 10
    CallerTag = {"WB", "UC"}
    AddressBits = 5
    Low = 1
    FourG = 16
    TotalMtrrs = 6
    Reserved = 1
    Cpu = {bsp, ap}
    Bsp = bsp
    Board <- Boards
    TempRange <- Temps
    NumTemps = 2
VIEW View
INVARIANTS Ordered TypesAsAsked
PROPERTIES TagsAsAsked BestBase
CHECK_DEADLOCK FALSE
