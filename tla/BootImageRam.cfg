CONSTANTS
    r1 = r1
    r2 = r2
    r1Space = r1Space
    r2Space = r2Space
    NoRoot = NoRoot
    Roots <- MCRoots
    Dirs <- MCDirs
    Trim <- MCTrim
    md0 = md0
    da0 = da0
    da1 = da1
    Dump <- MCDump
    Main = md0
    Items = 2
    i1 = i1
    i2 = i2
    Ids <- MCIds
    t1 = t1
    t2 = t2
    Texts <- MCTexts
    Bad = Bad
    DefaultText = t1
    a = a
    b = b
    Variables <- MCVariables
    Size <- MCSize
    DefaultVar = a
    EnvSpace = 1
    MaxShown = 1
    Files <- MCFiles
    MaxNote = 20
    Word = 64
    KernVaddr = 48
    MaxSends = 5
    Radix = 4
    VmPage = 2
    Blocks = {2, 4}
    RamSizes = {48, 128}
    BootLen = 3
    KernLens = {1, 4, 7, 30}
    MapLen = 1
    EnvLen = 2
    ConfLen = 3
    StackLen = 3
    KernV = 196
SPECIFICATION LayoutSpec
INVARIANTS LivesForever
CHECK_DEADLOCK FALSE
