CONSTANTS
    Ascii = Ascii
    Lead = Lead
    Cont = Cont
    PhysMaps <- MCPhysMaps
    Holes <- MCHoles
    FmemRange <- MCFmem
    EndPages = {7, 11, 17}
    Cap = 4
    MsgBuf = 1
    Cpus <- MCCpus
    Supported <- MCSupported
    RamSize = 64
    BlockSize = 32
    Addrs = {63, 64, 65, 95, 96, 97, 104, 112, 120, 127, 128, 160}
SPECIFICATION MCSpec
INVARIANTS OneUse LoadsTheRam ExactlyTheUnused RightZone WholeLogs DropOrder EntersBooted
PROPERTIES PrintEnds RightDevice StartEnds
