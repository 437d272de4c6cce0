\* A shipped module and one argument; no call fails.
SPECIFICATION Spec
CONSTANTS
    None = None
    ElfFaults = {}
    Files <- MCShipped
    Keys = {"loss", "delay"}
    MAX_CONFIG_ENTRIES = 2
    Tails = {zeros, chunk, leftover, top}
    Zeros = zeros
    Lines <- MCOneLine
    Width = 3
PROPERTIES ConfigReachesModule
CHECK_DEADLOCK FALSE
