\* One signal, and nobody at the prompt.
SPECIFICATION FairAlone
CONSTANTS
    tc = tc
    xdp = xdp
    o1 = o1
    eth = eth
    None = None
    Modules = {tc, xdp}
    Kind <- MCKind
    ConfigKeys <- MCConfigKeys
    Interfaces = {eth}
    XdpSupport <- MCXdpSupport
    Objects = {o1}
    AttachArgs <- MCAttachArgs
    UserCommands <- MCCommands
    Faults = {}
    MaxSignals = 1
    MaxRun = 0
    SetupFaults = {}
PROPERTIES ShutdownNeedsNobody
CHECK_DEADLOCK FALSE
