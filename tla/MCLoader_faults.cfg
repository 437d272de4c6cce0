\* Every call may fail, every command may be typed, the process may be killed.
SPECIFICATION Spec
CONSTANTS
    tc = tc
    xdp = xdp
    bare = bare
    o1 = o1
    o2 = o2
    o3 = o3
    eth = eth
    veth = veth
    None = None
    Modules = {tc, xdp, bare}
    Kind <- MCKind
    ConfigKeys <- MCConfigKeys
    Interfaces = {eth, veth}
    XdpSupport <- MCXdpSupport
    Objects = {o1, o2}
    AttachArgs <- MCFewArgs
    UserCommands <- MCAllCommands
    Faults <- MCAllFaults
SYMMETRY ObjectSymmetry
INVARIANTS TypeOK ObjectsOwned MapFdsLive LoadedHasName PlacedOnInterface
PROPERTIES ImplementsOwnership
