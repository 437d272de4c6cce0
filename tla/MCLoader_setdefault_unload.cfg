\* An unload after set-default attachment-point; no call fails.
SPECIFICATION Spec
CONSTANTS
    tc = tc
    xdp = xdp
    bare = bare
    o1 = o1
    o2 = o2
    o3 = o3
    eth = eth
    veth = veth
    None = None
    Modules = {tc, xdp, bare}
    Kind <- MCKind
    ConfigKeys <- MCConfigKeys
    Interfaces = {eth}
    XdpSupport <- MCXdpSupport
    Objects = {o1, o2, o3}
    AttachArgs <- MCAttachArgs
    UserCommands <- MCAllCommands
    Faults <- MCNoFaults
SYMMETRY ObjectSymmetry
PROPERTIES UnloadDetaches
