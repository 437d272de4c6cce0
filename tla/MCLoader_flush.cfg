\* Every command, every fault but a failing bpf_tc_hook_destroy.  No symmetry:
\* CommandsEnd is a liveness property.
SPECIFICATION FairSpec
CONSTANTS
    tc = tc
    xdp = xdp
    bare = bare
    o1 = o1
    o2 = o2
    o3 = o3
    eth = eth
    veth = veth
    None = None
    Modules = {tc, xdp, bare}
    Kind <- MCKind
    ConfigKeys <- MCConfigKeys
    Interfaces = {eth}
    XdpSupport <- MCXdpSupport
    Objects = {o1, o2}
    AttachArgs <- MCAttachArgs
    UserCommands <- MCAllCommands
    Faults <- MCNoDestroyFault
PROPERTIES TcUnloadCleans CommandsEnd
