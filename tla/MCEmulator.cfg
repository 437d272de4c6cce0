\* Every call of setup() may fail, a module file may not open or load, three signals come at any time, two commands of --run.
SPECIFICATION FairProcess
CONSTANTS
    tc = tc
    xdp = xdp
    o1 = o1
    eth = eth
    None = None
    Modules = {tc, xdp}
    Kind <- MCKind
    ConfigKeys <- MCConfigKeys
    Interfaces = {eth}
    XdpSupport <- MCXdpSupport
    Objects = {o1}
    AttachArgs <- MCAttachArgs
    UserCommands <- MCCommands
    Faults = {"open", "load"}
    MaxSignals = 3
    MaxRun = 2
    SetupFaults <- MCSetupFaults
INVARIANTS ProcessTypeOK NoGhosts EndLeavesNothing BuildAwaited ShutdownStopsPrompt
PROPERTIES LoadedIsAttached ShutdownServed SwitchServed
\* The process ends.
CHECK_DEADLOCK FALSE
