----------------------------- MODULE LoaderProps -----------------------------
(***************************************************************************)
(* What the loader must guarantee.  The first part holds whatever calls    *)
(* fail and whatever the user types; the second part holds only where some *)
(* calls do not fail or set-default is not used; the third part is what    *)
(* the documentation and the comments of the repository say and the code   *)
(* does not do.                                                            *)
(***************************************************************************)
EXTENDS Loader

-----------------------------------------------------------------------------
(* For every instance.                                                     *)

ObjectOrNone == Objects \cup {None}

BpfTypes ==
    /\ module_name \in Modules \cup {None}
    /\ object \in ObjectOrNone
    /\ stats_map_fd \in ObjectOrNone
    /\ config_map_fd \in ObjectOrNone
    /\ config_keys \in {ConfigKeys[m] : m \in Modules} \cup {<<>>}
    /\ opened \subseteq Objects

InterfaceTypes ==
    /\ interface_name \in Interfaces \cup {None}
    /\ ifindex \in Interfaces \cup {None}
    /\ tc_attach_points \subseteq TcPoints
    /\ xdp_attach_point \subseteq XdpModes

DefaultTypes ==
    /\ default_interface_name \in Interfaces \cup {None}
    /\ default_tc_attach_points \subseteq TcPoints
    /\ default_xdp_attach_point \subseteq XdpModes

KernelTypes ==
    /\ hooks \in [Slots -> ObjectOrNone]
    /\ clsact \subseteq Interfaces

LoopTypes == n \in -2..2 /\ i \in 0..2

ControlTypes ==
    /\ pc \in {"ready", "exited", "open", "load", "attach", "tc attach", "xdp attach",
               "finish", "detach", "tc detach", "destroy ingress", "destroy egress",
               "xdp detach", "close"}
    /\ caller \in {"none", "unload", "switch", "exit"}
    /\ report \in {"none", "already loaded", "refused", "loaded", "load failed",
                   "unloaded", "unload failed"}

\* Every variable of the context, the kernel and the control point has its
\* type; the count that the attach and detach loops return is in -2..2.
TypeOK == BpfTypes /\ InterfaceTypes /\ DefaultTypes /\ KernelTypes /\ LoopTypes /\ ControlTypes

\* Every bpf_object that is opened is the one ctx->bpf.object points to, and
\* that pointer never dangles: no path of load_bpf_module, unload_bpf_module
\* or cleanup leaks an object, closes it twice or keeps a closed one.
ObjectsOwned == opened = IF object = None THEN {} ELSE {object}

\* The map descriptors are of the loaded object or -1: stats and config never
\* use a descriptor that bpf_object__close has closed, and they are available
\* whenever the prompt shows with a module loaded.
MapFdsLive ==
    /\ stats_map_fd = config_map_fd
    /\ stats_map_fd # None => stats_map_fd = object
    /\ pc = "ready" => stats_map_fd = object

\* The guard of load is on the name alone; it protects the object because
\* nothing is loaded under an empty name.
LoadedHasName == object # None => module_name # None

\* A loaded program runs only on the interface ctx->interface.ifindex names and
\* only in hooks of the family its ELF section selects: ifindex cannot change
\* while a module is loaded, whatever load commands are typed.  In which hooks of
\* that family detach looks depends on the attachment points as well, which may
\* change (UnloadDetaches).
PlacedOnInterface ==
    \A s \in Slots :
        object # None /\ hooks[s] = object =>
            /\ s[1] = ifindex
            /\ s[2] \in TcPoints => Kind[module_name] = "tc"
            /\ s[2] \in XdpModes => Kind[module_name] = "xdp"

\* The invariants together.
Safe == ObjectsOwned /\ MapFdsLive /\ LoadedHasName /\ PlacedOnInterface

\* The loader implements the abstract ownership of hooks: only the program of
\* the open object is ever attached, one slot of one interface at a time, and
\* nothing changes in the kernel while the process holds no object.
Ownership == INSTANCE HookOwnership
                WITH owner <- object, home <- ifindex, HookNames <- Hooks
ImplementsOwnership == Ownership!Spec

\* Every load and unload comes to an end, with a module loaded under its name
\* or with none.
Settled == pc \in {"ready", "exited"}
CommandsEnd == (~Settled) ~> Settled

-----------------------------------------------------------------------------
(* For instances whose users and calls behave as each comment says.        *)

\* A TC unload that reports success leaves no program in either TC hook of the
\* interface and its own program nowhere: not when bpf_tc_detach failed, not
\* when set-default has moved the attachment points since the load, and not
\* when a killed process left its own program there, because both directions
\* are flushed.  (bpf_tc_hook_destroy does not fail.)
TcUnloadCleans ==
    [][ pc = "close" /\ n >= 0 /\ Kind[module_name] = "tc" =>
          /\ \A p \in TcPoints : hooks'[<<ifindex, p>>] = None
          /\ \A s \in Slots : hooks'[s] # object ]_vars

\* At the prompt and after exit, if no module is loaded no hook runs any
\* program of this or an earlier process.  (The calls of detach do not fail,
\* nobody types set-default attachment-point, no process is killed.)
NoGhosts ==
    pc \in {"ready", "exited"} /\ object = None => \A s \in Slots : hooks[s] = None

\* A load that reports success has attached the program to every requested TC
\* point, or to the XDP slot.  (As for NoGhosts, and no TC call of attach fails.)
LoadedIsAttached ==
    [][ report' = "loaded" /\ report # "loaded" =>
          IF Kind[module_name] = "tc"
          THEN \A p \in tc_attach_points : hooks[<<ifindex, p>>] = object
          ELSE hooks[XdpSlot] = object ]_vars

-----------------------------------------------------------------------------
(* What is said of the program, and is not so.                             *)

\* cli.c asks for a module to load after Ctrl+\ has unloaded the active one,
\* and load.c refuses "A module is already loaded" only if one is.
RefusedOnlyIfLoaded ==
    [][ LoadAlreadyLoaded => object # None ]_vars

\* bpf_manager.h:16-20: load_bpf_module attaches the module, or returns NULL.
LoadedRunsSomewhere ==
    pc = "finish" => \E s \in Slots : hooks[s] = object

\* unload.h:16-18: unload detaches the program from its attachment points.
UnloadDetaches ==
    [][ pc = "close" /\ object # None => \A s \in Slots : hooks[s] # object ]_vars
=============================================================================
