------------------------------- MODULE Loader -------------------------------
(***************************************************************************)
(* The lifecycle of an eBPF module: load, unload and set-default, down to  *)
(* every libbpf call that changes the kernel (core/bpf_manager.c,          *)
(* core/configuration.c, the load, unload and set-default commands, and    *)
(* core/cleanup.c).                                                        *)
(*                                                                         *)
(* The control plane is one thread.  A command is a run of steps between   *)
(* pc = "ready" and pc = "ready"; the steps are separate because the       *)
(* process can be killed between two kernel calls and the kernel keeps     *)
(* what the first one did.                                                 *)
(*                                                                         *)
(* Strings are model values and "" is None.  A file descriptor of a map is *)
(* the object whose map it is; -1 is None.  A program in a hook is the     *)
(* object it was loaded from.  ifindex is the interface it was looked up   *)
(* for, 0 is None: interfaces neither disappear nor change index here.     *)
(***************************************************************************)
EXTENDS AttachPoints, FiniteSets

CONSTANTS Modules,        \* names of the compiled modules
          Kind,           \* the ELF section a module has: see KindAssumption
          ConfigKeys,     \* its .config_keys section up to the sentinel, or None
          Interfaces,     \* the network interfaces of the host
          XdpSupport,     \* the XDP modes the driver of an interface supports
          Objects,        \* identities of bpf_objects (a bound on programs alive)
          None,           \* "", NULL, 0 or -1, whatever says "nothing"
          AttachArgs,     \* attachment-point arguments the user may type
          UserCommands,   \* the commands this instance's user types
          Faults          \* the calls that may fail in this instance

CommandNames == {"load", "unload", "switch", "exit", "set-default interface",
                 "set-default attachment-point", "set-default clear"}

FaultNames == {"open", "load", "maps", "interface", "elf", "program",
               "tc_hook_create", "tc_attach", "tc_detach", "tc_hook_destroy",
               "xdp_attach", "xdp_detach", "crash"}

ASSUME NoneAssumption == None \notin Modules \cup Interfaces \cup Objects
ASSUME KindAssumption == Kind \in [Modules -> {"tc", "xdp", "other"}]
ASSUME XdpAssumption  == XdpSupport \in [Interfaces -> SUBSET XdpModes]
ASSUME ArgsAssumption == AttachArgs \subseteq Seq(Tokens)

VARIABLES module_name, object, stats_map_fd, config_map_fd, config_keys,
          opened,         \* the bpf_objects opened and not yet closed
          interface_name, ifindex, tc_attach_points, xdp_attach_point,
          default_interface_name, default_tc_attach_points, default_xdp_attach_point,
          hooks,          \* kernel: the program every slot runs, or None
          clsact,         \* kernel: the interfaces with a clsact qdisc
          pc, n, i,       \* the control point and the locals of the attach loops
          caller,         \* who called unload_bpf_module
          report          \* the last outcome printed to the user

bpf       == <<module_name, object, stats_map_fd, config_map_fd, config_keys, opened>>
interface == <<interface_name, ifindex, tc_attach_points, xdp_attach_point>>
defaults  == <<default_interface_name, default_tc_attach_points, default_xdp_attach_point>>
kernel    == <<hooks, clsact>>
locals    == <<n, i, caller>>
vars      == <<bpf, interface, defaults, kernel, pc, locals, report>>

Slots == Interfaces \X Hooks

\* The values setup() and set-default give the default attachment points.
DefaultTc  == {"ingress"}
DefaultXdp == {"generic"}

\* calloc and the assignments of setup(): the context of a new process.
FreshContext ==
    /\ module_name = None /\ object = None /\ opened = {}
    /\ stats_map_fd = None /\ config_map_fd = None
    /\ config_keys = <<>>
    /\ interface_name = None /\ ifindex = None
    /\ tc_attach_points = {} /\ xdp_attach_point = {}
    /\ default_interface_name = None
    /\ default_tc_attach_points = DefaultTc
    /\ default_xdp_attach_point = DefaultXdp
    /\ n = 0 /\ i = 0 /\ caller = "none" /\ report = "none"

Init == /\ FreshContext
        /\ pc = "ready"
        /\ hooks = [s \in Slots |-> None]
        /\ clsact = {}

-----------------------------------------------------------------------------
(* The load command.                                                       *)

\* Objects no hook runs.  The identity of a program that no hook runs any
\* more is reused, so a bounded set of objects gives unbounded histories.
Fresh == {o \in Objects \ opened : \A s \in Slots : hooks[s] # o}

\* Mutant: the interface is looked up before the command is refused.
LoadAlreadyLoadedLate ==
    /\ "load" \in UserCommands
    /\ pc = "ready" /\ module_name # None
    /\ ifindex' \in Interfaces \cup {None}
    /\ report' = "already loaded"
    /\ UNCHANGED <<bpf, interface_name, tc_attach_points, xdp_attach_point,
                   defaults, kernel, pc, locals>>

\* load_module_command with a module already loaded.
LoadAlreadyLoaded ==
    /\ "load" \in UserCommands
    /\ pc = "ready" /\ module_name # None
    /\ report' = "already loaded"
    /\ UNCHANGED <<bpf, interface, defaults, kernel, pc, locals>>

\* An unknown, repeated or missing option, no module, or no interface.
LoadRefused ==
    /\ "load" \in UserCommands
    /\ pc = "ready" /\ module_name = None
    /\ report' = "refused"
    /\ UNCHANGED <<bpf, interface, defaults, kernel, pc, locals>>

\* load -m m [-i ifc] [-a raw], the options well formed: the arguments go to
\* the context (set_attachment_points, set_module) and loading begins.
LoadCommand(m, ifc, raw) ==
    /\ "load" \in UserCommands
    /\ pc = "ready" /\ module_name = None
    /\ ifc # None \/ default_interface_name # None
    /\ Fresh # {}                              \* bound: Objects
    /\ tc_attach_points' = IF raw = None THEN default_tc_attach_points ELSE TcOf(raw)
    /\ xdp_attach_point' = IF raw = None THEN default_xdp_attach_point ELSE XdpOf(raw)
    /\ interface_name' = IF ifc # None THEN ifc ELSE default_interface_name
    /\ module_name' = m
    /\ pc' = "open"
    /\ UNCHANGED <<object, stats_map_fd, config_map_fd, config_keys, opened,
                   ifindex, defaults, kernel, locals, report>>

\* Mutant: the failure path forgets bpf_object__close.
AbortLoadLeaks ==
    /\ object' = None
    /\ module_name' = None
    /\ report' = "load failed"
    /\ pc' = "ready"
    /\ UNCHANGED <<opened, stats_map_fd, config_map_fd, config_keys>>

\* Every failure of load_bpf_module after the open: the object is closed and
\* set_module clears the name.
AbortLoad ==
    /\ opened' = opened \ {object}
    /\ object' = None
    /\ module_name' = None
    /\ report' = "load failed"
    /\ pc' = "ready"
    /\ UNCHANGED <<stats_map_fd, config_map_fd, config_keys>>

OpenObject ==
    /\ pc = "open"
    /\ \E o \in Fresh :
        /\ object' = o
        /\ opened' = opened \cup {o}
    /\ pc' = "load"
    /\ UNCHANGED <<module_name, stats_map_fd, config_map_fd, config_keys,
                   interface, defaults, kernel, locals, report>>

OpenFails ==
    /\ pc = "open" /\ "open" \in Faults
    /\ object' = None
    /\ module_name' = None
    /\ report' = "load failed"
    /\ pc' = "ready"
    /\ UNCHANGED <<stats_map_fd, config_map_fd, config_keys, opened,
                   interface, defaults, kernel, locals>>

\* bpf_object__load and the lookups of the two maps.
LoadObject ==
    /\ pc = "load"
    /\ pc' = "attach"
    /\ UNCHANGED <<bpf, interface, defaults, kernel, locals, report>>

LoadObjectFails ==
    /\ pc = "load" /\ Faults \cap {"load", "maps"} # {}
    /\ AbortLoad
    /\ UNCHANGED <<interface, defaults, kernel, locals>>

-----------------------------------------------------------------------------
(* attach_bpf_program.                                                     *)

\* The interface, the ELF sections and the program are looked up, and the
\* section decides the branch.
AttachBegin ==
    /\ pc = "attach"
    /\ ifindex' = interface_name
    /\ \/ /\ Kind[module_name] = "tc" /\ tc_attach_points # {}
          /\ pc' = "tc attach"
          /\ n' = Len(Points(tc_attach_points))
       \/ /\ Kind[module_name] = "xdp"
          /\ pc' = "xdp attach"
          /\ n' = 0
    /\ i' = 0
    /\ UNCHANGED <<bpf, interface_name, tc_attach_points, xdp_attach_point,
                   defaults, kernel, caller, report>>

\* -1 before anything is attached: no such interface, an unreadable ELF file,
\* no packet_handler, no TC point for a TC module, an unknown section.
AttachImpossible ==
    /\ pc = "attach"
    /\ \/ "interface" \in Faults /\ ifindex' = None
       \/ /\ \/ Faults \cap {"elf", "program"} # {}
             \/ Kind[module_name] = "tc" /\ tc_attach_points = {}
             \/ Kind[module_name] = "other"
          /\ ifindex' = interface_name
    /\ AbortLoad
    /\ UNCHANGED <<interface_name, tc_attach_points, xdp_attach_point,
                   defaults, kernel, locals>>

\* The TC point and the slot the current iteration is about.
Point == Points(tc_attach_points)[i + 1]
Slot  == <<ifindex, Point>>

\* bpf_tc_attach without BPF_TC_F_REPLACE: a filter with the same handle and
\* priority is an error.
TcAttachable(s) == hooks[s] = None

\* One iteration of the attach loop that attaches; -EEXIST from
\* bpf_tc_hook_create is tolerated.
TcAttachOk ==
    /\ pc = "tc attach" /\ i < n
    /\ TcAttachable(Slot)
    /\ clsact' = clsact \cup {ifindex}
    /\ hooks' = [hooks EXCEPT ![Slot] = object]
    /\ i' = i + 1
    /\ UNCHANGED <<bpf, interface, defaults, pc, n, caller, report>>

\* An iteration that fails: n-- is both the count and the bound of the loop.
TcAttachFails ==
    /\ pc = "tc attach" /\ i < n
    /\ \/ "tc_hook_create" \in Faults /\ ifindex \notin clsact /\ UNCHANGED clsact
       \/ /\ ~TcAttachable(Slot) \/ "tc_attach" \in Faults
          /\ clsact' = clsact \cup {ifindex}
    /\ n' = n - 1
    /\ i' = i + 1
    /\ UNCHANGED <<bpf, interface, defaults, hooks, pc, caller, report>>

\* Mutant: the loop stops one point early.
TcAttachDoneEarly ==
    /\ pc = "tc attach" /\ i >= n - 1
    /\ pc' = "finish"
    /\ UNCHANGED <<bpf, interface, defaults, kernel, locals, report>>

TcAttachDone ==
    /\ pc = "tc attach" /\ i >= n
    /\ pc' = "finish"
    /\ UNCHANGED <<bpf, interface, defaults, kernel, locals, report>>

\* The kernel's choice of mode: the flag, or without one the driver's own
\* mode if it has XDP and the generic one otherwise.
ModeOf(ifc, flags) ==
    IF flags # {} THEN CHOOSE mode \in XdpModes : mode \in flags
    ELSE IF "driver" \in XdpSupport[ifc] THEN "driver" ELSE "generic"

XdpSlot == <<ifindex, ModeOf(ifindex, xdp_attach_point)>>

OneMode(flags) == \A f, g \in flags : f = g

\* The kernel refuses an unsupported mode, two modes in the flags, and native
\* and generic XDP on one interface.  It replaces a program of the same mode.
XdpAttachable ==
    LET mode == XdpSlot[2]
        rival(m) == IF m = "generic" THEN "driver" ELSE "generic"
    IN  /\ OneMode(xdp_attach_point)
        /\ mode = "generic" \/ mode \in XdpSupport[ifindex]
        /\ mode # "offload" => hooks[<<ifindex, rival(mode)>>] = None

XdpAttachOk ==
    /\ pc = "xdp attach"
    /\ XdpAttachable
    /\ hooks' = [hooks EXCEPT ![XdpSlot] = object]
    /\ n' = 1
    /\ pc' = "finish"
    /\ UNCHANGED <<bpf, interface, defaults, clsact, i, caller, report>>

XdpAttachFails ==
    /\ pc = "xdp attach"
    /\ ~XdpAttachable \/ "xdp_attach" \in Faults
    /\ AbortLoad
    /\ UNCHANGED <<interface, defaults, kernel, locals>>

\* load_bpf_module returns the object, whatever the count was, and set_module
\* reads the config keys; without a readable section the old keys stay.
FinishLoad ==
    /\ pc = "finish"
    /\ stats_map_fd' = object
    /\ config_map_fd' = object
    /\ \/ /\ ConfigKeys[module_name] # None
          /\ config_keys' = ConfigKeys[module_name]
       \/ /\ ConfigKeys[module_name] = None \/ "elf" \in Faults
          /\ UNCHANGED config_keys
    /\ report' = "loaded"
    /\ pc' = "ready"
    /\ UNCHANGED <<module_name, object, opened, interface, defaults, kernel, locals>>

-----------------------------------------------------------------------------
(* unload_bpf_module and its three callers.                                *)

BeginUnload(who) ==
    /\ caller' = who
    /\ pc' = "detach"
    /\ UNCHANGED <<bpf, interface, defaults, kernel, n, i, report>>

UnloadCommand ==
    /\ "unload" \in UserCommands
    /\ pc = "ready" /\ module_name # None
    /\ BeginUnload("unload")

\* Mutant: the switch dialog clears the name before it unloads.
SwitchModuleClearsFirst ==
    /\ "switch" \in UserCommands
    /\ pc = "ready"
    /\ module_name' = None
    /\ caller' = "switch"
    /\ pc' = "detach"
    /\ UNCHANGED <<object, stats_map_fd, config_map_fd, config_keys, opened,
                   interface, defaults, kernel, n, i, report>>

\* The switch dialog (cli.c:26-28) unloads whether or not a module is loaded;
\* the load it then asks for is a LoadCommand with no attachment point.
SwitchModule ==
    /\ "switch" \in UserCommands
    /\ pc = "ready"
    /\ BeginUnload("switch")

\* cleanup() at the end of main unloads only if there is an object.
ExitWithModule ==
    /\ "exit" \in UserCommands
    /\ pc = "ready" /\ object # None
    /\ BeginUnload("exit")

ExitWithoutModule ==
    /\ "exit" \in UserCommands
    /\ pc = "ready" /\ object = None
    /\ pc' = "exited"
    /\ UNCHANGED <<bpf, interface, defaults, kernel, locals, report>>

\* detach_bpf_program up to the branch on the section.
DetachBegin ==
    /\ pc = "detach"
    /\ ifindex # None /\ object # None
    /\ \/ /\ Kind[module_name] = "tc" /\ tc_attach_points # {}
          /\ pc' = "tc detach"
          /\ n' = Len(Points(tc_attach_points))
       \/ /\ Kind[module_name] = "xdp"
          /\ pc' = "xdp detach"
          /\ n' = 0
    /\ i' = 0
    /\ UNCHANGED <<bpf, interface, defaults, kernel, caller, report>>

DetachImpossible ==
    /\ pc = "detach"
    /\ \/ ifindex = None
       \/ object = None
       \/ Faults \cap {"elf", "program"} # {}
       \/ object # None /\ Kind[module_name] = "tc" /\ tc_attach_points = {}
       \/ object # None /\ Kind[module_name] = "other"
    /\ n' = -1
    /\ pc' = "close"
    /\ UNCHANGED <<bpf, interface, defaults, kernel, i, caller, report>>

\* bpf_tc_detach removes the filter with handle 1 and priority 1, whoever put
\* it there; -ENOENT is tolerated.
TcDetachOk ==
    /\ pc = "tc detach" /\ i < n
    /\ ifindex \in clsact
    /\ hooks' = [hooks EXCEPT ![Slot] = None]
    /\ i' = i + 1
    /\ UNCHANGED <<bpf, interface, defaults, clsact, pc, n, caller, report>>

\* Mutant: a failed bpf_tc_detach is tried again.
TcDetachFailsRetries ==
    /\ pc = "tc detach" /\ i < n
    /\ ifindex \notin clsact \/ "tc_detach" \in Faults
    /\ UNCHANGED vars

TcDetachFails ==
    /\ pc = "tc detach" /\ i < n
    /\ ifindex \notin clsact \/ "tc_detach" \in Faults
    /\ n' = n - 1
    /\ i' = i + 1
    /\ UNCHANGED <<bpf, interface, defaults, kernel, pc, caller, report>>

TcDetachDone ==
    /\ pc = "tc detach" /\ i >= n
    /\ pc' = "destroy ingress"
    /\ UNCHANGED <<bpf, interface, defaults, kernel, locals, report>>

\* Mutant: hook.attach_point is not moved on to the egress.
TcDestroyOkIngressTwice(at, point, next) ==
    /\ pc = at
    /\ ifindex \in clsact
    /\ hooks' = [hooks EXCEPT ![<<ifindex, "ingress">>] = None]
    /\ pc' = next
    /\ UNCHANGED <<bpf, interface, defaults, clsact, locals, report>>

\* bpf_tc_hook_destroy for one direction flushes the filters of that
\* direction; the clsact qdisc stays.
TcDestroyOk(at, point, next) ==
    /\ pc = at
    /\ ifindex \in clsact
    /\ hooks' = [hooks EXCEPT ![<<ifindex, point>>] = None]
    /\ pc' = next
    /\ UNCHANGED <<bpf, interface, defaults, clsact, locals, report>>

TcDestroyFails(at, next) ==
    /\ pc = at
    /\ ifindex \notin clsact \/ "tc_hook_destroy" \in Faults
    /\ n' = n - 1
    /\ pc' = next
    /\ UNCHANGED <<bpf, interface, defaults, kernel, i, caller, report>>

\* Mutant: the flags are not passed to bpf_xdp_detach.
XdpDetachOkNoFlags ==
    /\ pc = "xdp detach"
    /\ OneMode(xdp_attach_point)
    /\ hooks' = [hooks EXCEPT ![<<ifindex, ModeOf(ifindex, {})>>] = None]
    /\ n' = 1
    /\ pc' = "close"
    /\ UNCHANGED <<bpf, interface, defaults, clsact, i, caller, report>>

\* bpf_xdp_detach empties the slot of the mode in the flags, and succeeds when
\* that slot is empty already.
XdpDetachOk ==
    /\ pc = "xdp detach"
    /\ OneMode(xdp_attach_point)
    /\ hooks' = [hooks EXCEPT ![XdpSlot] = None]
    /\ n' = 1
    /\ pc' = "close"
    /\ UNCHANGED <<bpf, interface, defaults, clsact, i, caller, report>>

XdpDetachFails ==
    /\ pc = "xdp detach"
    /\ ~OneMode(xdp_attach_point) \/ "xdp_detach" \in Faults
    /\ n' = -1
    /\ pc' = "close"
    /\ UNCHANGED <<bpf, interface, defaults, kernel, i, caller, report>>

\* Mutant: the descriptors keep their values.
CloseModuleKeepsFds ==
    /\ pc = "close"
    /\ opened' = opened \ {object}
    /\ object' = None
    /\ module_name' = IF caller = "unload" THEN None ELSE module_name
    /\ report' = IF caller # "unload" THEN report
                 ELSE IF n < 0 THEN "unload failed" ELSE "unloaded"
    /\ pc' = IF caller = "exit" THEN "exited" ELSE "ready"
    /\ UNCHANGED <<stats_map_fd, config_map_fd, config_keys, interface, defaults,
                   kernel, locals>>

\* The rest of unload_bpf_module and of its caller.  Only the unload command
\* clears the name.
CloseModule ==
    /\ pc = "close"
    /\ stats_map_fd' = None
    /\ config_map_fd' = None
    /\ opened' = opened \ {object}
    /\ object' = None
    /\ module_name' = IF caller = "unload" THEN None ELSE module_name
    /\ report' = IF caller # "unload" THEN report
                 ELSE IF n < 0 THEN "unload failed" ELSE "unloaded"
    /\ pc' = IF caller = "exit" THEN "exited" ELSE "ready"
    /\ UNCHANGED <<config_keys, interface, defaults, kernel, locals>>

-----------------------------------------------------------------------------
(* set-default.                                                            *)

\* Mutant: the active interface is written instead of the default.
SetDefaultInterfaceActive(ifc) ==
    /\ "set-default interface" \in UserCommands
    /\ pc = "ready"
    /\ interface_name' = ifc
    /\ ifindex' = ifc
    /\ UNCHANGED <<bpf, tc_attach_points, xdp_attach_point, defaults,
                   kernel, pc, locals, report>>

SetDefaultInterface(ifc) ==
    /\ "set-default interface" \in UserCommands
    /\ pc = "ready"
    /\ default_interface_name' = ifc
    /\ UNCHANGED <<bpf, interface, default_tc_attach_points, default_xdp_attach_point,
                   kernel, pc, locals, report>>

\* With an argument the command calls set_attachment_points, which writes the
\* active attachment points.
SetDefaultAttachmentPoint(raw) ==
    /\ "set-default attachment-point" \in UserCommands
    /\ pc = "ready"
    /\ tc_attach_points' = TcOf(raw)
    /\ xdp_attach_point' = XdpOf(raw)
    /\ UNCHANGED <<bpf, interface_name, ifindex, defaults, kernel, pc, locals, report>>

\* Without an argument it restores the built-in attachment points, and
\* "clear" also forgets the interface.
SetDefaultRestore ==
    /\ pc = "ready"
    /\ \/ "set-default attachment-point" \in UserCommands /\ UNCHANGED default_interface_name
       \/ "set-default clear" \in UserCommands /\ default_interface_name' = None
    /\ default_tc_attach_points' = DefaultTc
    /\ default_xdp_attach_point' = DefaultXdp
    /\ UNCHANGED <<bpf, interface, kernel, pc, locals, report>>

-----------------------------------------------------------------------------
(* The end of a process, and the next one.                                 *)

\* SIGKILL or a crash: the kernel closes the descriptors, and the hooks keep
\* the programs they run.
Crash ==
    /\ "crash" \in Faults
    /\ pc # "exited"
    /\ object' = None
    /\ opened' = {}
    /\ stats_map_fd' = None
    /\ config_map_fd' = None
    /\ pc' = "exited"
    /\ UNCHANGED <<module_name, config_keys, interface, defaults, kernel, locals, report>>

Restart ==
    /\ pc = "exited"
    /\ pc' = "ready"
    /\ module_name' = None /\ object' = None /\ opened' = {}
    /\ stats_map_fd' = None /\ config_map_fd' = None
    /\ config_keys' = <<>>
    /\ interface_name' = None /\ ifindex' = None
    /\ tc_attach_points' = {} /\ xdp_attach_point' = {}
    /\ default_interface_name' = None
    /\ default_tc_attach_points' = DefaultTc
    /\ default_xdp_attach_point' = DefaultXdp
    /\ n' = 0 /\ i' = 0 /\ caller' = "none" /\ report' = "none"
    /\ UNCHANGED kernel

-----------------------------------------------------------------------------

Command ==
    \/ LoadAlreadyLoaded
    \/ LoadRefused
    \/ \E m \in Modules, ifc \in Interfaces \cup {None}, raw \in AttachArgs \cup {None} :
          LoadCommand(m, ifc, raw)
    \/ UnloadCommand
    \/ SwitchModule
    \/ ExitWithModule
    \/ ExitWithoutModule
    \/ \E ifc \in Interfaces \cup {None} : SetDefaultInterface(ifc)
    \/ \E raw \in AttachArgs : SetDefaultAttachmentPoint(raw)
    \/ SetDefaultRestore

LoadStep ==
    \/ OpenObject \/ OpenFails
    \/ LoadObject \/ LoadObjectFails
    \/ AttachBegin \/ AttachImpossible
    \/ TcAttachOk \/ TcAttachFails \/ TcAttachDone
    \/ XdpAttachOk \/ XdpAttachFails
    \/ FinishLoad

UnloadStep ==
    \/ DetachBegin \/ DetachImpossible
    \/ TcDetachOk \/ TcDetachFails \/ TcDetachDone
    \/ TcDestroyOk("destroy ingress", "ingress", "destroy egress")
    \/ TcDestroyFails("destroy ingress", "destroy egress")
    \/ TcDestroyOk("destroy egress", "egress", "close")
    \/ TcDestroyFails("destroy egress", "close")
    \/ XdpDetachOk \/ XdpDetachFails
    \/ CloseModule

Next == Command \/ LoadStep \/ UnloadStep \/ Crash \/ Restart

Spec == Init /\ [][Next]_vars

\* A command that has begun runs on: the thread is never blocked between two
\* calls of a load or an unload.
FairSpec == Spec /\ WF_vars(LoadStep \/ UnloadStep)
=============================================================================
