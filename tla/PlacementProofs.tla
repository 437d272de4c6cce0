---------------------------- MODULE PlacementProofs ----------------------------
(***************************************************************************)
(* Where programs are when nothing goes wrong that would strand them: no   *)
(* hook runs a program nobody owns, and a module reported as loaded is in  *)
(* every hook it was asked for; for any modules, interfaces and arguments, *)
(* and any faults but those named.                                         *)
(***************************************************************************)
EXTENDS LoaderProofs

\* What strands a program: a detach that cannot find it or fails, a process
\* that is killed, and attachment points that change under a loaded module.
NothingStrands ==
    /\ \A f \in {"elf", "program", "tc_hook_destroy", "xdp_detach", "crash"} : f \notin Faults
    /\ "set-default attachment-point" \notin UserCommands

Clean == \A s \in Slots : hooks[s] = None

\* A program in a hook is the object's; in a TC hook it was put where there is a
\* qdisc and some TC point is active, and as XDP in the slot the flags select.
OwnOnly == \A s \in Slots : hooks[s] \in {None, object}
FoundAgain ==
    \A s \in Slots : hooks[s] # None =>
        /\ s[2] \in TcPoints => tc_attach_points # {} /\ s[1] \in clsact
        /\ s[2] \in XdpModes => s = XdpSlot /\ OneMode(xdp_attach_point)

\* The hooks are empty before the first attach and after the last detach.
CleanStages ==
    /\ pc \in {"open", "load", "attach", "xdp attach", "close"} => Clean
    /\ pc = "destroy egress" => hooks[<<ifindex, "ingress">>] = None
BranchTaken ==
    /\ pc \in {"tc detach", "destroy ingress", "destroy egress"} => Kind[module_name] = "tc"
    /\ pc = "xdp detach" => Kind[module_name] = "xdp"
    /\ pc = "tc attach" => tc_attach_points # {}

GhostInv == OwnOnly /\ FoundAgain /\ CleanStages /\ BranchTaken

-----------------------------------------------------------------------------

\* Clean hooks satisfy what is said of programs in hooks.
LEMMA CleanSuffices == Clean => OwnOnly /\ FoundAgain
  BY DEF Clean, OwnOnly, FoundAgain

LEMMA GhostInit == Init => GhostInv
<1>1. Init => Clean
  BY DEF Init, Clean
<1> QED
  BY <1>1, CleanSuffices DEF Init, GhostInv, CleanStages, BranchTaken

\* What is known of a hook that is not empty.
LEMMA Occupied ==
    ASSUME IInv, GhostInv, NEW s \in Slots, hooks[s] # None
    PROVE  /\ hooks[s] = object /\ object # None
           /\ ifindex \in Interfaces /\ s = <<ifindex, s[2]>>
           /\ \/ /\ s[2] \in TcPoints /\ Kind[module_name] = "tc"
                 /\ tc_attach_points # {} /\ ifindex \in clsact
              \/ /\ s[2] \in XdpModes /\ Kind[module_name] = "xdp"
                 /\ s = XdpSlot /\ OneMode(xdp_attach_point)
<1>1. hooks[s] = object /\ object # None
  BY DEF GhostInv, OwnOnly
<1>2. s[1] \in Interfaces /\ s = <<s[1], s[2]>> /\ (s[2] \in TcPoints \/ s[2] \in XdpModes)
  BY DEF Slots, Hooks
<1>3. PlacedOnInterface
  BY DEF IInv, Safe
<1>4. /\ s[1] = ifindex
      /\ s[2] \in TcPoints => Kind[module_name] = "tc"
      /\ s[2] \in XdpModes => Kind[module_name] = "xdp"
  BY <1>1, <1>3 DEF PlacedOnInterface
<1>5. /\ s[2] \in TcPoints => tc_attach_points # {} /\ s[1] \in clsact
      /\ s[2] \in XdpModes => s = XdpSlot /\ OneMode(xdp_attach_point)
  BY DEF GhostInv, FoundAgain
<1> QED
  BY <1>1, <1>2, <1>4, <1>5

\* What OwnOnly, FoundAgain and CleanStages speak of.
placing == <<hooks, object, ifindex, clsact, tc_attach_points, xdp_attach_point, module_name>>

LEMMA PlacingFrame ==
    ASSUME GhostInv, UNCHANGED placing
    PROVE  OwnOnly' /\ FoundAgain'
<1>1. XdpSlot' = XdpSlot
  BY DEF placing, XdpSlot
<1> QED
  BY <1>1 DEF GhostInv, placing, OwnOnly, FoundAgain, OneMode

\* A step that stays where it is or goes where nothing is claimed.
LEMMA GhostFrame ==
    ASSUME GhostInv, UNCHANGED placing,
           pc' = pc \/ pc' \in {"ready", "exited", "detach", "finish"}
    PROVE  GhostInv'
<1>1. CleanStages' /\ BranchTaken'
  BY DEF GhostInv, placing, CleanStages, BranchTaken, Clean
<1> QED
  BY <1>1, PlacingFrame DEF GhostInv

\* A step from clean hooks to clean hooks.
LEMMA GhostClean ==
    ASSUME Clean, UNCHANGED hooks,
           pc' \in {"ready", "exited", "open", "load", "attach", "xdp attach", "close"}
    PROVE  GhostInv'
<1>1. Clean'
  BY DEF Clean
<1>2. OwnOnly' /\ FoundAgain'
  BY <1>1 DEF Clean, OwnOnly, FoundAgain
<1> QED
  BY <1>1, <1>2 DEF GhostInv, CleanStages, BranchTaken

\* A step that empties the last hook.
LEMMA GhostEmptied == ASSUME Clean', pc' = "close" PROVE GhostInv'
<1>1. OwnOnly' /\ FoundAgain'
  BY DEF Clean, OwnOnly, FoundAgain
<1> QED
  BY <1>1 DEF GhostInv, CleanStages, BranchTaken

\* A step that empties a hook of this interface.
LEMMA GhostLess ==
    ASSUME GhostInv, NEW t, hooks' = [hooks EXCEPT ![t] = None], hooks \in [Slots -> ObjectOrNone],
           UNCHANGED <<object, ifindex, clsact, tc_attach_points, xdp_attach_point>>
    PROVE  OwnOnly' /\ FoundAgain'
<1>1. \A s \in Slots : hooks'[s] = None \/ hooks'[s] = hooks[s]
  OBVIOUS
<1>2. XdpSlot' = XdpSlot
  BY DEF XdpSlot
<1> QED
  BY <1>1, <1>2 DEF GhostInv, OwnOnly, FoundAgain, OneMode

-----------------------------------------------------------------------------
(* Commands.                                                               *)

LEMMA GhostCommand ==
    ASSUME NothingStrands, IInv, GhostInv, Command
    PROVE  GhostInv'
<1>1. ASSUME NEW m \in Modules, NEW ifc \in Interfaces \cup {None}, NEW raw \in AttachArgs \cup {None},
             LoadCommand(m, ifc, raw)
      PROVE  GhostInv'
  <2>1. object = None
    BY <1>1 DEF LoadCommand, IInv, Safe, LoadedHasName
  <2>2. Clean
    BY <2>1 DEF GhostInv, OwnOnly, Clean
  <2> QED
    BY <1>1, <2>2, GhostClean DEF LoadCommand, kernel
<1>2. ASSUME NEW raw \in AttachArgs, SetDefaultAttachmentPoint(raw) PROVE GhostInv'
  BY <1>2 DEF NothingStrands, SetDefaultAttachmentPoint
<1>3. ASSUME NEW ifc \in Interfaces \cup {None}, SetDefaultInterface(ifc) PROVE GhostInv'
  BY <1>3, GhostFrame DEF SetDefaultInterface, placing, bpf, interface, kernel
<1>4. CASE LoadAlreadyLoaded \/ LoadRefused
  BY <1>4, GhostFrame DEF LoadAlreadyLoaded, LoadRefused, placing, bpf, interface, kernel
<1>5. CASE UnloadCommand \/ SwitchModule \/ ExitWithModule
  BY <1>5, GhostFrame DEF UnloadCommand, SwitchModule, ExitWithModule, BeginUnload,
     placing, bpf, interface, kernel
<1>6. CASE ExitWithoutModule \/ SetDefaultRestore
  BY <1>6, GhostFrame DEF ExitWithoutModule, SetDefaultRestore, placing, bpf, interface, kernel
<1> QED
  BY <1>1, <1>2, <1>3, <1>4, <1>5, <1>6 DEF Command

-----------------------------------------------------------------------------
(* Loading.                                                                *)

LEMMA GhostTcAttach == ASSUME IInv, GhostInv, TcAttachOk PROVE GhostInv'
<1>1. /\ pc = "tc attach" /\ pc' = pc /\ i < n
      /\ hooks' = [hooks EXCEPT ![Slot] = object] /\ clsact' = clsact \cup {ifindex}
      /\ UNCHANGED <<object, ifindex, tc_attach_points, xdp_attach_point, module_name>>
  BY DEF TcAttachOk, bpf, interface
<1>2. /\ hooks \in [Slots -> ObjectOrNone] /\ tc_attach_points # {}
      /\ i \in 0..2 /\ n \in 0..Len(Points(tc_attach_points))
  BY <1>1 DEF IInv, TypeOK, KernelTypes, LoopTypes, Phases, LoopPhase, GhostInv, BranchTaken
<1>3. Slot = <<ifindex, Point>> /\ Point \in TcPoints /\ Point \notin XdpModes
  BY <1>1, <1>2, PointType, Families DEF Slot
<1>4. \A s \in Slots : hooks'[s] = IF s = Slot THEN object ELSE hooks[s]
  BY <1>1, <1>2
<1>5. OwnOnly'
  BY <1>1, <1>4 DEF GhostInv, OwnOnly
<1>6. FoundAgain'
  <2>1. XdpSlot' = XdpSlot
    BY <1>1 DEF XdpSlot
  <2>2. Slot[1] = ifindex /\ Slot[2] = Point
    BY <1>3
  <2>3. ASSUME NEW s \in Slots, hooks'[s] # None
        PROVE  /\ s[2] \in TcPoints => tc_attach_points # {} /\ s[1] \in clsact'
               /\ s[2] \in XdpModes => s = XdpSlot /\ OneMode(xdp_attach_point)
    <3>1. CASE s = Slot
      BY <1>1, <1>2, <1>3, <2>2, <3>1
    <3>2. CASE s # Slot
      <4>1. hooks[s] # None
        BY <1>4, <2>3, <3>2
      <4> QED
        BY <1>1, <4>1 DEF GhostInv, FoundAgain
    <3> QED
      BY <3>1, <3>2
  <2> QED
    BY <1>1, <2>1, <2>3 DEF FoundAgain, OneMode
<1> QED
  BY <1>1, <1>2, <1>5, <1>6 DEF GhostInv, CleanStages, BranchTaken

LEMMA GhostXdpAttach == ASSUME IInv, GhostInv, XdpAttachOk PROVE GhostInv'
<1>1. /\ pc = "xdp attach" /\ pc' = "finish" /\ OneMode(xdp_attach_point)
      /\ hooks' = [hooks EXCEPT ![XdpSlot] = object]
      /\ UNCHANGED <<object, ifindex, clsact, tc_attach_points, xdp_attach_point, module_name>>
  BY DEF XdpAttachOk, XdpAttachable, bpf, interface
<1>2. hooks \in [Slots -> ObjectOrNone] /\ xdp_attach_point \subseteq XdpModes /\ Clean
  BY <1>1 DEF IInv, TypeOK, KernelTypes, InterfaceTypes, GhostInv, CleanStages
<1>3. XdpSlot[2] \in XdpModes /\ XdpSlot[2] \notin TcPoints
  BY <1>2, ModeType, Families DEF XdpSlot
<1>4. \A s \in Slots : hooks'[s] = IF s = XdpSlot THEN object ELSE None
  BY <1>1, <1>2 DEF Clean
<1>5. XdpSlot' = XdpSlot
  BY <1>1 DEF XdpSlot
<1>6. OwnOnly' /\ FoundAgain'
  BY <1>1, <1>3, <1>4, <1>5 DEF OwnOnly, FoundAgain, OneMode
<1> QED
  BY <1>1, <1>6 DEF GhostInv, CleanStages, BranchTaken

LEMMA GhostLoad == ASSUME IInv, GhostInv, LoadStep PROVE GhostInv'
<1>1. CASE OpenObject \/ OpenFails
  BY <1>1, GhostClean DEF OpenObject, OpenFails, kernel, GhostInv, CleanStages
<1>2. CASE LoadObject \/ LoadObjectFails
  BY <1>2, GhostClean DEF LoadObject, LoadObjectFails, AbortLoad, kernel, GhostInv, CleanStages
<1>3. CASE AttachImpossible \/ XdpAttachFails
  BY <1>3, GhostClean DEF AttachImpossible, XdpAttachFails, AbortLoad, kernel, GhostInv, CleanStages
<1>4. CASE AttachBegin
  <2>1. Clean /\ hooks' = hooks /\ tc_attach_points' = tc_attach_points
    BY <1>4 DEF AttachBegin, kernel, GhostInv, CleanStages
  <2>2. CASE pc' = "xdp attach"
    BY <2>1, <2>2, GhostClean
  <2>3. CASE pc' = "tc attach" /\ tc_attach_points # {}
    <3>1. OwnOnly' /\ FoundAgain'
      BY <2>1 DEF Clean, OwnOnly, FoundAgain
    <3> QED
      BY <2>1, <2>3, <3>1 DEF GhostInv, CleanStages, BranchTaken
  <2> QED
    BY <1>4, <2>2, <2>3 DEF AttachBegin
<1>5. CASE TcAttachFails
  <2>1. /\ UNCHANGED <<hooks, object, ifindex, tc_attach_points, xdp_attach_point, module_name, pc>>
        /\ clsact \subseteq clsact'
    BY <1>5 DEF TcAttachFails, bpf, interface
  <2>2. XdpSlot' = XdpSlot
    BY <2>1 DEF XdpSlot
  <2>3. OwnOnly' /\ FoundAgain'
    BY <2>1, <2>2 DEF GhostInv, OwnOnly, FoundAgain, OneMode
  <2> QED
    BY <2>1, <2>3 DEF GhostInv, CleanStages, BranchTaken, Clean
<1>6. CASE TcAttachDone \/ FinishLoad
  BY <1>6, GhostFrame DEF TcAttachDone, FinishLoad, placing, bpf, interface, kernel
<1> QED
  BY <1>1, <1>2, <1>3, <1>4, <1>5, <1>6, GhostTcAttach, GhostXdpAttach DEF LoadStep
-----------------------------------------------------------------------------
(* Unloading.                                                              *)

\* With a failing call excluded, an unload gives up only where there is nothing
\* to detach.
LEMMA GhostImpossible == ASSUME NothingStrands, IInv, GhostInv, DetachImpossible PROVE GhostInv'
<1>1. /\ pc' = "close" /\ hooks' = hooks
      /\ \/ ifindex = None \/ object = None
         \/ Kind[module_name] = "tc" /\ tc_attach_points = {}
         \/ Kind[module_name] = "other"
  BY DEF DetachImpossible, kernel, NothingStrands
<1>2. ASSUME NEW s \in Slots, hooks[s] # None PROVE FALSE
  <2>1. /\ object # None /\ ifindex \in Interfaces
        /\ \/ Kind[module_name] = "tc" /\ tc_attach_points # {}
           \/ Kind[module_name] = "xdp"
    BY <1>2, Occupied
  <2>2. ifindex # None
    BY <2>1, NoneAssumption
  <2> QED
    BY <1>1, <2>1, <2>2
<1>3. Clean
  BY <1>2 DEF Clean
<1> QED
  BY <1>1, <1>3, GhostClean

\* The step out of the flush of the ingress.
LEMMA GhostIngress ==
    ASSUME NothingStrands, IInv, GhostInv,
           \/ TcDestroyOk("destroy ingress", "ingress", "destroy egress")
           \/ TcDestroyFails("destroy ingress", "destroy egress")
    PROVE  GhostInv'
<1>1. /\ pc = "destroy ingress" /\ pc' = "destroy egress"
      /\ UNCHANGED <<object, ifindex, clsact, tc_attach_points, xdp_attach_point, module_name>>
  BY DEF TcDestroyOk, TcDestroyFails, bpf, interface, kernel
<1>2. hooks \in [Slots -> ObjectOrNone] /\ ifindex \in Interfaces /\ Kind[module_name] = "tc"
  BY <1>1 DEF IInv, TypeOK, KernelTypes, Phases, UnloadPhase, Detaching, GhostInv, BranchTaken
<1>3. <<ifindex, "ingress">> \in Slots
  BY <1>2 DEF Slots, Hooks, TcPoints
<1>4. OwnOnly' /\ FoundAgain' /\ hooks'[<<ifindex, "ingress">>] = None
  <2>1. CASE TcDestroyOk("destroy ingress", "ingress", "destroy egress")
    <3>1. hooks' = [hooks EXCEPT ![<<ifindex, "ingress">>] = None]
      BY <2>1 DEF TcDestroyOk
    <3> QED
      BY <1>1, <1>2, <1>3, <3>1, GhostLess
  <2>2. CASE TcDestroyFails("destroy ingress", "destroy egress")
    <3>1. ifindex \notin clsact /\ hooks' = hooks
      BY <2>2 DEF TcDestroyFails, kernel, NothingStrands
    <3>2. hooks[<<ifindex, "ingress">>] = None
      <4> SUFFICES ASSUME hooks[<<ifindex, "ingress">>] # None PROVE FALSE
        OBVIOUS
      <4>1. ifindex \in clsact \/ Kind[module_name] = "xdp"
        BY <1>3, Occupied
      <4> QED
        BY <1>2, <3>1, <4>1
    <3> QED
      BY <1>1, <3>1, <3>2, PlacingFrame DEF placing
  <2> QED
    BY <2>1, <2>2
<1> QED
  BY <1>1, <1>2, <1>4 DEF GhostInv, CleanStages, BranchTaken

\* The flush of the egress empties the last hook.
LEMMA GhostEgress ==
    ASSUME NothingStrands, IInv, GhostInv,
           \/ TcDestroyOk("destroy egress", "egress", "close")
           \/ TcDestroyFails("destroy egress", "close")
    PROVE  GhostInv'
<1>1. /\ pc = "destroy egress" /\ pc' = "close"
      /\ \/ hooks' = [hooks EXCEPT ![<<ifindex, "egress">>] = None]
         \/ ifindex \notin clsact /\ hooks' = hooks
  BY DEF TcDestroyOk, TcDestroyFails, kernel, NothingStrands
<1>2. /\ hooks \in [Slots -> ObjectOrNone] /\ Kind[module_name] = "tc"
      /\ hooks[<<ifindex, "ingress">>] = None
  BY <1>1 DEF IInv, TypeOK, KernelTypes, GhostInv, BranchTaken, CleanStages
<1>3. ASSUME NEW s \in Slots, hooks[s] # None PROVE hooks'[s] = None
  <2>1. s = <<ifindex, s[2]>> /\ s[2] \in TcPoints /\ ifindex \in clsact
    BY <1>2, <1>3, Occupied
  <2>2. s[2] = "egress"
    BY <1>2, <1>3, <2>1 DEF TcPoints
  <2>3. s = <<ifindex, "egress">> /\ hooks' = [hooks EXCEPT ![<<ifindex, "egress">>] = None]
    BY <1>1, <2>1, <2>2
  <2> QED
    BY <1>2, <2>3
<1>4. ASSUME NEW s \in Slots, hooks[s] = None PROVE hooks'[s] = None
  BY <1>1, <1>2, <1>4
<1>5. Clean'
  BY <1>3, <1>4 DEF Clean
<1> QED
  BY <1>1, <1>5, GhostEmptied

\* bpf_xdp_detach empties the only slot there is to empty.
LEMMA GhostXdpDetach ==
    ASSUME NothingStrands, IInv, GhostInv, XdpDetachOk \/ XdpDetachFails
    PROVE  GhostInv'
<1>1. /\ pc = "xdp detach" /\ pc' = "close"
      /\ \/ hooks' = [hooks EXCEPT ![XdpSlot] = None]
         \/ ~OneMode(xdp_attach_point) /\ hooks' = hooks
  BY DEF XdpDetachOk, XdpDetachFails, kernel, NothingStrands
<1>2. hooks \in [Slots -> ObjectOrNone] /\ Kind[module_name] = "xdp"
  BY <1>1 DEF IInv, TypeOK, KernelTypes, GhostInv, BranchTaken
<1>3. ASSUME NEW s \in Slots, hooks[s] # None PROVE hooks'[s] = None
  <2>1. s = XdpSlot /\ OneMode(xdp_attach_point)
    BY <1>2, <1>3, Occupied
  <2> QED
    BY <1>1, <1>2, <2>1
<1>4. ASSUME NEW s \in Slots, hooks[s] = None PROVE hooks'[s] = None
  BY <1>1, <1>2, <1>4
<1>5. Clean'
  BY <1>3, <1>4 DEF Clean
<1> QED
  BY <1>1, <1>5, GhostEmptied

LEMMA GhostUnload == ASSUME NothingStrands, IInv, GhostInv, UnloadStep PROVE GhostInv'
<1>1. CASE DetachBegin
  <2>1. /\ UNCHANGED placing
        /\ \/ pc' = "tc detach" /\ Kind[module_name] = "tc"
           \/ pc' = "xdp detach" /\ Kind[module_name] = "xdp"
    BY <1>1 DEF DetachBegin, placing, bpf, interface, kernel
  <2> QED
    BY <2>1, PlacingFrame DEF placing, GhostInv, CleanStages, BranchTaken
<1>2. CASE TcDetachOk
  <2>1. /\ pc' = pc /\ pc = "tc detach" /\ hooks' = [hooks EXCEPT ![Slot] = None]
        /\ UNCHANGED <<object, ifindex, clsact, tc_attach_points, xdp_attach_point, module_name>>
    BY <1>2 DEF TcDetachOk, bpf, interface
  <2>2. hooks \in [Slots -> ObjectOrNone]
    BY DEF IInv, TypeOK, KernelTypes
  <2> QED
    BY <2>1, <2>2, GhostLess DEF GhostInv, CleanStages, BranchTaken
<1>3. CASE TcDetachFails
  BY <1>3, GhostFrame DEF TcDetachFails, placing, bpf, interface, kernel
<1>4. CASE TcDetachDone
  <2>1. UNCHANGED placing /\ pc = "tc detach" /\ pc' = "destroy ingress"
    BY <1>4 DEF TcDetachDone, placing, bpf, interface, kernel
  <2> QED
    BY <2>1, PlacingFrame DEF placing, GhostInv, CleanStages, BranchTaken
<1>5. CASE CloseModule
  <2>1. Clean /\ hooks' = hooks /\ pc' \in {"ready", "exited"}
    BY <1>5 DEF CloseModule, kernel, GhostInv, CleanStages
  <2> QED
    BY <2>1, GhostClean
<1> QED
  BY <1>1, <1>2, <1>3, <1>4, <1>5, GhostImpossible, GhostIngress, GhostEgress, GhostXdpDetach
  DEF UnloadStep

LEMMA GhostNext == ASSUME NothingStrands, IInv, GhostInv, [Next]_vars PROVE GhostInv'
<1>1. CASE Crash
  BY <1>1 DEF Crash, NothingStrands
<1>2. CASE Restart
  <2>1. object = None /\ hooks' = hooks /\ pc' = "ready"
    BY <1>2 DEF Restart, kernel, IInv, Phases, UnloadPhase
  <2>2. Clean
    BY <2>1 DEF GhostInv, OwnOnly, Clean
  <2> QED
    BY <2>1, <2>2, GhostClean
<1>3. CASE UNCHANGED vars
  BY <1>3, GhostFrame DEF vars, placing, bpf, interface, kernel
<1> QED
  BY <1>1, <1>2, <1>3, GhostCommand, GhostLoad, GhostUnload DEF Next

LEMMA GhostAlways == ASSUME NothingStrands PROVE Spec => []GhostInv
<1>1. IInv /\ GhostInv /\ [Next]_vars => GhostInv'
  BY GhostNext
<1> QED
  BY GhostInit, IInvAlways, <1>1, PTL DEF Spec

\* If nothing strands a program, then whatever else fails, however often and with
\* whatever attachment points modules are loaded, switched and unloaded, no hook
\* runs a program once no module is loaded.
THEOREM NoGhostsRemain == ASSUME NothingStrands PROVE Spec => []NoGhosts
<1>1. GhostInv => NoGhosts
  BY DEF GhostInv, OwnOnly, NoGhosts
<1> QED
  BY GhostAlways, <1>1, PTL
-----------------------------------------------------------------------------
(* A load that reports success.                                            *)

TcCallsWork == "tc_hook_create" \notin Faults /\ "tc_attach" \notin Faults

\* points[] of the loops: what iteration j is about.
P(j) == Points(tc_attach_points)[j]
Last == Len(Points(tc_attach_points))

\* The loop has filled the hooks of the iterations done and no other; at the end
\* the program is everywhere it should be.
LoopFills ==
    pc = "tc attach" =>
        /\ n = Last
        /\ \A j \in 1..n : hooks[<<ifindex, P(j)>>] = IF j <= i THEN object ELSE None
AllFilled ==
    IF Kind[module_name] = "tc" THEN \A p \in tc_attach_points : hooks[<<ifindex, p>>] = object
    ELSE hooks[XdpSlot] = object
AttachInv == LoopFills /\ (pc = "finish" => AllFilled)

LEMMA Appended ==
    ASSUME NEW a, NEW b
    PROVE  /\ Len(<<a>> \o <<b>>) = 2
           /\ (<<a>> \o <<b>>)[1] = a /\ (<<a>> \o <<b>>)[2] = b
  OBVIOUS

\* Each point active is in the array once.
LEMMA PointsOnce ==
    ASSUME NEW flags \in SUBSET TcPoints
    PROVE  /\ \A p \in flags : \E j \in 1..Len(Points(flags)) : Points(flags)[j] = p
           /\ \A j, k \in 1..Len(Points(flags)) : j # k => Points(flags)[j] # Points(flags)[k]
<1>1. flags = {} \/ flags = {"ingress"} \/ flags = {"egress"} \/ flags = {"ingress", "egress"}
  BY DEF TcPoints
<1>2. CASE flags = {}
  <2>1. Points(flags) = <<>>
    BY <1>2 DEF Points
  <2> QED
    BY <1>2, <2>1
<1>3. CASE flags = {"ingress"}
  <2>1. Points(flags) = <<"ingress">>
    BY <1>3 DEF Points
  <2> QED
    BY <1>3, <2>1
<1>4. CASE flags = {"egress"}
  <2>1. Points(flags) = <<"egress">>
    BY <1>4 DEF Points
  <2> QED
    BY <1>4, <2>1
<1>5. CASE flags = {"ingress", "egress"}
  <2>1. Points(flags) = <<"ingress">> \o <<"egress">>
    BY <1>5 DEF Points
  <2>2. /\ Len(Points(flags)) = 2
        /\ Points(flags)[1] = "ingress" /\ Points(flags)[2] = "egress"
    BY <2>1, Appended
  <2>3. 1..2 = {1, 2}
    OBVIOUS
  <2> QED
    BY <1>5, <2>2, <2>3
<1> QED
  BY <1>1, <1>2, <1>3, <1>4, <1>5

\* Arithmetic of one iteration.
LEMMA Counting ==
    ASSUME NEW k \in 0..2, NEW m \in 0..2
    PROVE  /\ k < m => k + 1 \in 1..m /\ ~(k + 1 <= k)
           /\ \A j \in 1..m : j # k + 1 => (j <= k <=> j <= k + 1)
           /\ k + 1 <= k + 1
           /\ k >= m => \A j \in 1..m : j <= k
  OBVIOUS

LEMMA AttachElsewhere == ASSUME pc' \notin {"tc attach", "finish"} PROVE AttachInv'
  BY DEF AttachInv, LoopFills

LEMMA AttachKept ==
    ASSUME AttachInv, UNCHANGED <<placing, pc, n, i>>
    PROVE  AttachInv'
<1>1. XdpSlot' = XdpSlot
  BY DEF placing, XdpSlot
<1> QED
  BY <1>1 DEF AttachInv, LoopFills, AllFilled, P, Last, placing

LEMMA AttachBegun == ASSUME IInv, GhostInv, AttachBegin PROVE AttachInv'
<1>1. CASE pc' = "xdp attach"
  BY <1>1, AttachElsewhere
<1>2. CASE pc' = "tc attach"
  <2>1. /\ Clean /\ hooks' = hooks /\ tc_attach_points' = tc_attach_points
        /\ ifindex' \in Interfaces /\ n' = Len(Points(tc_attach_points)) /\ i' = 0
    BY <1>2 DEF AttachBegin, kernel, GhostInv, CleanStages, IInv, Phases, LoadPhase, Loading
  <2>2. Last' = Len(Points(tc_attach_points)) /\ \A j : P(j)' = Points(tc_attach_points)[j]
    BY <2>1 DEF Last, P
  <2>3. ASSUME NEW j \in 1..n' PROVE hooks'[<<ifindex', P(j)'>>] = None /\ ~(j <= i')
    <3>1. P(j)' \in TcPoints
      BY <2>1, <2>2, PointsFacts
    <3>2. <<ifindex', P(j)'>> \in Slots
      BY <2>1, <3>1 DEF Slots, Hooks
    <3> QED
      BY <2>1, <3>2 DEF Clean
  <2> QED
    BY <1>2, <2>1, <2>2, <2>3 DEF AttachInv, LoopFills
<1> QED
  BY <1>1, <1>2 DEF AttachBegin

\* What the loop knows at the start of an iteration.
LEMMA Iteration ==
    ASSUME IInv, AttachInv, pc = "tc attach"
    PROVE  /\ n = Last /\ n \in 0..2 /\ i \in 0..2 /\ ifindex \in Interfaces
           /\ \A j \in 1..n : /\ P(j) \in TcPoints /\ <<ifindex, P(j)>> \in Slots
                              /\ hooks[<<ifindex, P(j)>>] = IF j <= i THEN object ELSE None
           /\ \A j, k \in 1..n : j # k => P(j) # P(k)
           /\ i < n => i + 1 \in 1..n /\ ~(i + 1 <= i) /\ Slot = <<ifindex, P(i + 1)>>
<1>1. n = Last /\ \A j \in 1..n : hooks[<<ifindex, P(j)>>] = IF j <= i THEN object ELSE None
  BY DEF AttachInv, LoopFills
<1>2. i \in 0..2 /\ ifindex \in Interfaces /\ tc_attach_points \in SUBSET TcPoints
  BY DEF IInv, TypeOK, LoopTypes, InterfaceTypes, Phases, LoadPhase
<1>3. n \in 0..2 /\ \A j \in 1..n : P(j) \in TcPoints
  BY <1>1, PointsFacts DEF Last, P
<1>4. \A j \in 1..n : <<ifindex, P(j)>> \in Slots
  BY <1>2, <1>3 DEF Slots, Hooks
<1>5. \A j, k \in 1..n : j # k => P(j) # P(k)
  BY <1>1, <1>2, PointsOnce DEF Last, P
<1>6. i < n => i + 1 \in 1..n /\ ~(i + 1 <= i) /\ Slot = <<ifindex, P(i + 1)>>
  BY <1>2, <1>3, Counting, Zenon DEF Slot, Point, P
<1> QED
  BY <1>1, <1>2, <1>3, <1>4, <1>5, <1>6

LEMMA AttachIterates == ASSUME IInv, AttachInv, TcAttachOk PROVE AttachInv'
<1>1. /\ pc = "tc attach" /\ pc' = pc /\ i < n /\ n' = n /\ i' = i + 1
      /\ hooks' = [hooks EXCEPT ![Slot] = object]
      /\ UNCHANGED <<object, ifindex, tc_attach_points>>
  BY DEF TcAttachOk, bpf, interface
<1>2. Last' = Last /\ \A j : P(j)' = P(j)
  BY <1>1 DEF Last, P
<1>3. hooks \in [Slots -> ObjectOrNone]
  BY DEF IInv, TypeOK, KernelTypes
<1>4. ASSUME NEW j \in 1..n
      PROVE  hooks'[<<ifindex, P(j)>>] = IF j <= i + 1 THEN object ELSE None
  <2>1. <<ifindex, P(j)>> \in Slots /\ Slot = <<ifindex, P(i + 1)>> /\ i + 1 \in 1..n
    BY <1>1, <1>4, Iteration
  <2>2. CASE j = i + 1
    <3>1. hooks'[<<ifindex, P(j)>>] = object
      BY <1>1, <1>3, <2>1, <2>2
    <3>2. j <= i + 1
      <4>1. i \in 0..2
        BY <1>1, Iteration
      <4> QED
        BY <4>1, <2>2
    <3> QED
      BY <3>1, <3>2
  <2>3. CASE j # i + 1
    <3>1. P(j) # P(i + 1)
      BY <1>1, <1>4, <2>1, <2>3, Iteration
    <3>2. hooks'[<<ifindex, P(j)>>] = hooks[<<ifindex, P(j)>>]
      BY <1>1, <1>3, <2>1, <3>1
    <3>3. hooks[<<ifindex, P(j)>>] = IF j <= i THEN object ELSE None
      BY <1>1, <1>4, Iteration
    <3>4. j <= i <=> j <= i + 1
      BY <1>1, <1>4, <2>3, Iteration, Counting, Zenon
    <3> QED
      BY <3>2, <3>3, <3>4
  <2> QED
    BY <2>2, <2>3
<1>5. n = Last
  BY <1>1, Iteration
<1> QED
  BY <1>1, <1>2, <1>4, <1>5 DEF AttachInv, LoopFills

LEMMA AttachNeverFails == ASSUME TcCallsWork, IInv, AttachInv, TcAttachFails PROVE FALSE
<1>1. pc = "tc attach" /\ i < n /\ hooks[Slot] # None
  BY DEF TcAttachFails, TcAttachable, TcCallsWork
<1> QED
  BY <1>1, Iteration

LEMMA AttachEnds == ASSUME IInv, AttachInv, TcAttachDone PROVE AttachInv'
<1>1. /\ pc = "tc attach" /\ pc' = "finish" /\ i >= n /\ Kind[module_name] = "tc"
      /\ UNCHANGED <<hooks, object, ifindex, tc_attach_points, module_name>>
  BY DEF TcAttachDone, bpf, interface, kernel, IInv, Phases, LoadPhase
<1>2. ASSUME NEW p \in tc_attach_points PROVE hooks[<<ifindex, p>>] = object
  <2>1. PICK j \in 1..n : P(j) = p
    <3>1. tc_attach_points \in SUBSET TcPoints
      BY DEF IInv, TypeOK, InterfaceTypes
    <3> QED
      BY <1>1, <1>2, <3>1, PointsOnce, Iteration DEF P, Last
  <2>2. j <= i
    BY <1>1, Iteration, Counting, Zenon
  <2> QED
    BY <1>1, <2>1, <2>2, Iteration
<1> QED
  BY <1>1, <1>2 DEF AttachInv, LoopFills, AllFilled

LEMMA AttachXdp == ASSUME IInv, XdpAttachOk PROVE AttachInv'
<1>1. /\ pc' = "finish" /\ Kind[module_name] = "xdp"
      /\ hooks' = [hooks EXCEPT ![XdpSlot] = object]
      /\ UNCHANGED <<object, ifindex, xdp_attach_point, module_name>>
  BY DEF XdpAttachOk, bpf, interface, IInv, Phases, LoadPhase
<1>2. /\ ifindex \in Interfaces /\ xdp_attach_point \in SUBSET XdpModes
      /\ hooks \in [Slots -> ObjectOrNone]
  BY DEF XdpAttachOk, IInv, TypeOK, InterfaceTypes, KernelTypes, Phases, LoadPhase
<1>3. XdpSlot \in Slots /\ XdpSlot' = XdpSlot
  BY <1>1, <1>2, ModeType DEF XdpSlot, Slots, Hooks
<1> QED
  BY <1>1, <1>2, <1>3 DEF AttachInv, LoopFills, AllFilled

LEMMA AttachNext ==
    ASSUME TcCallsWork, IInv, GhostInv, AttachInv, [Next]_vars
    PROVE  AttachInv'
<1>1. CASE Command
  BY <1>1, AttachElsewhere DEF Command, LoadAlreadyLoaded, LoadRefused, LoadCommand, UnloadCommand,
     SwitchModule, ExitWithModule, ExitWithoutModule, BeginUnload, SetDefaultInterface,
     SetDefaultAttachmentPoint, SetDefaultRestore
<1>2. CASE UnloadStep
  BY <1>2, AttachElsewhere DEF UnloadStep, DetachBegin, DetachImpossible, TcDetachOk, TcDetachFails,
     TcDetachDone, TcDestroyOk, TcDestroyFails, XdpDetachOk, XdpDetachFails, CloseModule
<1>3. CASE Crash \/ Restart
  BY <1>3, AttachElsewhere DEF Crash, Restart
<1>4. CASE \/ OpenObject \/ OpenFails \/ LoadObject \/ LoadObjectFails
           \/ AttachImpossible \/ XdpAttachFails \/ FinishLoad
  BY <1>4, AttachElsewhere DEF OpenObject, OpenFails, LoadObject, LoadObjectFails, AttachImpossible,
     XdpAttachFails, FinishLoad, AbortLoad
<1>5. CASE UNCHANGED vars
  BY <1>5, AttachKept DEF vars, placing, bpf, interface, kernel, locals
<1> QED
  BY <1>1, <1>2, <1>3, <1>4, <1>5, AttachBegun, AttachIterates, AttachNeverFails, AttachEnds,
     AttachXdp DEF Next, LoadStep

\* Only the end of a load reports it.
LEMMA ReportStep ==
    ASSUME AttachInv, [Next]_vars, report' = "loaded", report # "loaded"
    PROVE  AllFilled
<1>1. FinishLoad
  BY DEF Next, Command, LoadStep, UnloadStep, LoadAlreadyLoaded, LoadRefused, LoadCommand,
         UnloadCommand, SwitchModule, ExitWithModule, ExitWithoutModule, BeginUnload,
         SetDefaultInterface, SetDefaultAttachmentPoint, SetDefaultRestore, OpenObject, OpenFails,
         LoadObject, LoadObjectFails, AttachBegin, AttachImpossible, AbortLoad, TcAttachOk,
         TcAttachFails, TcAttachDone, XdpAttachOk, XdpAttachFails, DetachBegin, DetachImpossible,
         TcDetachOk, TcDetachFails, TcDetachDone, TcDestroyOk, TcDestroyFails, XdpDetachOk,
         XdpDetachFails, CloseModule, Crash, Restart, vars
<1> QED
  BY <1>1 DEF FinishLoad, AttachInv

\* If nothing strands a program and the two TC calls of an attach work, a load
\* that reports success has attached the program to every TC point asked for, or
\* to the XDP slot.
THEOREM LoadAttaches == ASSUME NothingStrands, TcCallsWork PROVE Spec => LoadedIsAttached
<1>1. Init => AttachInv
  BY DEF Init, AttachInv, LoopFills
<1>2. IInv /\ GhostInv /\ AttachInv /\ [Next]_vars => AttachInv'
  BY AttachNext
<1>3. AttachInv /\ [Next]_vars =>
        [ report' = "loaded" /\ report # "loaded" =>
            IF Kind[module_name] = "tc"
            THEN \A p \in tc_attach_points : hooks[<<ifindex, p>>] = object
            ELSE hooks[XdpSlot] = object ]_vars
  BY ReportStep DEF AllFilled
<1> QED
  BY <1>1, <1>2, <1>3, IInvAlways, GhostAlways, PTL DEF Spec, LoadedIsAttached
=============================================================================
