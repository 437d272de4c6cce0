----------------------------- MODULE LoaderProofs -----------------------------
(***************************************************************************)
(* The properties of the loader that hold in every instance, proved for    *)
(* any modules, interfaces, arguments, commands and faults: its types, the *)
(* safety invariants of LoaderProps, and that it implements HookOwnership. *)
(***************************************************************************)
EXTENDS LoaderProps, TLAPS

USE NoneAssumption, KindAssumption, XdpAssumption, ArgsAssumption

-----------------------------------------------------------------------------
(* The inductive invariant: what holds at each control point.              *)

\* Control points of a load that has opened its object, and of an unload that
\* has found its object and its interface.
Loading   == {"load", "attach", "tc attach", "xdp attach", "finish"}
Detaching == {"tc detach", "destroy ingress", "destroy egress", "xdp detach"}

\* Between the command and the finish of a load there is a name, an interface
\* and no map descriptor; nothing runs the new object before the attach loop,
\* which is entered for the hooks of the family the module has.
LoadPhase ==
    /\ pc = "open" => object = None
    /\ pc \in Loading => object # None
    /\ pc \in Loading \cup {"open"} =>
         /\ module_name \in Modules
         /\ interface_name \in Interfaces
         /\ stats_map_fd = None
    /\ pc \in {"load", "attach"} => \A s \in Slots : hooks[s] # object
    /\ pc \in {"tc attach", "xdp attach", "finish"} => ifindex \in Interfaces
    /\ pc = "tc attach" => Kind[module_name] = "tc"
    /\ pc = "xdp attach" => Kind[module_name] = "xdp"

\* During an unload the descriptors are still the object's.
UnloadPhase ==
    /\ pc \in Detaching \cup {"detach", "close"} => stats_map_fd = object
    /\ pc \in Detaching => object # None /\ ifindex \in Interfaces
    /\ pc = "exited" => object = None /\ stats_map_fd = None

\* The bounds of the loops.
LoopPhase ==
    /\ pc \in {"tc attach", "tc detach"} => n \in 0..Len(Points(tc_attach_points))
    /\ pc = "destroy ingress" => n \in 0..2
    /\ pc = "destroy egress" => n \in -1..2

Phases == LoadPhase /\ UnloadPhase /\ LoopPhase

IInv == TypeOK /\ Safe /\ Phases

-----------------------------------------------------------------------------
(* Lemmas about the vocabulary.                                            *)

LEMMA PointsFacts ==
    ASSUME NEW flags
    PROVE  /\ Len(Points(flags)) \in 0..2
           /\ \A j \in 1..Len(Points(flags)) : Points(flags)[j] \in TcPoints
<1> DEFINE first  == IF "ingress" \in flags THEN <<"ingress">> ELSE <<>>
           second == IF "egress" \in flags THEN <<"egress">> ELSE <<>>
<1>1. "ingress" \in TcPoints /\ "egress" \in TcPoints
  BY DEF TcPoints
<1>2. first \in Seq(TcPoints) /\ Len(first) \in 0..1
  BY <1>1
<1>3. second \in Seq(TcPoints) /\ Len(second) \in 0..1
  BY <1>1
<1> HIDE DEF first, second
<1>4. first \o second \in Seq(TcPoints) /\ Len(first \o second) = Len(first) + Len(second)
  BY <1>2, <1>3
<1>5. Points(flags) = first \o second
  BY DEF Points, first, second
<1> QED
  BY <1>2, <1>3, <1>4, <1>5

LEMMA FlagTypes == \A raw : TcOf(raw) \subseteq TcPoints /\ XdpOf(raw) \subseteq XdpModes
  BY DEF TcOf, XdpOf

\* The kernel always settles on a mode.
LEMMA ModeType ==
    ASSUME NEW ifc, NEW flags \in SUBSET XdpModes
    PROVE  ModeOf(ifc, flags) \in XdpModes
<1>1. CASE flags = {}
  BY <1>1 DEF ModeOf, XdpModes
<1>2. CASE flags # {}
  <2>1. \E mode \in XdpModes : mode \in flags
    BY <1>2
  <2>2. (CHOOSE mode \in XdpModes : mode \in flags) \in XdpModes
    BY <2>1
  <2> QED
    BY <1>2, <2>2 DEF ModeOf
<1> QED
  BY <1>1, <1>2

LEMMA Families == TcPoints \cap XdpModes = {} /\ Hooks = TcPoints \cup XdpModes
  BY DEF TcPoints, XdpModes, Hooks

\* The point of an iteration.
LEMMA PointType ==
    ASSUME i \in 0..2, n \in 0..Len(Points(tc_attach_points)), i < n
    PROVE  Point \in TcPoints
<1>1. i + 1 \in 1..Len(Points(tc_attach_points))
  BY PointsFacts
<1> QED
  BY <1>1, PointsFacts DEF Point

-----------------------------------------------------------------------------
(* The initial state.                                                      *)

LEMMA IInvInit == Init => IInv
<1> SUFFICES ASSUME Init PROVE IInv
  OBVIOUS
<1> USE DEF Init, FreshContext
<1>1. TypeOK
  BY DEF TypeOK, BpfTypes, InterfaceTypes, DefaultTypes, KernelTypes, LoopTypes,
         ControlTypes, ObjectOrNone, DefaultTc, DefaultXdp, TcPoints, XdpModes
<1>2. Safe
  BY DEF Safe, ObjectsOwned, MapFdsLive, LoadedHasName, PlacedOnInterface
<1>3. Phases
  BY DEF Phases, LoadPhase, UnloadPhase, LoopPhase, Loading, Detaching
<1> QED
  BY <1>1, <1>2, <1>3 DEF IInv

-----------------------------------------------------------------------------
(* Every step keeps the types.                                             *)

\* What a step leaves alone keeps its type.
LEMMA TypeFrame ==
    ASSUME TypeOK
    PROVE  /\ UNCHANGED bpf => BpfTypes'
           /\ UNCHANGED interface => InterfaceTypes'
           /\ UNCHANGED defaults => DefaultTypes'
           /\ UNCHANGED kernel => KernelTypes'
           /\ UNCHANGED <<n, i>> => LoopTypes'
           /\ UNCHANGED locals => LoopTypes' /\ caller' = caller
  BY DEF TypeOK, BpfTypes, InterfaceTypes, DefaultTypes, KernelTypes, LoopTypes,
         bpf, interface, defaults, kernel, locals

LEMMA TypeNext == IInv /\ [Next]_vars => TypeOK'
<1> SUFFICES ASSUME IInv, [Next]_vars PROVE TypeOK'
  OBVIOUS
<1>t. TypeOK
  BY DEF IInv
<1>p. LoadPhase /\ UnloadPhase /\ LoopPhase
  BY DEF IInv, Phases
<1>1. ASSUME NEW m \in Modules, NEW ifc \in Interfaces \cup {None}, NEW raw \in AttachArgs \cup {None},
             LoadCommand(m, ifc, raw)
      PROVE  TypeOK'
  <2>1. BpfTypes'
    BY <1>t, <1>1 DEF LoadCommand, TypeOK, BpfTypes
  <2>2. InterfaceTypes'
    BY <1>t, <1>1, FlagTypes DEF LoadCommand, TypeOK, InterfaceTypes, DefaultTypes
  <2> QED
    BY <1>t, <1>1, <2>1, <2>2, TypeFrame DEF LoadCommand, TypeOK, ControlTypes
<1>2. ASSUME NEW ifc \in Interfaces \cup {None}, SetDefaultInterface(ifc) PROVE TypeOK'
  BY <1>t, <1>2, TypeFrame DEF SetDefaultInterface, TypeOK, DefaultTypes, ControlTypes
<1>3. ASSUME NEW raw \in AttachArgs, SetDefaultAttachmentPoint(raw) PROVE TypeOK'
  BY <1>t, <1>3, TypeFrame, FlagTypes DEF SetDefaultAttachmentPoint, TypeOK, InterfaceTypes, ControlTypes
<1>4. CASE LoadAlreadyLoaded
  BY <1>t, <1>4, TypeFrame DEF LoadAlreadyLoaded, TypeOK, ControlTypes
<1>5. CASE LoadRefused
  BY <1>t, <1>5, TypeFrame DEF LoadRefused, TypeOK, ControlTypes
<1>6. CASE UnloadCommand
  BY <1>t, <1>6, TypeFrame DEF UnloadCommand, TypeOK, ControlTypes, BeginUnload
<1>7. CASE SwitchModule
  BY <1>t, <1>7, TypeFrame DEF SwitchModule, TypeOK, ControlTypes, BeginUnload
<1>8. CASE ExitWithModule
  BY <1>t, <1>8, TypeFrame DEF ExitWithModule, TypeOK, ControlTypes, BeginUnload
<1>9. CASE ExitWithoutModule
  BY <1>t, <1>9, TypeFrame DEF ExitWithoutModule, TypeOK, ControlTypes
<1>10. CASE SetDefaultRestore
  BY <1>t, <1>10, TypeFrame DEF SetDefaultRestore, TypeOK, ControlTypes, DefaultTypes, DefaultTc, DefaultXdp, TcPoints, XdpModes
<1>11. CASE OpenObject
  BY <1>t, <1>11, TypeFrame DEF OpenObject, TypeOK, ControlTypes, BpfTypes, ObjectOrNone, Fresh
<1>12. CASE OpenFails
  BY <1>t, <1>12, TypeFrame DEF OpenFails, TypeOK, ControlTypes, BpfTypes, ObjectOrNone
<1>13. CASE LoadObject
  BY <1>t, <1>13, TypeFrame DEF LoadObject, TypeOK, ControlTypes
<1>14. CASE LoadObjectFails
  BY <1>t, <1>14, TypeFrame DEF LoadObjectFails, TypeOK, ControlTypes, AbortLoad, BpfTypes, ObjectOrNone
<1>15. CASE AttachBegin
  <2>1. InterfaceTypes'
    BY <1>t, <1>15 DEF AttachBegin, TypeOK, InterfaceTypes
  <2>2. LoopTypes'
    <3>1. i' = 0 /\ (n' = 0 \/ n' = Len(Points(tc_attach_points)))
      BY <1>t, <1>15 DEF AttachBegin
    <3> QED
      BY <1>t, <3>1, PointsFacts DEF TypeOK, LoopTypes
  <2> QED
    BY <1>t, <1>15, <2>1, <2>2, TypeFrame DEF AttachBegin, TypeOK, ControlTypes
<1>16. CASE AttachImpossible
  <2>1. InterfaceTypes'
    BY <1>t, <1>16 DEF AttachImpossible, TypeOK, InterfaceTypes
  <2>2. BpfTypes'
    BY <1>t, <1>16 DEF AttachImpossible, AbortLoad, TypeOK, BpfTypes, ObjectOrNone
  <2> QED
    BY <1>t, <1>16, <2>1, <2>2, TypeFrame DEF AttachImpossible, AbortLoad, TypeOK, ControlTypes
<1>17. CASE TcAttachOk
  <2>1. KernelTypes'
    BY <1>t, <1>17, <1>p DEF TcAttachOk, TypeOK, KernelTypes, BpfTypes, LoadPhase
  <2>2. LoopTypes'
    <3>1. n' = n /\ i' = i + 1 /\ i < n
      BY <1>t, <1>17 DEF TcAttachOk
    <3> QED
      BY <1>t, <3>1, PointsFacts DEF TypeOK, LoopTypes
  <2> QED
    BY <1>t, <1>17, <2>1, <2>2, TypeFrame DEF TcAttachOk, TypeOK, ControlTypes
<1>18. CASE TcAttachFails
  <2>1. KernelTypes'
    BY <1>t, <1>18, <1>p DEF TcAttachFails, TypeOK, KernelTypes, LoadPhase
  <2>2. LoopTypes'
    <3>1. n' = n - 1 /\ i' = i + 1 /\ i < n /\ n \in 0..Len(Points(tc_attach_points))
      BY <1>t, <1>18, <1>p DEF TcAttachFails, LoopPhase
    <3> QED
      BY <1>t, <3>1, PointsFacts DEF TypeOK, LoopTypes
  <2> QED
    BY <1>t, <1>18, <2>1, <2>2, TypeFrame DEF TcAttachFails, TypeOK, ControlTypes
<1>19. CASE TcAttachDone
  BY <1>t, <1>19, TypeFrame DEF TcAttachDone, TypeOK, ControlTypes
<1>20. CASE XdpAttachOk
  <2>1. KernelTypes'
    BY <1>t, <1>20 DEF XdpAttachOk, TypeOK, KernelTypes, BpfTypes
  <2>2. LoopTypes'
    <3>1. n' = 1 /\ i' = i
      BY <1>t, <1>20 DEF XdpAttachOk
    <3> QED
      BY <1>t, <3>1, PointsFacts DEF TypeOK, LoopTypes
  <2> QED
    BY <1>t, <1>20, <2>1, <2>2, TypeFrame DEF XdpAttachOk, TypeOK, ControlTypes
<1>21. CASE XdpAttachFails
  BY <1>t, <1>21, TypeFrame DEF XdpAttachFails, TypeOK, ControlTypes, AbortLoad, BpfTypes, ObjectOrNone
<1>22. CASE FinishLoad
  <2>1. module_name \in Modules
    BY <1>t, <1>22, <1>p DEF FinishLoad, LoadPhase, Loading
  <2>2. BpfTypes'
    BY <1>t, <1>22, <2>1 DEF FinishLoad, TypeOK, BpfTypes
  <2> QED
    BY <1>t, <1>22, <2>2, TypeFrame DEF FinishLoad, TypeOK, ControlTypes
<1>23. CASE DetachBegin
  <2>1. LoopTypes'
    <3>1. i' = 0 /\ (n' = 0 \/ n' = Len(Points(tc_attach_points)))
      BY <1>t, <1>23 DEF DetachBegin
    <3> QED
      BY <1>t, <3>1, PointsFacts DEF TypeOK, LoopTypes
  <2> QED
    BY <1>t, <1>23, <2>1, TypeFrame DEF DetachBegin, TypeOK, ControlTypes
<1>24. CASE DetachImpossible
  <2>1. n' = -1 /\ i' = i
    BY <1>24 DEF DetachImpossible
  <2>2. LoopTypes'
    BY <1>t, <2>1 DEF TypeOK, LoopTypes
  <2> QED
    BY <1>t, <1>24, <2>2, TypeFrame DEF DetachImpossible, TypeOK, ControlTypes
<1>25. CASE TcDetachOk
  <2>1. KernelTypes'
    BY <1>t, <1>25 DEF TcDetachOk, TypeOK, KernelTypes, ObjectOrNone
  <2>2. LoopTypes'
    <3>1. n' = n /\ i' = i + 1 /\ i < n
      BY <1>t, <1>25 DEF TcDetachOk
    <3> QED
      BY <1>t, <3>1, PointsFacts DEF TypeOK, LoopTypes
  <2> QED
    BY <1>t, <1>25, <2>1, <2>2, TypeFrame DEF TcDetachOk, TypeOK, ControlTypes
<1>26. CASE TcDetachFails
  <2>1. LoopTypes'
    <3>1. n' = n - 1 /\ i' = i + 1 /\ i < n /\ n \in 0..Len(Points(tc_attach_points))
      BY <1>t, <1>26, <1>p DEF TcDetachFails, LoopPhase
    <3> QED
      BY <1>t, <3>1, PointsFacts DEF TypeOK, LoopTypes
  <2> QED
    BY <1>t, <1>26, <2>1, TypeFrame DEF TcDetachFails, TypeOK, ControlTypes
<1>27. CASE TcDetachDone
  BY <1>t, <1>27, TypeFrame DEF TcDetachDone, TypeOK, ControlTypes
<1>28. CASE TcDestroyOk("destroy ingress", "ingress", "destroy egress")
  <2>1. KernelTypes'
    BY <1>t, <1>28 DEF TcDestroyOk, TypeOK, KernelTypes, ObjectOrNone
  <2> QED
    BY <1>t, <1>28, <2>1, TypeFrame DEF TcDestroyOk, TypeOK, ControlTypes
<1>29. CASE TcDestroyOk("destroy egress", "egress", "close")
  <2>1. KernelTypes'
    BY <1>t, <1>29 DEF TcDestroyOk, TypeOK, KernelTypes, ObjectOrNone
  <2> QED
    BY <1>t, <1>29, <2>1, TypeFrame DEF TcDestroyOk, TypeOK, ControlTypes
<1>30. CASE TcDestroyFails("destroy ingress", "destroy egress")
  <2>1. LoopTypes'
    <3>1. n' = n - 1 /\ i' = i /\ n \in 0..2
      BY <1>t, <1>30, <1>p DEF TcDestroyFails, LoopPhase
    <3> QED
      BY <1>t, <3>1, PointsFacts DEF TypeOK, LoopTypes
  <2> QED
    BY <1>t, <1>30, <2>1, TypeFrame DEF TcDestroyFails, TypeOK, ControlTypes
<1>31. CASE TcDestroyFails("destroy egress", "close")
  <2>1. LoopTypes'
    <3>1. n' = n - 1 /\ i' = i /\ n \in -1..2
      BY <1>t, <1>31, <1>p DEF TcDestroyFails, LoopPhase
    <3> QED
      BY <1>t, <3>1, PointsFacts DEF TypeOK, LoopTypes
  <2> QED
    BY <1>t, <1>31, <2>1, TypeFrame DEF TcDestroyFails, TypeOK, ControlTypes
<1>32. CASE XdpDetachOk
  <2>1. KernelTypes'
    BY <1>t, <1>32 DEF XdpDetachOk, TypeOK, KernelTypes, ObjectOrNone
  <2>2. LoopTypes'
    <3>1. n' = 1 /\ i' = i
      BY <1>t, <1>32 DEF XdpDetachOk
    <3> QED
      BY <1>t, <3>1, PointsFacts DEF TypeOK, LoopTypes
  <2> QED
    BY <1>t, <1>32, <2>1, <2>2, TypeFrame DEF XdpDetachOk, TypeOK, ControlTypes
<1>33. CASE XdpDetachFails
  <2>1. n' = -1 /\ i' = i
    BY <1>33 DEF XdpDetachFails
  <2>2. LoopTypes'
    BY <1>t, <2>1 DEF TypeOK, LoopTypes
  <2> QED
    BY <1>t, <1>33, <2>2, TypeFrame DEF XdpDetachFails, TypeOK, ControlTypes
<1>34. CASE CloseModule
  BY <1>t, <1>34, TypeFrame DEF CloseModule, TypeOK, ControlTypes, BpfTypes, ObjectOrNone
<1>35. CASE Crash
  BY <1>t, <1>35, TypeFrame DEF Crash, TypeOK, ControlTypes, BpfTypes, ObjectOrNone
<1>36. CASE Restart
  <2>1. BpfTypes' /\ InterfaceTypes' /\ LoopTypes'
    BY <1>t, <1>36 DEF Restart, BpfTypes, InterfaceTypes, LoopTypes, ObjectOrNone
  <2>2. DefaultTypes'
    BY <1>t, <1>36 DEF Restart, DefaultTypes, DefaultTc, DefaultXdp, TcPoints, XdpModes
  <2> QED
    BY <1>t, <1>36, <2>1, <2>2, TypeFrame DEF Restart, TypeOK, ControlTypes
<1>37. CASE UNCHANGED vars
  BY <1>t, <1>37, TypeFrame DEF vars, TypeOK, ControlTypes
<1> QED
  BY <1>1, <1>2, <1>3, <1>4, <1>5, <1>6, <1>7, <1>8, <1>9, <1>10, <1>11,
     <1>12, <1>13, <1>14, <1>15, <1>16, <1>17, <1>18, <1>19, <1>20, <1>21,
     <1>22, <1>23, <1>24, <1>25, <1>26, <1>27, <1>28, <1>29, <1>30, <1>31,
     <1>32, <1>33, <1>34, <1>35, <1>36, <1>37
     DEF Next, Command, LoadStep, UnloadStep

-----------------------------------------------------------------------------
(* Every step keeps the safety invariants and the facts of the phases.     *)

\* What a step that touches neither the object nor a hook keeps.
LEMMA SafeFrame ==
    ASSUME Safe
    PROVE  /\ UNCHANGED bpf => ObjectsOwned' /\ LoadedHasName'
           /\ UNCHANGED <<bpf, hooks, ifindex>> => PlacedOnInterface'
  BY DEF Safe, ObjectsOwned, LoadedHasName, PlacedOnInterface, bpf

\* Without an object there is nothing to own, name or place.
LEMMA NoObject ==
    ASSUME object = None
    PROVE  LoadedHasName /\ PlacedOnInterface
  BY DEF LoadedHasName, PlacedOnInterface

LEMMA SafeNext == IInv /\ TypeOK' /\ [Next]_vars => Safe' /\ Phases'
<1> SUFFICES ASSUME IInv, TypeOK', [Next]_vars PROVE Safe' /\ Phases'
  OBVIOUS
<1> USE DEF bpf, interface, kernel, locals, Phases
<1>t. TypeOK
  BY DEF IInv
<1>s. Safe /\ ObjectsOwned /\ MapFdsLive /\ LoadedHasName /\ PlacedOnInterface
  BY DEF IInv, Safe
<1>p. LoadPhase /\ UnloadPhase /\ LoopPhase
  BY DEF IInv
<1>1. ASSUME NEW m \in Modules, NEW ifc \in Interfaces \cup {None}, NEW raw \in AttachArgs \cup {None},
             LoadCommand(m, ifc, raw)
      PROVE Safe' /\ Phases'
  <2>1. object = None /\ opened = {} /\ stats_map_fd = None
    BY <1>s, <1>1 DEF LoadCommand, LoadedHasName, ObjectsOwned, MapFdsLive
  <2>2. object' = None /\ opened' = {} /\ stats_map_fd' = None /\ config_map_fd' = config_map_fd
    BY <2>1, <1>1 DEF LoadCommand
  <2>3. ObjectsOwned' /\ LoadedHasName' /\ PlacedOnInterface'
    BY <2>2 DEF ObjectsOwned, LoadedHasName, PlacedOnInterface
  <2>4. interface_name' \in Interfaces
    BY <1>t, <1>1 DEF LoadCommand, TypeOK, DefaultTypes
  <2>5. MapFdsLive' /\ LoadPhase' /\ UnloadPhase' /\ LoopPhase'
    BY <1>s, <2>1, <2>2, <2>4, <1>1 DEF LoadCommand, MapFdsLive, LoadPhase, UnloadPhase, Loading, Detaching, LoopPhase
  <2> QED
    BY <2>3, <2>5 DEF Safe
<1>2. ASSUME NEW ifc \in Interfaces \cup {None}, SetDefaultInterface(ifc)
      PROVE Safe' /\ Phases'
  <2>1. ObjectsOwned' /\ LoadedHasName' /\ PlacedOnInterface'
    BY <1>s, <1>2, SafeFrame DEF SetDefaultInterface
  <2>2. MapFdsLive' /\ LoadPhase' /\ UnloadPhase'
    BY <1>s, <1>p, <1>2 DEF SetDefaultInterface, MapFdsLive, LoadPhase, UnloadPhase, Loading, Detaching
  <2>3. LoopPhase'
    BY <1>p, <1>2, PointsFacts DEF SetDefaultInterface, LoopPhase
  <2> QED
    BY <2>1, <2>2, <2>3 DEF Safe
<1>3. ASSUME NEW raw \in AttachArgs, SetDefaultAttachmentPoint(raw)
      PROVE Safe' /\ Phases'
  <2>1. ObjectsOwned' /\ LoadedHasName' /\ PlacedOnInterface'
    BY <1>s, <1>3, SafeFrame DEF SetDefaultAttachmentPoint
  <2>2. MapFdsLive' /\ LoadPhase' /\ UnloadPhase'
    BY <1>s, <1>p, <1>3 DEF SetDefaultAttachmentPoint, MapFdsLive, LoadPhase, UnloadPhase, Loading, Detaching
  <2>3. LoopPhase'
    BY <1>p, <1>3, PointsFacts DEF SetDefaultAttachmentPoint, LoopPhase
  <2> QED
    BY <2>1, <2>2, <2>3 DEF Safe
<1>4. CASE LoadAlreadyLoaded
  <2>1. ObjectsOwned' /\ LoadedHasName' /\ PlacedOnInterface'
    BY <1>s, <1>4, SafeFrame DEF LoadAlreadyLoaded
  <2>2. MapFdsLive' /\ LoadPhase' /\ UnloadPhase'
    BY <1>s, <1>p, <1>4 DEF LoadAlreadyLoaded, MapFdsLive, LoadPhase, UnloadPhase, Loading, Detaching
  <2>3. LoopPhase'
    BY <1>p, <1>4, PointsFacts DEF LoadAlreadyLoaded, LoopPhase
  <2> QED
    BY <2>1, <2>2, <2>3 DEF Safe
<1>5. CASE LoadRefused
  <2>1. ObjectsOwned' /\ LoadedHasName' /\ PlacedOnInterface'
    BY <1>s, <1>5, SafeFrame DEF LoadRefused
  <2>2. MapFdsLive' /\ LoadPhase' /\ UnloadPhase'
    BY <1>s, <1>p, <1>5 DEF LoadRefused, MapFdsLive, LoadPhase, UnloadPhase, Loading, Detaching
  <2>3. LoopPhase'
    BY <1>p, <1>5, PointsFacts DEF LoadRefused, LoopPhase
  <2> QED
    BY <2>1, <2>2, <2>3 DEF Safe
<1>6. CASE UnloadCommand
  <2>1. ObjectsOwned' /\ LoadedHasName' /\ PlacedOnInterface'
    BY <1>s, <1>6, SafeFrame DEF UnloadCommand, BeginUnload
  <2>2. MapFdsLive' /\ LoadPhase' /\ UnloadPhase'
    BY <1>s, <1>p, <1>6 DEF UnloadCommand, BeginUnload, MapFdsLive, LoadPhase, UnloadPhase, Loading, Detaching
  <2>3. LoopPhase'
    BY <1>p, <1>6, PointsFacts DEF UnloadCommand, BeginUnload, LoopPhase
  <2> QED
    BY <2>1, <2>2, <2>3 DEF Safe
<1>7. CASE SwitchModule
  <2>1. ObjectsOwned' /\ LoadedHasName' /\ PlacedOnInterface'
    BY <1>s, <1>7, SafeFrame DEF SwitchModule, BeginUnload
  <2>2. MapFdsLive' /\ LoadPhase' /\ UnloadPhase'
    BY <1>s, <1>p, <1>7 DEF SwitchModule, BeginUnload, MapFdsLive, LoadPhase, UnloadPhase, Loading, Detaching
  <2>3. LoopPhase'
    BY <1>p, <1>7, PointsFacts DEF SwitchModule, BeginUnload, LoopPhase
  <2> QED
    BY <2>1, <2>2, <2>3 DEF Safe
<1>8. CASE ExitWithModule
  <2>1. ObjectsOwned' /\ LoadedHasName' /\ PlacedOnInterface'
    BY <1>s, <1>8, SafeFrame DEF ExitWithModule, BeginUnload
  <2>2. MapFdsLive' /\ LoadPhase' /\ UnloadPhase'
    BY <1>s, <1>p, <1>8 DEF ExitWithModule, BeginUnload, MapFdsLive, LoadPhase, UnloadPhase, Loading, Detaching
  <2>3. LoopPhase'
    BY <1>p, <1>8, PointsFacts DEF ExitWithModule, BeginUnload, LoopPhase
  <2> QED
    BY <2>1, <2>2, <2>3 DEF Safe
<1>9. CASE ExitWithoutModule
  <2>1. ObjectsOwned' /\ LoadedHasName' /\ PlacedOnInterface'
    BY <1>s, <1>9, SafeFrame DEF ExitWithoutModule
  <2>2. MapFdsLive' /\ LoadPhase' /\ UnloadPhase'
    BY <1>s, <1>p, <1>9 DEF ExitWithoutModule, MapFdsLive, LoadPhase, UnloadPhase, Loading, Detaching
  <2>3. LoopPhase'
    BY <1>p, <1>9, PointsFacts DEF ExitWithoutModule, LoopPhase
  <2> QED
    BY <2>1, <2>2, <2>3 DEF Safe
<1>10. CASE SetDefaultRestore
  <2>1. ObjectsOwned' /\ LoadedHasName' /\ PlacedOnInterface'
    BY <1>s, <1>10, SafeFrame DEF SetDefaultRestore
  <2>2. MapFdsLive' /\ LoadPhase' /\ UnloadPhase'
    BY <1>s, <1>p, <1>10 DEF SetDefaultRestore, MapFdsLive, LoadPhase, UnloadPhase, Loading, Detaching
  <2>3. LoopPhase'
    BY <1>p, <1>10, PointsFacts DEF SetDefaultRestore, LoopPhase
  <2> QED
    BY <2>1, <2>2, <2>3 DEF Safe
<1>11. CASE OpenObject
  <2>1. PICK o \in Fresh : object' = o /\ opened' = opened \cup {o}
    BY <1>11 DEF OpenObject
  <2>2. /\ o # None
        /\ opened = {}
        /\ \A s \in Slots : hooks[s] # o
        /\ module_name \in Modules /\ module_name # None
    BY <1>s, <1>p, <1>11 DEF OpenObject, Fresh, ObjectsOwned, LoadPhase, Loading
  <2>3. ObjectsOwned' /\ LoadedHasName' /\ PlacedOnInterface'
    BY <2>1, <2>2, <1>11 DEF OpenObject, ObjectsOwned, LoadedHasName, PlacedOnInterface
  <2>4. MapFdsLive' /\ LoadPhase' /\ UnloadPhase' /\ LoopPhase'
    BY <1>s, <1>p, <2>1, <2>2, <1>11 DEF OpenObject, MapFdsLive, LoadPhase, UnloadPhase, Loading, Detaching, LoopPhase
  <2> QED
    BY <2>3, <2>4 DEF Safe
<1>12. CASE OpenFails
  <2>1. ObjectsOwned' /\ LoadedHasName' /\ PlacedOnInterface'
    BY <1>s, <1>p, <1>12 DEF OpenFails, ObjectsOwned, LoadedHasName, PlacedOnInterface, LoadPhase
  <2>2. MapFdsLive' /\ LoadPhase' /\ UnloadPhase' /\ LoopPhase'
    BY <1>s, <1>p, <1>12 DEF OpenFails, MapFdsLive, LoadPhase, UnloadPhase, Loading, Detaching, LoopPhase
  <2> QED
    BY <2>1, <2>2 DEF Safe
<1>13. CASE LoadObject
  <2>1. ObjectsOwned' /\ LoadedHasName' /\ PlacedOnInterface'
    BY <1>s, <1>13, SafeFrame DEF LoadObject
  <2>2. MapFdsLive' /\ LoadPhase' /\ UnloadPhase'
    BY <1>s, <1>p, <1>13 DEF LoadObject, MapFdsLive, LoadPhase, UnloadPhase, Loading, Detaching
  <2>3. LoopPhase'
    BY <1>p, <1>13, PointsFacts DEF LoadObject, LoopPhase
  <2> QED
    BY <2>1, <2>2, <2>3 DEF Safe
<1>14. CASE LoadObjectFails
  <2>1. object' = None /\ opened' = opened \ {object} /\ pc' = "ready"
        /\ stats_map_fd = None /\ UNCHANGED <<stats_map_fd, config_map_fd>>
    BY <1>p, <1>14 DEF LoadObjectFails, AbortLoad, LoadPhase, Loading
  <2> QED
    BY <1>s, <2>1 DEF Safe, ObjectsOwned, LoadedHasName, PlacedOnInterface, MapFdsLive,
       LoadPhase, UnloadPhase, Loading, Detaching, LoopPhase
<1>15. CASE AttachBegin
  <2>1. ObjectsOwned' /\ LoadedHasName'
    BY <1>s, <1>15, SafeFrame DEF AttachBegin
  <2>2. PlacedOnInterface'
    BY <1>p, <1>15 DEF AttachBegin, PlacedOnInterface, LoadPhase
  <2>3. MapFdsLive' /\ LoadPhase' /\ UnloadPhase'
    BY <1>s, <1>p, <1>15 DEF AttachBegin, MapFdsLive, LoadPhase, UnloadPhase, Loading, Detaching
  <2>4. LoopPhase'
    <3>1. tc_attach_points' = tc_attach_points
          /\ \/ pc' = "tc attach" /\ n' = Len(Points(tc_attach_points))
             \/ pc' = "xdp attach"
      BY <1>15 DEF AttachBegin
    <3>2. Len(Points(tc_attach_points)) \in 0..Len(Points(tc_attach_points))
      BY PointsFacts
    <3> QED
      BY <3>1, <3>2 DEF LoopPhase
  <2> QED
    BY <2>1, <2>2, <2>3, <2>4 DEF Safe
<1>16. CASE AttachImpossible
  <2>1. object' = None /\ opened' = opened \ {object} /\ pc' = "ready"
        /\ stats_map_fd = None /\ UNCHANGED <<stats_map_fd, config_map_fd>>
    BY <1>p, <1>16 DEF AttachImpossible, AbortLoad, LoadPhase, Loading
  <2> QED
    BY <1>s, <2>1 DEF Safe, ObjectsOwned, LoadedHasName, PlacedOnInterface, MapFdsLive,
       LoadPhase, UnloadPhase, Loading, Detaching, LoopPhase
<1>17. CASE TcAttachOk
  <2>1. ObjectsOwned' /\ LoadedHasName'
    BY <1>s, <1>17, SafeFrame DEF TcAttachOk
  <2>2. PlacedOnInterface'
    <3>1. Point \in TcPoints /\ Point \notin XdpModes
      BY <1>t, <1>p, <1>17, PointType, Families DEF TcAttachOk, LoopPhase, TypeOK, LoopTypes
    <3>2. /\ hooks' = [hooks EXCEPT ![<<ifindex, Point>>] = object]
          /\ UNCHANGED <<object, module_name, ifindex>>
          /\ Kind[module_name] = "tc"
      BY <1>p, <1>17 DEF TcAttachOk, Slot, LoadPhase
    <3>3. hooks \in [Slots -> ObjectOrNone]
      BY <1>t DEF TypeOK, KernelTypes
    <3> QED
      BY <1>s, <3>1, <3>2, <3>3 DEF PlacedOnInterface
  <2>3. MapFdsLive' /\ LoadPhase' /\ UnloadPhase'
    BY <1>s, <1>p, <1>17 DEF TcAttachOk, MapFdsLive, LoadPhase, UnloadPhase, Loading, Detaching
  <2>4. LoopPhase'
    BY <1>p, <1>17 DEF TcAttachOk, LoopPhase
  <2> QED
    BY <2>1, <2>2, <2>3, <2>4 DEF Safe
<1>18. CASE TcAttachFails
  <2>1. ObjectsOwned' /\ LoadedHasName' /\ PlacedOnInterface'
    BY <1>s, <1>18, SafeFrame DEF TcAttachFails
  <2>2. MapFdsLive' /\ LoadPhase' /\ UnloadPhase'
    BY <1>s, <1>p, <1>18 DEF TcAttachFails, MapFdsLive, LoadPhase, UnloadPhase, Loading, Detaching
  <2>3. LoopPhase'
    <3>1. pc = "tc attach" /\ pc' = "tc attach"
      BY <1>18 DEF TcAttachFails
    <3>2. n' = n - 1 /\ i < n
          /\ tc_attach_points' = tc_attach_points
      BY <1>18 DEF TcAttachFails
    <3>3. n \in 0..Len(Points(tc_attach_points))
      BY <1>p, <3>1 DEF LoopPhase
    <3>4. i \in 0..2
      BY <1>t DEF TypeOK, LoopTypes
    <3>5. n' \in 0..Len(Points(tc_attach_points))
      BY <3>2, <3>3, <3>4, PointsFacts
    <3> QED
      BY <3>1, <3>2, <3>5 DEF LoopPhase
  <2> QED
    BY <2>1, <2>2, <2>3 DEF Safe
<1>19. CASE TcAttachDone
  <2>1. ObjectsOwned' /\ LoadedHasName' /\ PlacedOnInterface'
    BY <1>s, <1>19, SafeFrame DEF TcAttachDone
  <2>2. MapFdsLive' /\ LoadPhase' /\ UnloadPhase'
    BY <1>s, <1>p, <1>19 DEF TcAttachDone, MapFdsLive, LoadPhase, UnloadPhase, Loading, Detaching
  <2>3. LoopPhase'
    BY <1>p, <1>19, PointsFacts DEF TcAttachDone, LoopPhase
  <2> QED
    BY <2>1, <2>2, <2>3 DEF Safe
<1>20. CASE XdpAttachOk
  <2>1. ObjectsOwned' /\ LoadedHasName'
    BY <1>s, <1>20, SafeFrame DEF XdpAttachOk
  <2>2. PlacedOnInterface'
    <3> DEFINE mode == ModeOf(ifindex, xdp_attach_point)
    <3>1. mode \in XdpModes /\ mode \notin TcPoints
      BY <1>t, ModeType, Families DEF TypeOK, InterfaceTypes
    <3>2. /\ hooks' = [hooks EXCEPT ![<<ifindex, mode>>] = object]
          /\ UNCHANGED <<object, module_name, ifindex>>
          /\ Kind[module_name] = "xdp"
      BY <1>p, <1>20 DEF XdpAttachOk, XdpSlot, LoadPhase
    <3>3. hooks \in [Slots -> ObjectOrNone]
      BY <1>t DEF TypeOK, KernelTypes
    <3> HIDE DEF mode
    <3> QED
      BY <1>s, <3>1, <3>2, <3>3 DEF PlacedOnInterface
  <2>3. MapFdsLive' /\ LoadPhase' /\ UnloadPhase'
    BY <1>s, <1>p, <1>20 DEF XdpAttachOk, MapFdsLive, LoadPhase, UnloadPhase, Loading, Detaching
  <2>4. LoopPhase'
    BY <1>p, <1>20 DEF XdpAttachOk, LoopPhase
  <2> QED
    BY <2>1, <2>2, <2>3, <2>4 DEF Safe
<1>21. CASE XdpAttachFails
  <2>1. object' = None /\ opened' = opened \ {object} /\ pc' = "ready"
        /\ stats_map_fd = None /\ UNCHANGED <<stats_map_fd, config_map_fd>>
    BY <1>p, <1>21 DEF XdpAttachFails, AbortLoad, LoadPhase, Loading
  <2> QED
    BY <1>s, <2>1 DEF Safe, ObjectsOwned, LoadedHasName, PlacedOnInterface, MapFdsLive,
       LoadPhase, UnloadPhase, Loading, Detaching, LoopPhase
<1>22. CASE FinishLoad
  <2>1. ObjectsOwned' /\ LoadedHasName' /\ PlacedOnInterface'
    BY <1>s, <1>22 DEF FinishLoad, ObjectsOwned, LoadedHasName, PlacedOnInterface
  <2>2. MapFdsLive' /\ LoadPhase' /\ UnloadPhase' /\ LoopPhase'
    BY <1>s, <1>p, <1>22 DEF FinishLoad, MapFdsLive, LoadPhase, UnloadPhase, Loading, Detaching, LoopPhase
  <2> QED
    BY <2>1, <2>2 DEF Safe
<1>23. CASE DetachBegin
  <2>1. ObjectsOwned' /\ LoadedHasName' /\ PlacedOnInterface'
    BY <1>s, <1>23, SafeFrame DEF DetachBegin
  <2>2. ifindex \in Interfaces
    BY <1>t, <1>23 DEF DetachBegin, TypeOK, InterfaceTypes
  <2>3. MapFdsLive' /\ LoadPhase' /\ UnloadPhase'
    BY <1>s, <1>p, <2>2, <1>23 DEF DetachBegin, MapFdsLive, LoadPhase, UnloadPhase, Loading, Detaching
  <2>4. LoopPhase'
    <3>1. tc_attach_points' = tc_attach_points
          /\ \/ pc' = "tc detach" /\ n' = Len(Points(tc_attach_points))
             \/ pc' = "xdp detach"
      BY <1>23 DEF DetachBegin
    <3>2. Len(Points(tc_attach_points)) \in 0..Len(Points(tc_attach_points))
      BY PointsFacts
    <3> QED
      BY <3>1, <3>2 DEF LoopPhase
  <2> QED
    BY <2>1, <2>3, <2>4 DEF Safe
<1>24. CASE DetachImpossible
  <2>1. ObjectsOwned' /\ LoadedHasName' /\ PlacedOnInterface'
    BY <1>s, <1>24, SafeFrame DEF DetachImpossible
  <2>2. MapFdsLive' /\ LoadPhase' /\ UnloadPhase'
    BY <1>s, <1>p, <1>24 DEF DetachImpossible, MapFdsLive, LoadPhase, UnloadPhase, Loading, Detaching
  <2>3. LoopPhase'
    BY <1>p, <1>24, PointsFacts DEF DetachImpossible, LoopPhase
  <2> QED
    BY <2>1, <2>2, <2>3 DEF Safe
<1>25. CASE TcDetachOk
  <2>1. ObjectsOwned' /\ LoadedHasName'
    BY <1>s, <1>25, SafeFrame DEF TcDetachOk
  <2>2. PlacedOnInterface'
    <3>1. /\ hooks' = [hooks EXCEPT ![Slot] = None]
          /\ UNCHANGED <<object, module_name, ifindex>>
      BY <1>25 DEF TcDetachOk
    <3>2. hooks \in [Slots -> ObjectOrNone]
      BY <1>t DEF TypeOK, KernelTypes
    <3> QED
      BY <1>s, <3>1, <3>2 DEF PlacedOnInterface
  <2>3. MapFdsLive' /\ LoadPhase' /\ UnloadPhase'
    BY <1>s, <1>p, <1>25 DEF TcDetachOk, MapFdsLive, LoadPhase, UnloadPhase, Loading, Detaching
  <2>4. LoopPhase'
    BY <1>p, <1>25 DEF TcDetachOk, LoopPhase
  <2> QED
    BY <2>1, <2>2, <2>3, <2>4 DEF Safe
<1>26. CASE TcDetachFails
  <2>1. ObjectsOwned' /\ LoadedHasName' /\ PlacedOnInterface'
    BY <1>s, <1>26, SafeFrame DEF TcDetachFails
  <2>2. MapFdsLive' /\ LoadPhase' /\ UnloadPhase'
    BY <1>s, <1>p, <1>26 DEF TcDetachFails, MapFdsLive, LoadPhase, UnloadPhase, Loading, Detaching
  <2>3. LoopPhase'
    <3>1. pc = "tc detach" /\ pc' = "tc detach"
      BY <1>26 DEF TcDetachFails
    <3>2. n' = n - 1 /\ i < n
          /\ tc_attach_points' = tc_attach_points
      BY <1>26 DEF TcDetachFails
    <3>3. n \in 0..Len(Points(tc_attach_points))
      BY <1>p, <3>1 DEF LoopPhase
    <3>4. i \in 0..2
      BY <1>t DEF TypeOK, LoopTypes
    <3>5. n' \in 0..Len(Points(tc_attach_points))
      BY <3>2, <3>3, <3>4, PointsFacts
    <3> QED
      BY <3>1, <3>2, <3>5 DEF LoopPhase
  <2> QED
    BY <2>1, <2>2, <2>3 DEF Safe
<1>27. CASE TcDetachDone
  <2>1. ObjectsOwned' /\ LoadedHasName' /\ PlacedOnInterface'
    BY <1>s, <1>27, SafeFrame DEF TcDetachDone
  <2>2. MapFdsLive' /\ LoadPhase' /\ UnloadPhase'
    BY <1>s, <1>p, <1>27 DEF TcDetachDone, MapFdsLive, LoadPhase, UnloadPhase, Loading, Detaching
  <2>3. LoopPhase'
    <3>1. pc = "tc detach" /\ pc' = "destroy ingress"
      BY <1>27 DEF TcDetachDone
    <3>2. n' = n
      BY <1>27 DEF TcDetachDone
    <3>3. n \in 0..Len(Points(tc_attach_points))
      BY <1>p, <3>1 DEF LoopPhase
    <3>4. n' \in 0..2
      BY <3>2, <3>3, PointsFacts
    <3> QED
      BY <3>1, <3>4 DEF LoopPhase
  <2> QED
    BY <2>1, <2>2, <2>3 DEF Safe
<1>28. CASE TcDestroyOk("destroy ingress", "ingress", "destroy egress")
  <2>1. ObjectsOwned' /\ LoadedHasName'
    BY <1>s, <1>28, SafeFrame DEF TcDestroyOk
  <2>2. PlacedOnInterface'
    <3>1. /\ hooks' = [hooks EXCEPT ![<<ifindex, "ingress">>] = None]
          /\ UNCHANGED <<object, module_name, ifindex>>
      BY <1>28 DEF TcDestroyOk
    <3>2. hooks \in [Slots -> ObjectOrNone]
      BY <1>t DEF TypeOK, KernelTypes
    <3> QED
      BY <1>s, <3>1, <3>2 DEF PlacedOnInterface
  <2>3. MapFdsLive' /\ LoadPhase' /\ UnloadPhase'
    BY <1>s, <1>p, <1>28 DEF TcDestroyOk, MapFdsLive, LoadPhase, UnloadPhase, Loading, Detaching
  <2>4. LoopPhase'
    <3>1. pc = "destroy ingress" /\ pc' = "destroy egress"
      BY <1>28 DEF TcDestroyOk
    <3>2. n' = n
      BY <1>28 DEF TcDestroyOk
    <3>3. n \in 0..2
      BY <1>p, <3>1 DEF LoopPhase
    <3>4. n' \in -1..2
      BY <3>2, <3>3, PointsFacts
    <3> QED
      BY <3>1, <3>4 DEF LoopPhase
  <2> QED
    BY <2>1, <2>2, <2>3, <2>4 DEF Safe
<1>29. CASE TcDestroyOk("destroy egress", "egress", "close")
  <2>1. ObjectsOwned' /\ LoadedHasName'
    BY <1>s, <1>29, SafeFrame DEF TcDestroyOk
  <2>2. PlacedOnInterface'
    <3>1. /\ hooks' = [hooks EXCEPT ![<<ifindex, "egress">>] = None]
          /\ UNCHANGED <<object, module_name, ifindex>>
      BY <1>29 DEF TcDestroyOk
    <3>2. hooks \in [Slots -> ObjectOrNone]
      BY <1>t DEF TypeOK, KernelTypes
    <3> QED
      BY <1>s, <3>1, <3>2 DEF PlacedOnInterface
  <2>3. MapFdsLive' /\ LoadPhase' /\ UnloadPhase'
    BY <1>s, <1>p, <1>29 DEF TcDestroyOk, MapFdsLive, LoadPhase, UnloadPhase, Loading, Detaching
  <2>4. LoopPhase'
    BY <1>p, <1>29 DEF TcDestroyOk, LoopPhase
  <2> QED
    BY <2>1, <2>2, <2>3, <2>4 DEF Safe
<1>30. CASE TcDestroyFails("destroy ingress", "destroy egress")
  <2>1. ObjectsOwned' /\ LoadedHasName' /\ PlacedOnInterface'
    BY <1>s, <1>30, SafeFrame DEF TcDestroyFails
  <2>2. MapFdsLive' /\ LoadPhase' /\ UnloadPhase'
    BY <1>s, <1>p, <1>30 DEF TcDestroyFails, MapFdsLive, LoadPhase, UnloadPhase, Loading, Detaching
  <2>3. LoopPhase'
    <3>1. pc = "destroy ingress" /\ pc' = "destroy egress"
      BY <1>30 DEF TcDestroyFails
    <3>2. n' = n - 1
      BY <1>30 DEF TcDestroyFails
    <3>3. n \in 0..2
      BY <1>p, <3>1 DEF LoopPhase
    <3>4. n' \in -1..2
      BY <3>2, <3>3, PointsFacts
    <3> QED
      BY <3>1, <3>4 DEF LoopPhase
  <2> QED
    BY <2>1, <2>2, <2>3 DEF Safe
<1>31. CASE TcDestroyFails("destroy egress", "close")
  <2>1. ObjectsOwned' /\ LoadedHasName' /\ PlacedOnInterface'
    BY <1>s, <1>31, SafeFrame DEF TcDestroyFails
  <2>2. MapFdsLive' /\ LoadPhase' /\ UnloadPhase'
    BY <1>s, <1>p, <1>31 DEF TcDestroyFails, MapFdsLive, LoadPhase, UnloadPhase, Loading, Detaching
  <2>3. LoopPhase'
    BY <1>p, <1>31, PointsFacts DEF TcDestroyFails, LoopPhase
  <2> QED
    BY <2>1, <2>2, <2>3 DEF Safe
<1>32. CASE XdpDetachOk
  <2>1. ObjectsOwned' /\ LoadedHasName'
    BY <1>s, <1>32, SafeFrame DEF XdpDetachOk
  <2>2. PlacedOnInterface'
    <3>1. /\ hooks' = [hooks EXCEPT ![XdpSlot] = None]
          /\ UNCHANGED <<object, module_name, ifindex>>
      BY <1>32 DEF XdpDetachOk
    <3>2. hooks \in [Slots -> ObjectOrNone]
      BY <1>t DEF TypeOK, KernelTypes
    <3> QED
      BY <1>s, <3>1, <3>2 DEF PlacedOnInterface
  <2>3. MapFdsLive' /\ LoadPhase' /\ UnloadPhase'
    BY <1>s, <1>p, <1>32 DEF XdpDetachOk, MapFdsLive, LoadPhase, UnloadPhase, Loading, Detaching
  <2>4. LoopPhase'
    BY <1>p, <1>32 DEF XdpDetachOk, LoopPhase
  <2> QED
    BY <2>1, <2>2, <2>3, <2>4 DEF Safe
<1>33. CASE XdpDetachFails
  <2>1. ObjectsOwned' /\ LoadedHasName' /\ PlacedOnInterface'
    BY <1>s, <1>33, SafeFrame DEF XdpDetachFails
  <2>2. MapFdsLive' /\ LoadPhase' /\ UnloadPhase'
    BY <1>s, <1>p, <1>33 DEF XdpDetachFails, MapFdsLive, LoadPhase, UnloadPhase, Loading, Detaching
  <2>3. LoopPhase'
    BY <1>p, <1>33, PointsFacts DEF XdpDetachFails, LoopPhase
  <2> QED
    BY <2>1, <2>2, <2>3 DEF Safe
<1>34. CASE CloseModule
  <2>1. object' = None /\ opened' = {} /\ stats_map_fd' = None /\ config_map_fd' = None
    BY <1>s, <1>34 DEF CloseModule, ObjectsOwned
  <2>2. pc' \in {"ready", "exited"}
    BY <1>34 DEF CloseModule
  <2> QED
    BY <2>1, <2>2 DEF Safe, ObjectsOwned, LoadedHasName, PlacedOnInterface, MapFdsLive,
       LoadPhase, UnloadPhase, Loading, Detaching, LoopPhase
<1>35. CASE Crash
  <2>1. object' = None /\ opened' = {} /\ stats_map_fd' = None /\ config_map_fd' = None
    BY <1>s, <1>35 DEF Crash, ObjectsOwned
  <2>2. pc' \in {"ready", "exited"}
    BY <1>35 DEF Crash
  <2> QED
    BY <2>1, <2>2 DEF Safe, ObjectsOwned, LoadedHasName, PlacedOnInterface, MapFdsLive,
       LoadPhase, UnloadPhase, Loading, Detaching, LoopPhase
<1>36. CASE Restart
  <2>1. object' = None /\ opened' = {} /\ stats_map_fd' = None /\ config_map_fd' = None
        /\ pc' = "ready"
    BY <1>36 DEF Restart
  <2> QED
    BY <2>1 DEF Safe, ObjectsOwned, LoadedHasName, PlacedOnInterface, MapFdsLive,
       LoadPhase, UnloadPhase, Loading, Detaching, LoopPhase
<1>37. CASE UNCHANGED vars
  <2>1. ObjectsOwned' /\ LoadedHasName' /\ PlacedOnInterface'
    BY <1>s, <1>37, SafeFrame DEF vars
  <2>2. MapFdsLive' /\ LoadPhase' /\ UnloadPhase'
    BY <1>s, <1>p, <1>37 DEF vars, MapFdsLive, LoadPhase, UnloadPhase, Loading, Detaching
  <2>3. LoopPhase'
    BY <1>p, <1>37, PointsFacts DEF vars, LoopPhase
  <2> QED
    BY <2>1, <2>2, <2>3 DEF Safe
<1> QED
  BY <1>1, <1>2, <1>3, <1>4, <1>5, <1>6, <1>7, <1>8, <1>9, <1>10, <1>11,
     <1>12, <1>13, <1>14, <1>15, <1>16, <1>17, <1>18, <1>19, <1>20, <1>21,
     <1>22, <1>23, <1>24, <1>25, <1>26, <1>27, <1>28, <1>29, <1>30, <1>31,
     <1>32, <1>33, <1>34, <1>35, <1>36, <1>37
     DEF Next, Command, LoadStep, UnloadStep

-----------------------------------------------------------------------------
(* The theorems.                                                           *)

LEMMA IInvAlways == Spec => []IInv
<1>1. IInv /\ [Next]_vars => IInv'
  BY TypeNext, SafeNext DEF IInv
<1> QED
  BY IInvInit, <1>1, PTL DEF Spec

\* The context, the kernel state and the loops of load and unload keep their
\* types; the count of the loops stays in -2..2.
THEOREM TypeCorrect == Spec => []TypeOK
<1>1. IInv => TypeOK
  BY DEF IInv
<1> QED
  BY IInvAlways, <1>1, PTL

\* Whatever fails and whatever is typed: no bpf_object is leaked, closed twice
\* or used closed, the map descriptors are of the loaded object, the guard of
\* load protects it, and it runs only on the interface of the context, in hooks
\* of its family.
THEOREM LoaderSafe == Spec => [](ObjectsOwned /\ MapFdsLive /\ LoadedHasName /\ PlacedOnInterface)
<1>1. IInv => ObjectsOwned /\ MapFdsLive /\ LoadedHasName /\ PlacedOnInterface
  BY DEF IInv, Safe
<1> QED
  BY IInvAlways, <1>1, PTL

\* No path of a load, an unload or the cleanup leaks an object or keeps a
\* closed one.
THEOREM ObjectsNeverLeak == Spec => []ObjectsOwned
  BY LoaderSafe, PTL

\* stats and config never use a descriptor of a closed object.
THEOREM MapFdsStayLive == Spec => []MapFdsLive
  BY LoaderSafe, PTL

\* The name, the guard of load, is set as long as there is an object.
THEOREM LoadedKeepsName == Spec => []LoadedHasName
  BY LoaderSafe, PTL

-----------------------------------------------------------------------------
(* The loader implements HookOwnership.                                    *)

LEMMA OwnershipInit == Init => Ownership!Init
  BY DEF Init, FreshContext, Slots, Ownership!Init, Ownership!Slots

LEMMA OwnershipNext == IInv /\ [Next]_vars => [Ownership!Next]_Ownership!vars
<1> SUFFICES ASSUME IInv, [Next]_vars PROVE [Ownership!Next]_Ownership!vars
  OBVIOUS
<1>t. TypeOK
  BY DEF IInv
<1>p. LoadPhase /\ UnloadPhase /\ LoopPhase
  BY DEF IInv, Phases
<1>1. ASSUME NEW m \in Modules, NEW ifc \in Interfaces \cup {None}, NEW raw \in AttachArgs \cup {None},
             LoadCommand(m, ifc, raw)
      PROVE  [Ownership!Next]_Ownership!vars
  BY <1>1 DEF LoadCommand, bpf, interface, kernel, Ownership!vars
<1>2. ASSUME NEW ifc \in Interfaces \cup {None}, SetDefaultInterface(ifc)
      PROVE  [Ownership!Next]_Ownership!vars
  BY <1>2 DEF SetDefaultInterface, bpf, interface, kernel, Ownership!vars
<1>3. ASSUME NEW raw \in AttachArgs, SetDefaultAttachmentPoint(raw)
      PROVE  [Ownership!Next]_Ownership!vars
  BY <1>3 DEF SetDefaultAttachmentPoint, bpf, interface, kernel, Ownership!vars
<1>4. CASE LoadAlreadyLoaded
  BY <1>4 DEF LoadAlreadyLoaded, bpf, interface, kernel, Ownership!vars
<1>5. CASE LoadRefused
  BY <1>5 DEF LoadRefused, bpf, interface, kernel, Ownership!vars
<1>6. CASE UnloadCommand
  BY <1>6 DEF UnloadCommand, BeginUnload, bpf, interface, kernel, Ownership!vars
<1>7. CASE SwitchModule
  BY <1>7 DEF SwitchModule, BeginUnload, bpf, interface, kernel, Ownership!vars
<1>8. CASE ExitWithModule
  BY <1>8 DEF ExitWithModule, BeginUnload, bpf, interface, kernel, Ownership!vars
<1>9. CASE ExitWithoutModule
  BY <1>9 DEF ExitWithoutModule, bpf, interface, kernel, Ownership!vars
<1>10. CASE SetDefaultRestore
  BY <1>10 DEF SetDefaultRestore, bpf, interface, kernel, Ownership!vars
<1>11. CASE OpenObject
  <2>1. PICK o \in Fresh : object' = o
    BY <1>11 DEF OpenObject
  <2>2. Ownership!Acquire(o)
    BY <1>p, <2>1, <1>11 DEF OpenObject, LoadPhase, Fresh, Slots, kernel, interface,
       Ownership!Acquire, Ownership!Unattached, Ownership!Slots
  <2>3. o \in Objects
    BY DEF Fresh
  <2> QED
    BY <2>2, <2>3 DEF Ownership!Next
<1>12. CASE OpenFails
  <2>1. object' = object
    BY <1>p, <1>12 DEF OpenFails, LoadPhase
  <2> QED
    BY <2>1, <1>12 DEF OpenFails, interface, kernel, Ownership!vars
<1>13. CASE LoadObject
  BY <1>13 DEF LoadObject, bpf, interface, kernel, Ownership!vars
<1>14. CASE LoadObjectFails
  <2>1. Ownership!Release
    BY <1>t, <1>p, <1>14 DEF LoadObjectFails, AbortLoad, LoadPhase, Loading, TypeOK, InterfaceTypes, kernel,
       interface, Ownership!Release
  <2> QED
    BY <2>1 DEF Ownership!Next
<1>15. CASE AttachBegin
  <2>1. ifindex' \in Interfaces
    BY <1>p, <1>15 DEF AttachBegin, LoadPhase, Loading
  <2>2. Ownership!Settle(ifindex')
    BY <1>p, <1>15 DEF AttachBegin, LoadPhase, Loading, Slots, bpf, kernel,
       Ownership!Settle, Ownership!Unattached, Ownership!Slots
  <2> QED
    BY <2>1, <2>2 DEF Ownership!Next
<1>16. CASE AttachImpossible
  <2>1. Ownership!Release
    BY <1>t, <1>p, <1>16 DEF AttachImpossible, AbortLoad, LoadPhase, Loading, TypeOK, InterfaceTypes, kernel,
       interface, Ownership!Release
  <2> QED
    BY <2>1 DEF Ownership!Next
<1>17. CASE TcAttachOk
  <2>1. Point \in Hooks
    BY <1>t, <1>p, <1>17, PointType, Families DEF TcAttachOk, LoopPhase, TypeOK, LoopTypes
  <2>2. Ownership!Attach(Point)
    BY <1>p, <1>17 DEF TcAttachOk, LoadPhase, Loading, Slot, bpf, interface, Ownership!Attach
  <2> QED
    BY <2>1, <2>2 DEF Ownership!Next
<1>18. CASE TcAttachFails
  BY <1>18 DEF TcAttachFails, bpf, interface, kernel, Ownership!vars
<1>19. CASE TcAttachDone
  BY <1>19 DEF TcAttachDone, bpf, interface, kernel, Ownership!vars
<1>20. CASE XdpAttachOk
  <2> DEFINE mode == ModeOf(ifindex, xdp_attach_point)
  <2>1. mode \in Hooks
    BY <1>t, ModeType, Families DEF TypeOK, InterfaceTypes
  <2>2. Ownership!Attach(mode)
    BY <1>p, <1>20 DEF XdpAttachOk, LoadPhase, Loading, XdpSlot, bpf, interface, Ownership!Attach
  <2> QED
    BY <2>1, <2>2 DEF Ownership!Next
<1>21. CASE XdpAttachFails
  <2>1. Ownership!Release
    BY <1>t, <1>p, <1>21 DEF XdpAttachFails, AbortLoad, LoadPhase, Loading, TypeOK, InterfaceTypes, kernel,
       interface, Ownership!Release
  <2> QED
    BY <2>1 DEF Ownership!Next
<1>22. CASE FinishLoad
  BY <1>22 DEF FinishLoad, bpf, interface, kernel, Ownership!vars
<1>23. CASE DetachBegin
  BY <1>23 DEF DetachBegin, bpf, interface, kernel, Ownership!vars
<1>24. CASE DetachImpossible
  BY <1>24 DEF DetachImpossible, bpf, interface, kernel, Ownership!vars
<1>25. CASE TcDetachOk
  <2>1. Point \in Hooks
    BY <1>t, <1>p, <1>25, PointType, Families DEF TcDetachOk, LoopPhase, TypeOK, LoopTypes
  <2>2. Ownership!Detach(Point)
    BY <1>p, <1>25 DEF TcDetachOk, UnloadPhase, Detaching, Slot, bpf, interface, Ownership!Detach
  <2> QED
    BY <2>1, <2>2 DEF Ownership!Next
<1>26. CASE TcDetachFails
  BY <1>26 DEF TcDetachFails, bpf, interface, kernel, Ownership!vars
<1>27. CASE TcDetachDone
  BY <1>27 DEF TcDetachDone, bpf, interface, kernel, Ownership!vars
<1>28. CASE TcDestroyOk("destroy ingress", "ingress", "destroy egress")
  <2>1. Ownership!Detach("ingress")
    BY <1>p, <1>28 DEF TcDestroyOk, UnloadPhase, Detaching, bpf, interface, Ownership!Detach
  <2>2. "ingress" \in Hooks
    BY DEF Hooks, TcPoints
  <2> QED
    BY <2>1, <2>2 DEF Ownership!Next
<1>29. CASE TcDestroyOk("destroy egress", "egress", "close")
  <2>1. Ownership!Detach("egress")
    BY <1>p, <1>29 DEF TcDestroyOk, UnloadPhase, Detaching, bpf, interface, Ownership!Detach
  <2>2. "egress" \in Hooks
    BY DEF Hooks, TcPoints
  <2> QED
    BY <2>1, <2>2 DEF Ownership!Next
<1>30. CASE TcDestroyFails("destroy ingress", "destroy egress")
  BY <1>30 DEF TcDestroyFails, bpf, interface, kernel, Ownership!vars
<1>31. CASE TcDestroyFails("destroy egress", "close")
  BY <1>31 DEF TcDestroyFails, bpf, interface, kernel, Ownership!vars
<1>32. CASE XdpDetachOk
  <2> DEFINE mode == ModeOf(ifindex, xdp_attach_point)
  <2>1. mode \in Hooks
    BY <1>t, ModeType, Families DEF TypeOK, InterfaceTypes
  <2>2. Ownership!Detach(mode)
    BY <1>p, <1>32 DEF XdpDetachOk, UnloadPhase, Detaching, XdpSlot, bpf, interface, Ownership!Detach
  <2> QED
    BY <2>1, <2>2 DEF Ownership!Next
<1>33. CASE XdpDetachFails
  BY <1>33 DEF XdpDetachFails, bpf, interface, kernel, Ownership!vars
<1>34. CASE CloseModule
  <2>1. object' = None /\ UNCHANGED <<ifindex, hooks>>
    BY <1>34 DEF CloseModule, interface, kernel
  <2>2. CASE object = None
    BY <2>1, <2>2 DEF Ownership!vars
  <2>3. CASE object # None
    BY <1>t, <2>1, <2>3 DEF TypeOK, InterfaceTypes, Ownership!Release, Ownership!Next
  <2> QED
    BY <2>2, <2>3
<1>35. CASE Crash
  <2>1. object' = None /\ UNCHANGED <<ifindex, hooks>>
    BY <1>35 DEF Crash, interface, kernel
  <2>2. CASE object = None
    BY <2>1, <2>2 DEF Ownership!vars
  <2>3. CASE object # None
    BY <1>t, <2>1, <2>3 DEF TypeOK, InterfaceTypes, Ownership!Release, Ownership!Next
  <2> QED
    BY <2>2, <2>3
<1>36. CASE Restart
  <2>1. Ownership!Forget
    BY <1>p, <1>36 DEF Restart, UnloadPhase, kernel, Ownership!Forget
  <2> QED
    BY <2>1 DEF Ownership!Next
<1>37. CASE UNCHANGED vars
  BY <1>37 DEF vars, bpf, interface, kernel, Ownership!vars
<1> QED
  BY <1>1, <1>2, <1>3, <1>4, <1>5, <1>6, <1>7, <1>8, <1>9, <1>10, <1>11,
     <1>12, <1>13, <1>14, <1>15, <1>16, <1>17, <1>18, <1>19, <1>20, <1>21,
     <1>22, <1>23, <1>24, <1>25, <1>26, <1>27, <1>28, <1>29, <1>30, <1>31,
     <1>32, <1>33, <1>34, <1>35, <1>36, <1>37
     DEF Next, Command, LoadStep, UnloadStep

\* Every behaviour of load, unload, set-default, of their failures and of the
\* death of the process is one of the abstract owner of hooks.
THEOREM LoaderImplementsOwnership == Spec => ImplementsOwnership
  BY IInvAlways, OwnershipInit, OwnershipNext, PTL DEF Spec, ImplementsOwnership, Ownership!Spec
=============================================================================
