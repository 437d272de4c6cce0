----------------------------- MODULE UnloadProofs -----------------------------
(***************************************************************************)
(* A TC unload that reports success has cleaned both hooks: TcUnloadCleans *)
(* for any modules, interfaces, arguments and commands, and any faults but *)
(* a failing bpf_tc_hook_destroy.                                          *)
(***************************************************************************)
EXTENDS LoaderProofs

FlushWorks == "tc_hook_destroy" \notin Faults

\* The control points of an unload after the branch on the section.
Flushing == {"tc detach", "destroy ingress", "destroy egress", "xdp detach", "close"}

\* Without a clsact qdisc every call on the interface fails, and the count
\* falls by one with each: an iteration keeps n + i, which starts as at most
\* 2, so the loop ends with n at most 1 and the two flushes make it negative.
\* With a qdisc the flushes succeed and empty the hooks.
CountFalls ==
    /\ pc = "tc detach" => ifindex \in clsact \/ n + i <= 2
    /\ pc = "destroy ingress" => ifindex \in clsact \/ n <= 1
    /\ pc = "destroy egress" => ifindex \in clsact \/ n <= 0

HooksEmpty ==
    /\ pc = "destroy egress" /\ ifindex \in clsact => hooks[<<ifindex, "ingress">>] = None
    /\ pc = "close" /\ n >= 0 /\ Kind[module_name] = "tc" =>
         \A p \in TcPoints : hooks[<<ifindex, p>>] = None

\* Which branch an unload is in, and whose it is.
Branches ==
    /\ pc = "xdp detach" => Kind[module_name] = "xdp"
    /\ pc = "close" /\ n >= 0 => object # None /\ ifindex \in Interfaces

FlushInv == CountFalls /\ HooksEmpty /\ Branches

-----------------------------------------------------------------------------

LEMMA FlushElsewhere == pc \notin Flushing => FlushInv
  BY DEF Flushing, FlushInv, CountFalls, HooksEmpty, Branches

LEMMA FlushInit == Init => FlushInv
  BY DEF Init, FlushInv, CountFalls, HooksEmpty, Branches

\* Every step but those of an unload leads to a control point elsewhere.
LEMMA CommandElsewhere ==
    ASSUME Command \/ LoadStep \/ Crash \/ Restart
    PROVE  pc' \notin Flushing
<1> USE DEF Flushing
<1>1. CASE Command
  BY <1>1 DEF Command, LoadAlreadyLoaded, LoadRefused, LoadCommand, UnloadCommand, SwitchModule,
         ExitWithModule, ExitWithoutModule, BeginUnload, SetDefaultInterface,
         SetDefaultAttachmentPoint, SetDefaultRestore
<1>2. CASE LoadStep
  BY <1>2 DEF LoadStep, OpenObject, OpenFails, LoadObject, LoadObjectFails, AttachBegin,
         AttachImpossible, AbortLoad, TcAttachOk, TcAttachFails, TcAttachDone, XdpAttachOk,
         XdpAttachFails, FinishLoad
<1>3. CASE Crash \/ Restart
  BY <1>3 DEF Crash, Restart
<1> QED
  BY <1>1, <1>2, <1>3

LEMMA FlushNext ==
    ASSUME FlushWorks, IInv, FlushInv, [Next]_vars
    PROVE  FlushInv'
<1>t. TypeOK /\ LoopPhase /\ UnloadPhase
  BY DEF IInv, Phases
<1>r. n \in -2..2 /\ i \in 0..2
  BY <1>t DEF TypeOK, LoopTypes
<1>k. hooks \in [Slots -> ObjectOrNone]
  BY <1>t DEF TypeOK, KernelTypes
<1>1. CASE Command \/ LoadStep \/ Crash \/ Restart
  <2>1. pc' \notin Flushing
    BY <1>1, CommandElsewhere
  <2> QED
    BY <2>1 DEF Flushing, FlushInv, CountFalls, HooksEmpty, Branches
<1>2. CASE DetachBegin
  <2>1. /\ pc' = "tc detach" \/ (pc' = "xdp detach" /\ Kind[module_name'] = "xdp")
        /\ i' = 0
    BY <1>2 DEF DetachBegin, bpf
  <2>2. pc' = "tc detach" => n' = Len(Points(tc_attach_points))
    BY <1>2 DEF DetachBegin
  <2>3. Len(Points(tc_attach_points)) \in 0..2 /\ i' = 0
    BY <2>1, PointsFacts
  <2>4. n' = Len(Points(tc_attach_points)) => n' + i' <= 2
    BY <2>3
  <2> QED
    BY <2>1, <2>2, <2>4 DEF FlushInv, CountFalls, HooksEmpty, Branches
<1>3. CASE DetachImpossible
  <2>1. pc' = "close" /\ n' = -1
    BY <1>3 DEF DetachImpossible
  <2>2. ~(n' >= 0)
    BY <2>1
  <2> QED
    BY <2>1, <2>2 DEF FlushInv, CountFalls, HooksEmpty, Branches
<1>4. CASE TcDetachOk
  <2>1. pc' = "tc detach" /\ ifindex' \in clsact'
    BY <1>4 DEF TcDetachOk, interface
  <2> QED
    BY <2>1 DEF FlushInv, CountFalls, HooksEmpty, Branches
<1>5. CASE TcDetachFails
  <2>1. /\ pc = "tc detach" /\ pc' = "tc detach"
        /\ ifindex' = ifindex /\ clsact' = clsact
    BY <1>5 DEF TcDetachFails, interface, kernel
  <2>2. n' = n - 1 /\ i' = i + 1
    BY <1>5 DEF TcDetachFails
  <2>3. n' + i' = n + i
    BY <2>2, <1>r
  <2>4. ifindex \in clsact \/ n + i <= 2
    BY <2>1 DEF FlushInv, CountFalls
  <2>5. ifindex' \in clsact' \/ n' + i' <= 2
    BY <2>1, <2>3, <2>4
  <2> QED
    BY <2>1, <2>5 DEF FlushInv, CountFalls, HooksEmpty, Branches
<1>6. CASE TcDetachDone
  <2>1. /\ pc = "tc detach" /\ pc' = "destroy ingress"
        /\ ifindex' = ifindex /\ clsact' = clsact
    BY <1>6 DEF TcDetachDone, interface, kernel
  <2>2. i >= n /\ n' = n
    BY <1>6 DEF TcDetachDone, locals
  <2>3. ifindex \in clsact \/ n + i <= 2
    BY <2>1 DEF FlushInv, CountFalls
  <2>4. n + i <= 2 => n' <= 1
    BY <2>2, <1>r
  <2> QED
    BY <2>1, <2>3, <2>4 DEF FlushInv, CountFalls, HooksEmpty, Branches
<1>7. CASE TcDestroyOk("destroy ingress", "ingress", "destroy egress")
  <2>1. /\ pc' = "destroy egress" /\ ifindex' = ifindex /\ ifindex' \in clsact'
        /\ hooks' = [hooks EXCEPT ![<<ifindex, "ingress">>] = None]
    BY <1>7 DEF TcDestroyOk, interface
  <2>2. <<ifindex, "ingress">> \in Slots
    BY <1>7, <1>t DEF TcDestroyOk, UnloadPhase, Detaching, Slots, Hooks, TcPoints
  <2>3. hooks'[<<ifindex', "ingress">>] = None
    BY <2>1, <2>2, <1>k
  <2> QED
    BY <2>1, <2>3 DEF FlushInv, CountFalls, HooksEmpty, Branches
<1>8. CASE TcDestroyFails("destroy ingress", "destroy egress")
  <2>1. /\ pc = "destroy ingress" /\ pc' = "destroy egress"
        /\ ifindex' \notin clsact' /\ ifindex \notin clsact
    BY <1>8 DEF TcDestroyFails, FlushWorks, interface, kernel
  <2>2. n' = n - 1
    BY <1>8 DEF TcDestroyFails
  <2>3. n <= 1
    BY <2>1 DEF FlushInv, CountFalls
  <2>4. n' <= 0
    BY <2>2, <2>3, <1>r
  <2> QED
    BY <2>1, <2>4 DEF FlushInv, CountFalls, HooksEmpty, Branches
<1>9. CASE TcDestroyOk("destroy egress", "egress", "close")
  <2>1. /\ pc = "destroy egress" /\ pc' = "close" /\ ifindex' = ifindex /\ object' = object
        /\ ifindex \in clsact
        /\ hooks' = [hooks EXCEPT ![<<ifindex, "egress">>] = None]
    BY <1>9 DEF TcDestroyOk, interface, bpf
  <2>2. object # None /\ ifindex \in Interfaces
    BY <2>1, <1>t DEF UnloadPhase, Detaching
  <2>3. <<ifindex, "ingress">> \in Slots /\ <<ifindex, "egress">> \in Slots
    BY <2>2 DEF Slots, Hooks, TcPoints
  <2>4. hooks[<<ifindex, "ingress">>] = None
    BY <2>1 DEF FlushInv, HooksEmpty
  <2>5. \A p \in TcPoints : hooks'[<<ifindex', p>>] = None
    BY <2>1, <2>3, <2>4, <1>k DEF TcPoints
  <2> QED
    BY <2>1, <2>2, <2>5 DEF FlushInv, CountFalls, HooksEmpty, Branches
<1>10. CASE TcDestroyFails("destroy egress", "close")
  <2>1. pc = "destroy egress" /\ pc' = "close" /\ ifindex \notin clsact
    BY <1>10 DEF TcDestroyFails, FlushWorks
  <2>2. n' = n - 1
    BY <1>10 DEF TcDestroyFails
  <2>3. n <= 0
    BY <2>1 DEF FlushInv, CountFalls
  <2>4. ~(n' >= 0)
    BY <2>2, <2>3, <1>r
  <2> QED
    BY <2>1, <2>4 DEF FlushInv, CountFalls, HooksEmpty, Branches
<1>11. CASE XdpDetachOk
  <2>1. /\ pc = "xdp detach" /\ pc' = "close"
        /\ module_name' = module_name /\ object' = object /\ ifindex' = ifindex
    BY <1>11 DEF XdpDetachOk, bpf, interface
  <2>2. object # None /\ ifindex \in Interfaces /\ Kind[module_name] = "xdp"
    BY <2>1, <1>t DEF FlushInv, Branches, UnloadPhase, Detaching
  <2> QED
    BY <2>1, <2>2 DEF FlushInv, CountFalls, HooksEmpty, Branches
<1>12. CASE XdpDetachFails
  <2>1. pc' = "close" /\ n' = -1
    BY <1>12 DEF XdpDetachFails
  <2>2. ~(n' >= 0)
    BY <2>1
  <2> QED
    BY <2>1, <2>2 DEF FlushInv, CountFalls, HooksEmpty, Branches
<1>13. CASE CloseModule
  <2>1. pc' \in {"exited", "ready"}
    BY <1>13 DEF CloseModule
  <2> QED
    BY <2>1 DEF FlushInv, CountFalls, HooksEmpty, Branches
<1>14. CASE UNCHANGED vars
  BY <1>14 DEF vars, bpf, interface, kernel, locals, FlushInv, CountFalls, HooksEmpty, Branches
<1> QED
  BY <1>1, <1>2, <1>3, <1>4, <1>5, <1>6, <1>7, <1>8, <1>9, <1>10, <1>11, <1>12, <1>13, <1>14
  DEF Next, UnloadStep

LEMMA FlushAlways == ASSUME FlushWorks PROVE Spec => []FlushInv
<1>1. IInv /\ FlushInv /\ [Next]_vars => FlushInv'
  BY FlushNext
<1> QED
  BY FlushInit, IInvAlways, <1>1, PTL DEF Spec

-----------------------------------------------------------------------------

\* Only the program of a TC module is in TC hooks, and only on ifindex: once
\* these are empty the object runs nowhere.
LEMMA CleanStep ==
    ASSUME IInv, FlushInv, [Next]_vars, pc = "close", n >= 0, Kind[module_name] = "tc"
    PROVE  /\ \A p \in TcPoints : hooks'[<<ifindex, p>>] = None
           /\ \A s \in Slots : hooks'[s] # object
<1>1. object # None /\ \A p \in TcPoints : hooks[<<ifindex, p>>] = None
  BY DEF FlushInv, Branches, HooksEmpty
<1>2. PlacedOnInterface
  BY DEF IInv, Safe
<1>3. ASSUME NEW s \in Slots, hooks[s] = object PROVE FALSE
  <2>1. s[1] = ifindex /\ s[2] \notin XdpModes
    BY <1>1, <1>2, <1>3 DEF PlacedOnInterface
  <2>2. s = <<ifindex, s[2]>> /\ s[2] \in TcPoints
    BY <2>1 DEF Slots, Hooks
  <2> QED
    BY <1>1, <1>3, <2>2
<1>4. hooks' = hooks
  BY DEF Next, Command, LoadStep, UnloadStep, LoadAlreadyLoaded, LoadRefused, LoadCommand,
         UnloadCommand, SwitchModule, ExitWithModule, ExitWithoutModule, SetDefaultInterface,
         SetDefaultAttachmentPoint, SetDefaultRestore, OpenObject, OpenFails, LoadObject,
         LoadObjectFails, AttachBegin, AttachImpossible, TcAttachOk, TcAttachFails, TcAttachDone,
         XdpAttachOk, XdpAttachFails, FinishLoad, DetachBegin, DetachImpossible, TcDetachOk,
         TcDetachFails, TcDetachDone, TcDestroyOk, TcDestroyFails, XdpDetachOk, XdpDetachFails,
         CloseModule, Crash, Restart, vars, kernel
<1> QED
  BY <1>1, <1>3, <1>4

\* If bpf_tc_hook_destroy does not fail, a TC unload that reports success
\* leaves both TC hooks of the interface empty and its program nowhere,
\* whatever other calls failed before, whatever set-default has done to the
\* attachment points and whatever a killed process has left behind.
THEOREM UnloadCleansTc == ASSUME FlushWorks PROVE Spec => TcUnloadCleans
<1>1. IInv /\ FlushInv /\ [Next]_vars =>
        [ pc = "close" /\ n >= 0 /\ Kind[module_name] = "tc" =>
            /\ \A p \in TcPoints : hooks'[<<ifindex, p>>] = None
            /\ \A s \in Slots : hooks'[s] # object ]_vars
  BY CleanStep
<1> QED
  BY FlushAlways, IInvAlways, <1>1, PTL DEF Spec, TcUnloadCleans
=============================================================================
