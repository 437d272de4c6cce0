------------------------------ MODULE MCLoader ------------------------------
(***************************************************************************)
(* Instances of the loader for TLC.                                        *)
(***************************************************************************)
EXTENDS LoaderProps, TLC

CONSTANTS tc, xdp, bare, o1, o2, o3, eth, veth

MCKind == tc :> "tc" @@ xdp :> "xdp" @@ bare :> "other"
MCConfigKeys == tc :> <<"packet_loss_percentage">> @@ xdp :> <<"packet_loss_percentage">> @@ bare :> None

\* veth has no native XDP here, eth has: both answers of the kernel to flags 0.
MCXdpSupport == [ifc \in Interfaces |-> IF ifc = eth THEN {"generic", "driver"} ELSE {"generic"}]

\* One TC point, both, a native and a generic mode, two modes at once (an
\* error the load ignores), nothing valid.
MCAttachArgs == { <<"ingress">>, <<"egress", "ingress">>, <<"driver">>,
                  <<"generic", "driver", "egress">>, <<"invalid">> }

\* The same without the arguments that are a part of another.
MCFewArgs == { <<"egress", "ingress">>, <<"driver">>, <<"generic", "driver", "egress">> }

MCNoFaults == {}
MCAllFaults == FaultNames
MCNoDestroyFault == FaultNames \ {"tc_hook_destroy"}
MCAllCommands == CommandNames

ObjectSymmetry == Permutations(Objects)
=============================================================================
