----------------------------- MODULE MCEmulator -----------------------------
(***************************************************************************)
(* Instances of the process for TLC.                                       *)
(***************************************************************************)
EXTENDS Emulator, TLC

CONSTANTS tc, xdp, o1, eth

MCKind == tc :> "tc" @@ xdp :> "xdp"
MCConfigKeys == tc :> <<"packet_loss_percentage">> @@ xdp :> <<"packet_loss_percentage">>
MCXdpSupport == eth :> {"generic", "driver"}

\* Both TC points and no mode, one mode, two modes at once (an error the load
\* ignores).
MCAttachArgs == { <<"egress", "ingress">>, <<"driver">>, <<"generic", "driver", "egress">> }

MCCommands == CommandNames \ {"set-default attachment-point"}
MCSetupFaults == SetupFaultNames
=============================================================================
