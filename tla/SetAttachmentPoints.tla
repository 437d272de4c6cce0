------------------------- MODULE SetAttachmentPoints -------------------------
(***************************************************************************)
(* The loop of set_attachment_points (core/configuration.c) over the       *)
(* tokens of its argument, one iteration a step.  AttachPoints states what *)
(* the loop leaves in the context without saying how (TcOf, XdpOf), and    *)
(* the loader uses that; here the loop is shown to compute it.             *)
(***************************************************************************)
EXTENDS AttachPoints

VARIABLES attach_points,      \* the parts of the argument, as tokens
          i,                  \* the loop variable, from 1
          tc_attach_points, xdp_attach_point,
          xdp_flags,          \* XDP tokens met
          pc                  \* "split" and "not split" are of AttachmentArgument

vars == <<attach_points, i, tc_attach_points, xdp_attach_point, xdp_flags, pc>>

\* The flag words are reset before the loop.
Reset ==
    /\ i' = 1
    /\ tc_attach_points' = {} /\ xdp_attach_point' = {}
    /\ xdp_flags' = 0
    /\ pc' = "loop"

\* An iteration whose token names a TC hook.
TcToken ==
    /\ pc = "loop" /\ i <= Len(attach_points)
    /\ attach_points[i] \in TcPoints
    /\ tc_attach_points' = tc_attach_points \cup {attach_points[i]}
    /\ i' = i + 1
    /\ UNCHANGED <<attach_points, xdp_attach_point, xdp_flags, pc>>

\* Mutant: the second XDP token is refused before its bit is set.
XdpTokenRefusedFirst ==
    /\ pc = "loop" /\ i <= Len(attach_points)
    /\ attach_points[i] \in XdpModes
    /\ xdp_flags' = xdp_flags + 1
    /\ xdp_attach_point' = IF xdp_flags' > 1 THEN xdp_attach_point
                           ELSE xdp_attach_point \cup {attach_points[i]}
    /\ i' = i + 1
    /\ pc' = IF xdp_flags' > 1 THEN "refused" ELSE "loop"
    /\ UNCHANGED <<attach_points, tc_attach_points>>

\* Mutant: the error is printed and the loop goes on.
XdpTokenNoReturn ==
    /\ pc = "loop" /\ i <= Len(attach_points)
    /\ attach_points[i] \in XdpModes
    /\ xdp_attach_point' = xdp_attach_point \cup {attach_points[i]}
    /\ xdp_flags' = xdp_flags + 1
    /\ i' = i + 1
    /\ UNCHANGED <<attach_points, tc_attach_points, pc>>

\* An iteration whose token names an XDP mode: its bit is set, and the second
\* such token ends the loop with an error that the caller is not told of.
XdpToken ==
    /\ pc = "loop" /\ i <= Len(attach_points)
    /\ attach_points[i] \in XdpModes
    /\ xdp_attach_point' = xdp_attach_point \cup {attach_points[i]}
    /\ xdp_flags' = xdp_flags + 1
    /\ i' = i + 1
    /\ pc' = IF xdp_flags' > 1 THEN "refused" ELSE "loop"
    /\ UNCHANGED <<attach_points, tc_attach_points>>

\* Mutant: an unknown token ends the loop.
InvalidTokenStops ==
    /\ pc = "loop" /\ i <= Len(attach_points)
    /\ attach_points[i] \notin Hooks
    /\ i' = i + 1
    /\ pc' = "done"
    /\ UNCHANGED <<attach_points, tc_attach_points, xdp_attach_point, xdp_flags>>

\* Anything else is skipped with a warning.
InvalidToken ==
    /\ pc = "loop" /\ i <= Len(attach_points)
    /\ attach_points[i] \notin Hooks
    /\ i' = i + 1
    /\ UNCHANGED <<attach_points, tc_attach_points, xdp_attach_point, xdp_flags, pc>>

Return ==
    /\ pc = "loop" /\ i > Len(attach_points)
    /\ pc' = "done"
    /\ UNCHANGED <<attach_points, i, tc_attach_points, xdp_attach_point, xdp_flags>>

Next == TcToken \/ XdpToken \/ InvalidToken \/ Return

-----------------------------------------------------------------------------

\* The locals of the loop have their types.
TypeOK ==
    /\ attach_points \in Seq(Tokens)
    /\ i \in Nat \ {0}
    /\ tc_attach_points \subseteq TcPoints
    /\ xdp_attach_point \subseteq XdpModes
    /\ xdp_flags \in 0..2
    /\ pc \in {"split", "not split", "loop", "done", "refused"}

\* However it ends, the loop leaves TcOf and XdpOf of its argument behind.
ComputesPoints ==
    pc \in {"done", "refused"} => /\ tc_attach_points = TcOf(attach_points)
                                  /\ xdp_attach_point = XdpOf(attach_points)

\* The error is printed exactly for an argument with two XDP tokens, be they
\* the same mode twice.
TwoModes(raw) == \E j, k \in DOMAIN raw : j < k /\ {raw[j], raw[k]} \subseteq XdpModes
RefusesTwoModes ==
    /\ pc = "refused" => TwoModes(attach_points)
    /\ pc = "done" => ~TwoModes(attach_points)
=============================================================================
