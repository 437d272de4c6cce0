----------------------------- MODULE AttachPoints -----------------------------
(***************************************************************************)
(* The vocabulary of attachment points and what an attachment-point        *)
(* argument ("ingress|egress|driver") means to the program.                *)
(*                                                                         *)
(* An argument is the sequence of its '|'-separated tokens with both       *)
(* spellings of a token ("ingress", "BPF_TC_INGRESS") identified.  Any     *)
(* token the code does not know is "invalid".  A flag word of the C        *)
(* program is the set of the bits it has.                                  *)
(***************************************************************************)
EXTENDS Integers, Sequences

TcPoints == {"ingress", "egress"}
XdpModes == {"generic", "driver", "offload"}
Hooks    == TcPoints \cup XdpModes
Tokens   == Hooks \cup {"invalid"}

\* The tokens of raw that set_attachment_points looks at: it returns in the
\* iteration that meets the second XDP token (configuration.c:49-54), so a
\* token is scanned unless two XDP tokens come before it.
Scanned(raw) ==
    {j \in DOMAIN raw :
        \A k, l \in DOMAIN raw :
            k < l /\ l < j => raw[k] \notin XdpModes \/ raw[l] \notin XdpModes}

\* Mutant: the TC bits go to the XDP flags too.
XdpOfAnyHook(raw) == {raw[j] : j \in Scanned(raw)} \cap Hooks

\* The flag words the argument leaves in the context.
TcOf(raw)  == {raw[j] : j \in Scanned(raw)} \cap TcPoints
XdpOf(raw) == {raw[j] : j \in Scanned(raw)} \cap XdpModes

\* points[] of attach_bpf_program and detach_bpf_program: the requested TC
\* hooks, ingress first.
Points(tc) ==
    (IF "ingress" \in tc THEN <<"ingress">> ELSE <<>>)
    \o (IF "egress" \in tc THEN <<"egress">> ELSE <<>>)
=============================================================================
