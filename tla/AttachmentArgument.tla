-------------------------- MODULE AttachmentArgument --------------------------
(***************************************************************************)
(* An attachment-point argument from the text the user types to the flag   *)
(* words: load and set-default hand it to set_attachment_points, which     *)
(* splits it with strsplit (StrSplit), takes the spaces out of every part  *)
(* and looks at the parts one by one (SetAttachmentPoints).                *)
(*                                                                         *)
(* A symbol stands for a piece of a name: "ingress" is the symbol itself,  *)
(* "BPF_TC_INGRESS" is "FLAG" followed by it, so that a text can be cut    *)
(* within a name as the buffer of the load command cuts it.                *)
(***************************************************************************)
EXTENDS SetAttachmentPoints, StrSplit

CONSTANT BufferSize     \* attachment_points[40] of load_module_command

ASSUME BufferAssumption == BufferSize \in Nat \ {0}

VARIABLE typed          \* the argument as typed

argument == <<typed, split, vars>>

\* snprintf into the buffer of the command.
Cut(text) == IF Len(text) < BufferSize THEN text ELSE SubSeq(text, 1, BufferSize - 1)

\* remove_char(part, ' '), which copies the part onto itself symbol by symbol.
RemoveSpaces(part) ==
    LET kept[j \in 0..Len(part)] ==
            IF j = 0 THEN <<>>
            ELSE IF part[j] = " " THEN kept[j - 1] ELSE Append(kept[j - 1], part[j])
    IN  kept[Len(part)]

\* The two names of a hook.
Names(hook) == { <<hook>>, <<"FLAG", hook>> }

\* Mutant: strncmp with the length of the part.
TokenOfPrefix(part) ==
    LET word == RemoveSpaces(part)
        matches(h) == \E name \in Names(h) : Len(word) <= Len(name) /\ SubSeq(name, 1, Len(word)) = word
    IN  IF \E h \in Hooks : matches(h) THEN CHOOSE h \in Hooks : matches(h) ELSE "invalid"

\* The strcmp chain.
TokenOf(part) ==
    LET word == RemoveSpaces(part)
    IN  IF \E h \in Hooks : word \in Names(h)
        THEN CHOOSE h \in Hooks : word \in Names(h) ELSE "invalid"

TokensOf(parts) == [j \in 1..Len(parts) |-> TokenOf(parts[j])]

ArgumentInit ==
    /\ typed \in Texts /\ str = Cut(typed)
    /\ SplitInit
    /\ attach_points = <<>> /\ i = 1
    /\ tc_attach_points = {} /\ xdp_attach_point = {} /\ xdp_flags = 0
    /\ pc = "split"

\* A step of strsplit.
SplitStep == pc = "split" /\ SplitNext /\ UNCHANGED <<typed, vars>>

\* "Failed to split attachment point": the flag words stay as they are.
NotSplit ==
    /\ pc = "split" /\ at = "NULL" /\ max_parts = 0
    /\ pc' = "not split"
    /\ UNCHANGED <<typed, split, attach_points, i, tc_attach_points, xdp_attach_point, xdp_flags>>

\* The flag words are reset and the loop begins.
BeginLoop ==
    /\ pc = "split" /\ at = "returned" /\ max_parts = 0
    /\ attach_points' = TokensOf(result)
    /\ Reset
    /\ UNCHANGED <<typed, split>>

\* An iteration of set_attachment_points.
LoopStep == Next /\ UNCHANGED <<typed, split>>

ArgumentNext == SplitStep \/ NotSplit \/ BeginLoop \/ LoopStep

ArgumentSpec == ArgumentInit /\ [][ArgumentNext]_argument

-----------------------------------------------------------------------------
(* Properties.                                                             *)

\* The buffer of load may cut an argument within a name.  As long as only
\* names of hooks were typed, what is left of a name is never taken for
\* another: no hook is used that was not asked for.
CutAddsNothing ==
    pc \in {"done", "refused"} =>
        LET tokens == TokensOf(Parts(typed, 0))
        IN  (\A j \in DOMAIN tokens : tokens[j] # "invalid")
              => tc_attach_points \subseteq TcOf(tokens) /\ xdp_attach_point \subseteq XdpOf(tokens)
=============================================================================
