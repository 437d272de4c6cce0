------------------------- MODULE MCAttachmentArgument -------------------------
(***************************************************************************)
(* Every text of at most MaxLength symbols, four of them names of hooks or *)
(* a part of one.                                                          *)
(***************************************************************************)
EXTENDS AttachmentArgument

CONSTANT MaxLength

MCTexts == UNION {[1..k -> Symbols] : k \in 0..MaxLength}
=============================================================================
