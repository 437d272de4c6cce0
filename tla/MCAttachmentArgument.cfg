\* Every text of 6 symbols through a buffer for 5, split without a limit (as
\* set_attachment_points does) and with limits (as config does).
SPECIFICATION ArgumentSpec
CONSTANTS
    Symbols = {"ingress", "generic", "driver", "FLAG", " ", "|"}
    Delim = "|"
    MaxLength = 6
    Texts <- MCTexts
    Limits = {0, 2}
    BufferSize = 6
INVARIANTS TypeOK ComputesPoints RefusesTwoModes SplitInBounds SplitOwnsHeap SplitsIntoParts CutAddsNothing
\* The function returns.
CHECK_DEADLOCK FALSE
