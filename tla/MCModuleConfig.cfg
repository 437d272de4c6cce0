\* Four files, every line of two arguments, every call may fail; four tails and
\* room for three entries, so that the map gets full.
SPECIFICATION Spec
CONSTANTS
    None = None
    ElfFaults <- MCElfFaults
    Files <- MCFiles
    Keys = {"loss", "delay"}
    MAX_CONFIG_ENTRIES = 2
    Tails = {zeros, chunk, leftover, top}
    Zeros = zeros
    Lines <- MCLines
    Width = 3
SYMMETRY TailSymmetry
INVARIANTS TypeOK ElfReleased SeesOnlyWhatIsThere KeysOfModule OverrunsOnlyIfTooLong
PROPERTIES ConfigAppliesFirstKey
\* A copy beyond config_keys ends the model.
CHECK_DEADLOCK FALSE
