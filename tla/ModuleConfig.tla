---------------------------- MODULE ModuleConfig ----------------------------
(***************************************************************************)
(* The run-time configuration of a module: set_module copies the keys its  *)
(* ELF file declares into the context (core/configuration.c), and the      *)
(* config command checks what the user types against them and writes the   *)
(* config map (cli/commands/config.c).  The ELF file is read as ElfReader  *)
(* says: for the attachment, for the keys, and for the detachment.         *)
(*                                                                         *)
(* A key is a string, "" the sentinel; config_keys is never cleared.       *)
(* Behind config_keys in bpf_context_t is the pointer `object': once a     *)
(* copy goes beyond the array anything may happen, and the model stops.    *)
(*                                                                         *)
(* A key of the map has CONFIG_KEY_SIZE bytes.  The handler pads its key   *)
(* with zeros; the config command passes a part of the argument that       *)
(* strdup allocated, and what follows it in the heap is the rest of the    *)
(* key: any tail.                                                          *)
(***************************************************************************)
EXTENDS ElfReader, FiniteSets

CONSTANTS Files,          \* the ELF files of the compiled modules
          Keys,           \* the keys their sections declare and the user types
          MAX_CONFIG_ENTRIES,
          Tails,          \* what may follow a key in the heap
          Zeros,          \* one of them: what a handler's keys end with
          Lines,          \* the arguments of config the user types
          Width           \* bits of the value strtoull returns

ASSUME FilesAssumption ==
    \A f \in Files : f \in Seq([name : STRING, data : Seq(Keys \cup {""})])
ASSUME EntriesAssumption == MAX_CONFIG_ENTRIES \in Nat \ {0}
ASSUME WidthAssumption   == Width \in Nat /\ 2^Width > 0
ASSUME TailsAssumption   == Zeros \in Tails
ASSUME LinesAssumption   ==
    \A l \in Lines :
        /\ Len(l) \in Nat /\ DOMAIN l = 1..Len(l)
        /\ \A a \in DOMAIN l : Len(l[a]) = 2 => l[a][1] \in Keys /\ l[a][2] \in Int \cup {None}

VARIABLES module,         \* the file of the loaded module, or None
          config_keys,
          config_map,     \* the module's map, a missing entry None
          line, arg,      \* the arguments of the config command, the next one
          i,              \* the loop over the entries of the section
          at,             \* the control point
          before, failed  \* auxiliary: config_map when the command began, and
                          \* the arguments the kernel refused

keys    == <<module, config_keys, i>>
command == <<config_map, line, arg, before, failed>>
vars    == <<reader, keys, command, at>>

MapKeys  == Keys \X Tails
NoValues == [k \in MapKeys |-> None]

Init ==
    /\ ElfInit
    /\ module = None /\ config_keys = [k \in 1..MAX_CONFIG_ENTRIES |-> ""] /\ i = 0
    /\ config_map = NoValues /\ line = <<>> /\ arg = 1 /\ before = NoValues /\ failed = {}
    /\ at = "prompt"

-----------------------------------------------------------------------------
(* Loading and unloading, as far as the ELF file and the keys go.          *)

\* load_bpf_module: a new object with an empty map, and the kind of module.
LoadModule(f) ==
    /\ at = "prompt" /\ module = None
    /\ module' = f
    /\ config_map' = NoValues
    /\ Look(f, KindSections)
    /\ at' = "attach"
    /\ UNCHANGED <<config_keys, i, line, arg, before, failed>>

\* Neither a TC nor an XDP module, or a failure that Loader knows of.
LoadFails ==
    /\ at = "attach" /\ elf_at = "returned"
    /\ module' = None
    /\ at' = "prompt"
    /\ UNCHANGED <<reader, config_keys, i, command>>

Loaded ==
    /\ at = "attach" /\ elf_at = "returned" /\ found # {}
    /\ Look(module, <<KeysSection>>)
    /\ at' = "keys"
    /\ UNCHANGED <<keys, command>>

\* "No config keys found": the keys of an earlier module stay.
NoKeys ==
    /\ at = "keys" /\ elf_at = "returned" /\ data = None
    /\ at' = "prompt"
    /\ UNCHANGED <<reader, keys, command>>

BeginCopy ==
    /\ at = "keys" /\ elf_at = "returned" /\ data # None
    /\ i' = 1
    /\ at' = "copy"
    /\ UNCHANGED <<reader, module, config_keys, command>>

\* Mutant: the sentinel ends the loop before it is copied.
CopyKeyNoSentinel ==
    /\ at = "copy" /\ i <= Len(data) /\ i <= MAX_CONFIG_ENTRIES
    /\ config_keys' = IF data[i] = "" THEN config_keys ELSE [config_keys EXCEPT ![i] = data[i]]
    /\ at' = IF data[i] = "" THEN "prompt" ELSE "copy"
    /\ i' = i + 1
    /\ UNCHANGED <<reader, module, command>>

\* One entry is copied; the sentinel is the last.
CopyKey ==
    /\ at = "copy" /\ i <= Len(data) /\ i <= MAX_CONFIG_ENTRIES
    /\ config_keys' = [config_keys EXCEPT ![i] = data[i]]
    /\ at' = IF data[i] = "" THEN "prompt" ELSE "copy"
    /\ i' = i + 1
    /\ UNCHANGED <<reader, module, command>>

\* Mutant: the loop takes one entry less to fit.
CopyBeyondEarly ==
    /\ at = "copy" /\ i <= Len(data) /\ i >= MAX_CONFIG_ENTRIES
    /\ at' = "undefined"
    /\ UNCHANGED <<reader, keys, command>>

\* Nothing but the section bounds the loop: an entry is written behind the array.
CopyBeyond ==
    /\ at = "copy" /\ i <= Len(data) /\ i > MAX_CONFIG_ENTRIES
    /\ at' = "undefined"
    /\ UNCHANGED <<reader, keys, command>>

\* The section ends without a sentinel.
EndOfSection ==
    /\ at = "copy" /\ i > Len(data)
    /\ at' = "prompt"
    /\ UNCHANGED <<reader, keys, command>>

\* detach_bpf_program looks at the file again, and the object is closed
\* whatever it finds.
UnloadModule ==
    /\ at = "prompt" /\ module # None
    /\ Look(module, KindSections)
    /\ at' = "detach"
    /\ UNCHANGED <<keys, command>>

Unloaded ==
    /\ at = "detach" /\ elf_at = "returned"
    /\ module' = None
    /\ at' = "prompt"
    /\ UNCHANGED <<reader, config_keys, i, command>>

-----------------------------------------------------------------------------
(* The config command.  An argument is what strsplit makes of it at '=',   *)
(* and None as a value is a text strtoull finds no digits in.              *)

\* Mutant: a negative number stays negative.
strtoullSigned(text) ==
    LET max == 2^Width - 1
    IN  IF text = None THEN 0 ELSE IF text > max THEN max ELSE text

\* A negative number wraps, one that is too large saturates.
strtoull(text) ==
    LET max == 2^Width - 1
    IN  IF text = None THEN 0
        ELSE IF text > max \/ -text > max THEN max ELSE text % 2^Width

ConfigCommand(l) ==
    /\ at = "prompt" /\ module # None
    /\ line' = l /\ arg' = 1
    /\ before' = config_map /\ failed' = {}
    /\ at' = "config"
    /\ UNCHANGED <<reader, keys, config_map>>

\* The argument the loop is at, of which some part is missing or not.
Argument(complete) == at = "config" /\ arg <= Len(line) /\ (Len(line[arg]) = 2) = complete

NextArgument == arg' = arg + 1 /\ UNCHANGED <<reader, keys, line, before, at>>

\* Mutant: an argument without a value ends the command.
MalformedArgumentEnds ==
    /\ Argument(FALSE)
    /\ arg' = Len(line) + 1
    /\ UNCHANGED <<reader, keys, line, before, at, config_map, failed>>

\* No '=' or nothing beside it.
MalformedArgument ==
    /\ Argument(FALSE)
    /\ NextArgument
    /\ UNCHANGED <<config_map, failed>>

\* Only the first key is compared.
UnknownKey ==
    /\ Argument(TRUE) /\ line[arg][1] # config_keys[1]
    /\ NextArgument
    /\ UNCHANGED <<config_map, failed>>

\* The map has room for the key: its max_entries, and no replacement.
Room(k) ==
    config_map[k] # None \/ Cardinality({l \in MapKeys : config_map[l] # None}) <= MAX_CONFIG_ENTRIES

UpdateMap ==
    /\ Argument(TRUE) /\ line[arg][1] = config_keys[1]
    /\ \E tail \in Tails :
          /\ Room(<<line[arg][1], tail>>)
          /\ config_map' = [config_map EXCEPT ![<<line[arg][1], tail>>] = strtoull(line[arg][2])]
    /\ NextArgument
    /\ UNCHANGED failed

UpdateMapFails ==
    /\ Argument(TRUE) /\ line[arg][1] = config_keys[1]
    /\ "update" \in ElfFaults \/ \E tail \in Tails : ~Room(<<line[arg][1], tail>>)
    /\ failed' = failed \cup {arg}
    /\ NextArgument
    /\ UNCHANGED config_map

ConfigDone ==
    /\ at = "config" /\ arg > Len(line)
    /\ at' = "prompt"
    /\ UNCHANGED <<reader, keys, command>>

-----------------------------------------------------------------------------

ReaderStep == ElfNext /\ UNCHANGED <<keys, command, at>>

Next ==
    \/ ReaderStep
    \/ \E f \in Files : LoadModule(f)
    \/ LoadFails \/ Loaded \/ NoKeys
    \/ BeginCopy \/ CopyKey \/ CopyBeyond \/ EndOfSection
    \/ UnloadModule \/ Unloaded
    \/ \E l \in Lines : ConfigCommand(l)
    \/ MalformedArgument \/ UnknownKey \/ UpdateMap \/ UpdateMapFails
    \/ ConfigDone

Spec == Init /\ [][Next]_vars

-----------------------------------------------------------------------------
(* Properties.                                                             *)

Entries == Keys \cup {""}

\* The context, the locals and the control points have their types; config_keys
\* never grows, and the map never holds more than its max_entries.
TypeOK ==
    /\ module \in Files \cup {None} /\ file \in Files \cup {None}
    /\ data \in Seq(Entries) \cup {None}
    /\ config_keys \in [1..MAX_CONFIG_ENTRIES -> Entries]
    /\ config_map \in [MapKeys -> 0..(2^Width - 1) \cup {None}]
    /\ Cardinality({k \in MapKeys : config_map[k] # None}) <= MAX_CONFIG_ENTRIES + 1
    /\ i \in 0..(MAX_CONFIG_ENTRIES + 1)
    /\ at \in {"prompt", "attach", "keys", "copy", "detach", "config", "undefined"}

\* The entries of the section up to its sentinel.
BeforeSentinel(section) == {k \in DOMAIN section : \A l \in 1..(k - 1) : section[l] # ""}

\* When its section could be read, the keys in use are those of the loaded
\* module up to the sentinel and the sentinel: a key of an earlier module, still
\* in the array, is neither accepted nor listed.
KeysOfModule ==
    at \in {"prompt", "config"} /\ data # None =>
        \A k \in BeforeSentinel(data) : config_keys[k] = data[k]

\* The copy goes beyond config_keys only for a section without a sentinel among
\* its first MAX_CONFIG_ENTRIES entries.
OverrunsOnlyIfTooLong ==
    at = "undefined" =>
        /\ Len(data) > MAX_CONFIG_ENTRIES
        /\ \A k \in 1..MAX_CONFIG_ENTRIES : data[k] # ""

\* Of a line of arguments the command takes those for the first key, the only one
\* it compares (config.c:35; the others are refused as unknown).  Whatever is wrong
\* with the arguments before and after it, the last value given for the first key
\* is in the map when the command ends, under that key and some tail; every other
\* entry is as before, and none gets a value that was not given for its key.
ConfigAppliesFirstKey ==
    [][ at = "config" /\ at' = "prompt" =>
          \A k \in Keys :
              LET taken == {a \in DOMAIN line : Len(line[a]) = 2 /\ line[a][1] = k
                                                  /\ k = config_keys[1] /\ a \notin failed}
                  value(a) == strtoull(line[a][2])
              IN  /\ taken # {} => \E tail \in Tails :
                        config_map[<<k, tail>>] = value(CHOOSE a \in taken : \A b \in taken : b <= a)
                  /\ \A tail \in Tails : config_map[<<k, tail>>] \in
                        {before[<<k, tail>>]} \cup {value(a) : a \in taken} ]_vars

-----------------------------------------------------------------------------
(* What is said of the program, and is not so.                             *)

\* What a handler of the module finds under k.
get_config_value(k) == config_map[<<k, Zeros>>]

\* config.h:17-18: config updates configuration parameters of the currently
\* loaded module; when it says that it has, the handlers read the new value.
ConfigReachesModule ==
    [][ UpdateMap =>
          \A k \in Keys : k = line[arg][1] => get_config_value(k)' = strtoull(line[arg][2]) ]_vars
=============================================================================
