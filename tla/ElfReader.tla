----------------------------- MODULE ElfReader -----------------------------
(***************************************************************************)
(* Reading the ELF file of a module (utils/elf_utils.c).  attach and       *)
(* detach ask whether it has the sections of a TC or of an XDP module      *)
(* (open_elf_file, elf_has_section twice, close_elf_file); set_module      *)
(* reads its .config_keys (read_elf_section).  Both are a list of          *)
(* sections looked for through one descriptor, each with an ELF handle of  *)
(* its own.                                                                *)
(*                                                                         *)
(* A file is the sequence of its sections, each a name and its data: the   *)
(* sequence of its entries of CONFIG_KEY_SIZE bytes.                       *)
(***************************************************************************)
EXTENDS Integers, Sequences

CONSTANTS ElfFaults,      \* the calls that may fail in this instance
          None            \* NULL, no file

ElfFaultNames == {"open", "handle", "section", "data", "malloc"}
KeysSection   == ".config_keys"
KindSections  == <<"classifier", "xdp">>

VARIABLES file,           \* the file read, or None
          todo,           \* the names of the sections still to be looked for
          elf_fd, elf,    \* is the descriptor open, is the handle
          scn,            \* the section the scan is at
          found,          \* the names found
          data,           \* the copy read_elf_section returns, or None
          elf_at          \* the control point

reader == <<file, todo, elf_fd, elf, scn, found, data, elf_at>>

ElfInit ==
    /\ file = None /\ todo = <<>>
    /\ elf_fd = FALSE /\ elf = FALSE /\ scn = 0
    /\ found = {} /\ data = None
    /\ elf_at = "idle"

\* A call that looks for the named sections of f.
Look(f, names) ==
    /\ elf_at \in {"idle", "returned"}
    /\ file' = f /\ todo' = names
    /\ found' = {} /\ data' = None
    /\ elf_at' = "open"
    /\ UNCHANGED <<elf_fd, elf, scn>>

OpenElfFile ==
    /\ elf_at = "open"
    /\ elf_fd' = TRUE
    /\ elf_at' = "handle"
    /\ UNCHANGED <<file, todo, elf, scn, found, data>>

OpenElfFileFails ==
    /\ elf_at = "open" /\ "open" \in ElfFaults
    /\ elf_at' = "returned"
    /\ UNCHANGED <<file, todo, elf_fd, elf, scn, found, data>>

GetElfHandle ==
    /\ elf_at = "handle"
    /\ elf' = TRUE /\ scn' = 0
    /\ elf_at' = "scan"
    /\ UNCHANGED <<file, todo, elf_fd, found, data>>

\* The next section to look for, or the end of the call.
Proceed ==
    /\ todo' = Tail(todo)
    /\ elf_at' = IF Tail(todo) = <<>> THEN "close" ELSE "handle"

GetElfHandleFails ==
    /\ elf_at = "handle" /\ "handle" \in ElfFaults
    /\ Proceed
    /\ UNCHANGED <<file, elf_fd, elf, scn, found, data>>

Sought == Head(todo)
Here   == file[scn + 1]

\* goto_elf_section: elf_nextscn until a section has the name.
NextSection ==
    /\ elf_at = "scan" /\ scn < Len(file)
    /\ scn' = scn + 1
    /\ IF Here.name = Sought
       THEN /\ found' = found \cup {Sought}
            /\ elf_at' = IF Sought = KeysSection THEN "data" ELSE "end"
       ELSE UNCHANGED <<found, elf_at>>
    /\ UNCHANGED <<file, todo, elf_fd, elf, data>>

\* Mutant: a scan that cannot go on returns the section it is at.
NoSectionButLast ==
    /\ elf_at = "scan"
    /\ scn = Len(file) \/ "section" \in ElfFaults
    /\ found' = IF scn > 0 THEN found \cup {Sought} ELSE found
    /\ elf_at' = "end"
    /\ UNCHANGED <<file, todo, elf_fd, elf, scn, data>>

\* No such section, or a header or a name that cannot be read.
NoSection ==
    /\ elf_at = "scan"
    /\ scn = Len(file) \/ "section" \in ElfFaults
    /\ elf_at' = "end"
    /\ UNCHANGED <<file, todo, elf_fd, elf, scn, found, data>>

\* elf_getdata, malloc and memcpy.
CopyData ==
    /\ elf_at = "data" /\ file[scn].data # <<>>
    /\ data' = file[scn].data
    /\ elf_at' = "end"
    /\ UNCHANGED <<file, todo, elf_fd, elf, scn, found>>

NoData ==
    /\ elf_at = "data"
    /\ file[scn].data = <<>> \/ ElfFaults \cap {"data", "malloc"} # {}
    /\ elf_at' = "end"
    /\ UNCHANGED <<file, todo, elf_fd, elf, scn, found, data>>

\* Mutant: the handle is ended only if the section was found.
CloseElfHandleIfFound ==
    /\ elf_at = "end"
    /\ elf' = (Sought \notin found)
    /\ Proceed
    /\ UNCHANGED <<file, elf_fd, scn, found, data>>

CloseElfHandle ==
    /\ elf_at = "end"
    /\ elf' = FALSE
    /\ Proceed
    /\ UNCHANGED <<file, elf_fd, scn, found, data>>

CloseElfFile ==
    /\ elf_at = "close"
    /\ elf_fd' = FALSE
    /\ elf_at' = "returned"
    /\ UNCHANGED <<file, todo, elf, scn, found, data>>

ElfNext ==
    \/ OpenElfFile \/ OpenElfFileFails
    \/ GetElfHandle \/ GetElfHandleFails
    \/ NextSection \/ NoSection
    \/ CopyData \/ NoData
    \/ CloseElfHandle \/ CloseElfFile

-----------------------------------------------------------------------------

\* Whichever call fails, no descriptor and no handle outlives the call, and a
\* handle never outlives its descriptor.
ElfReleased ==
    /\ elf_at \in {"idle", "returned"} => ~elf_fd /\ ~elf
    /\ elf => elf_fd /\ elf_at \in {"scan", "data", "end"}
    /\ elf_at \in {"handle", "scan", "data", "end", "close"} => elf_fd

\* A failed call may hide a section; it never makes one appear, and the data
\* returned is of the section asked for.
SeesOnlyWhatIsThere ==
    /\ \A name \in found : \E j \in DOMAIN file : file[j].name = name
    /\ data # None => \E j \in DOMAIN file : file[j].name = KeysSection /\ file[j].data = data
=============================================================================
