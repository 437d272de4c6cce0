-------------------------- MODULE ModuleConfigProofs --------------------------
(***************************************************************************)
(* The configuration: nothing of an ELF file is leaked, a failure never    *)
(* makes a section appear, the keys in use are those of the loaded module, *)
(* the copy leaves its array only for a section that is too long, and the  *)
(* config command applies the arguments for the first key; for all files,  *)
(* keys, faults and arguments.                                             *)
(***************************************************************************)
EXTENDS ModuleConfig, FiniteSetTheorems, TLAPS

-----------------------------------------------------------------------------
(* The descriptor and the handle.                                          *)

Scanning == {"handle", "scan", "data", "end", "close"}

\* Where they are open, at every control point.
HandleInv ==
    /\ elf_at \in {"idle", "open", "returned"} \cup Scanning
    /\ elf_at \notin Scanning => elf_fd = FALSE
    /\ elf_at \in Scanning => elf_fd = TRUE
    /\ elf_at \notin {"scan", "data", "end"} => elf = FALSE
    /\ elf \in BOOLEAN

LEMMA HandleInit == Init => HandleInv
  BY DEF Init, ElfInit, HandleInv, Scanning

LEMMA HandleLook ==
  ASSUME NEW f, NEW names, Look(f, names), HandleInv
  PROVE  HandleInv'
  BY DEF Look, HandleInv, Scanning

LEMMA HandleReader == HandleInv /\ ElfNext => HandleInv'
<1> SUFFICES ASSUME HandleInv, ElfNext PROVE HandleInv'
  OBVIOUS
<1> USE DEF HandleInv, Scanning
<1>1. CASE OpenElfFile
  BY <1>1 DEF OpenElfFile
<1>2. CASE OpenElfFileFails
  BY <1>2 DEF OpenElfFileFails
<1>3. CASE GetElfHandle
  BY <1>3 DEF GetElfHandle
<1>4. CASE GetElfHandleFails
  BY <1>4 DEF GetElfHandleFails, Proceed
<1>5. CASE NextSection
  BY <1>5 DEF NextSection
<1>6. CASE NoSection
  BY <1>6 DEF NoSection
<1>7. CASE CopyData
  BY <1>7 DEF CopyData
<1>8. CASE NoData
  BY <1>8 DEF NoData
<1>9. CASE CloseElfHandle
  BY <1>9 DEF CloseElfHandle, Proceed
<1>10. CASE CloseElfFile
  BY <1>10 DEF CloseElfFile
<1> QED
  BY <1>1, <1>2, <1>3, <1>4, <1>5, <1>6, <1>7, <1>8, <1>9, <1>10 DEF ElfNext

\* The steps of ModuleConfig as the reader sees them.
Quiet == LoadFails \/ NoKeys \/ BeginCopy \/ CopyKey \/ CopyBeyond \/ EndOfSection \/ Unloaded
         \/ (\E l \in Lines : ConfigCommand(l))
         \/ MalformedArgument \/ UnknownKey \/ UpdateMap \/ UpdateMapFails \/ ConfigDone
Looks == (\E f \in Files : LoadModule(f)) \/ Loaded \/ UnloadModule

LEMMA Cases == [Next]_vars => ReaderStep \/ Looks \/ Quiet \/ UNCHANGED vars
  BY DEF Next, Looks, Quiet

LEMMA QuietKeepsReader == Quiet => UNCHANGED reader
  BY DEF Quiet, LoadFails, NoKeys, BeginCopy, CopyKey, CopyBeyond, EndOfSection, Unloaded,
         ConfigCommand, MalformedArgument, UnknownKey, UpdateMap, UpdateMapFails, NextArgument,
         ConfigDone

LEMMA HandleStep == HandleInv /\ [Next]_vars => HandleInv'
<1> SUFFICES ASSUME HandleInv, [Next]_vars PROVE HandleInv'
  OBVIOUS
<1>1. CASE ReaderStep
  BY <1>1, HandleReader DEF ReaderStep
<1>2. CASE Looks
  BY <1>2, HandleLook DEF Looks, LoadModule, Loaded, UnloadModule
<1>3. CASE Quiet \/ UNCHANGED vars
  BY <1>3, QuietKeepsReader DEF vars, reader, HandleInv
<1> QED
  BY <1>1, <1>2, <1>3, Cases

\* Every path of elf_has_section and read_elf_section ends the handle and then
\* closes the descriptor it has opened.
THEOREM ReaderReleases == Spec => []ElfReleased
<1>1. HandleInv => ElfReleased
  BY DEF HandleInv, ElfReleased, Scanning
<1> QED
  BY <1>1, HandleInit, HandleStep, PTL DEF Spec

-----------------------------------------------------------------------------
(* What the scan has seen.                                                 *)

Scanned == {"scan", "data", "end"}
Sections == [name : STRING, data : Seq(Keys \cup {""})]

\* The file is one of the instance while a call is under way, the scan is within
\* it, and at "data" it is at the section of the keys.
ScanInv ==
    /\ module \in Files \cup {None}
    /\ at \in {"attach", "keys", "copy", "detach"} => module \in Files
    /\ elf_at # "idle" => file \in Files
    /\ elf_at = "idle" => found = {} /\ data = None
    /\ elf_at \in Scanned => scn \in Nat /\ scn <= Len(file)
    /\ elf_at = "data" => scn \in DOMAIN file /\ file[scn].name = KeysSection
    /\ SeesOnlyWhatIsThere

LEMMA ScanInit == Init => ScanInv
  BY DEF Init, ElfInit, ScanInv, Scanned, SeesOnlyWhatIsThere

LEMMA ScanLook ==
  ASSUME NEW f \in Files, NEW names, Look(f, names), ScanInv
  PROVE  /\ file' \in Files /\ found' = {} /\ data' = None /\ elf_at' = "open"
         /\ SeesOnlyWhatIsThere'
  BY DEF Look, SeesOnlyWhatIsThere

\* A step of the reader keeps the file.
LEMMA ReaderKeepsFile == ElfNext => UNCHANGED file /\ elf_at # "idle" /\ elf_at' # "idle"
  BY DEF ElfNext, OpenElfFile, OpenElfFileFails, GetElfHandle, GetElfHandleFails, NextSection,
         NoSection, CopyData, NoData, CloseElfHandle, CloseElfFile, Proceed

LEMMA SeqFacts == ASSUME NEW S, NEW q \in Seq(S) PROVE Len(q) \in Nat /\ DOMAIN q = 1..Len(q)
  OBVIOUS

LEMMA FileIsSeq == ASSUME NEW f \in Files PROVE f \in Seq(Sections) /\ Len(f) \in Nat /\ DOMAIN f = 1..Len(f)
<1>1. f \in Seq(Sections)
  BY FilesAssumption, Zenon DEF Sections
<1> QED
  BY <1>1, SeqFacts

LEMMA ScanReader == ScanInv /\ ReaderStep => ScanInv'
<1> SUFFICES ASSUME ScanInv, ReaderStep PROVE ScanInv'
  OBVIOUS
<1>1. /\ ElfNext /\ UNCHANGED <<module, at, file>> /\ file \in Files
      /\ elf_at # "idle" /\ elf_at' # "idle"
  BY ReaderKeepsFile DEF ReaderStep, keys, ScanInv
<1>2. Len(file) \in Nat /\ DOMAIN file = 1..Len(file)
  BY <1>1, FileIsSeq
<1>3. /\ elf_at' \in Scanned => scn' \in Nat /\ scn' <= Len(file)
      /\ elf_at' = "data" => scn' \in DOMAIN file /\ file[scn'].name = KeysSection
      /\ SeesOnlyWhatIsThere'
  <2> USE DEF ScanInv, Scanned
  <2>1. CASE OpenElfFile \/ OpenElfFileFails \/ CloseElfFile
    BY <1>1, <2>1 DEF OpenElfFile, OpenElfFileFails, CloseElfFile, SeesOnlyWhatIsThere
  <2>2. CASE GetElfHandle
    BY <1>1, <1>2, <2>2 DEF GetElfHandle, SeesOnlyWhatIsThere
  <2>3. CASE GetElfHandleFails \/ CloseElfHandle
    BY <1>1, <2>3 DEF GetElfHandleFails, CloseElfHandle, Proceed, SeesOnlyWhatIsThere
  <2>4. CASE NextSection
    <3>1. /\ scn \in Nat /\ scn' = scn + 1 /\ scn' <= Len(file) /\ scn' \in DOMAIN file
          /\ data' = data
      BY <1>1, <1>2, <2>4 DEF NextSection
    <3>2. CASE Here.name = Sought
      <4>1. found' = found \cup {Sought} /\ file[scn'].name = Sought
        BY <2>4, <3>1, <3>2 DEF NextSection, Here
      <4>2. elf_at' = "data" => Sought = KeysSection
        BY <2>4, <3>2 DEF NextSection
      <4>3. SeesOnlyWhatIsThere'
        BY <1>1, <3>1, <4>1 DEF SeesOnlyWhatIsThere
      <4> QED
        BY <3>1, <4>1, <4>2, <4>3
    <3>3. CASE Here.name # Sought
      <4>1. found' = found /\ elf_at' = "scan"
        BY <2>4, <3>3 DEF NextSection
      <4> QED
        BY <1>1, <3>1, <4>1 DEF SeesOnlyWhatIsThere
    <3> QED
      BY <3>2, <3>3
  <2>5. CASE NoSection \/ NoData
    BY <1>1, <2>5 DEF NoSection, NoData, SeesOnlyWhatIsThere
  <2>6. CASE CopyData
    <3>1. /\ scn \in Nat /\ scn <= Len(file) /\ scn \in DOMAIN file /\ file[scn].name = KeysSection
      BY <1>1, <2>6 DEF CopyData
    <3>2. data' = file[scn].data /\ UNCHANGED <<scn, found>> /\ elf_at' = "end"
      BY <2>6 DEF CopyData
    <3> QED
      BY <1>1, <3>1, <3>2 DEF SeesOnlyWhatIsThere
  <2> QED
    BY <1>1, <2>1, <2>2, <2>3, <2>4, <2>5, <2>6 DEF ElfNext
<1> QED
  BY <1>1, <1>3 DEF ScanInv

LEMMA ScanStep == ScanInv /\ [Next]_vars => ScanInv'
<1> SUFFICES ASSUME ScanInv, [Next]_vars PROVE ScanInv'
  OBVIOUS
<1>1. CASE ReaderStep
  BY <1>1, ScanReader
<1>2. CASE Looks
  <2>1. \E f \in Files : module' = f /\ \E names : Look(f, names)
    BY <1>2 DEF Looks, LoadModule, Loaded, UnloadModule, keys, ScanInv
  <2>2. /\ file' \in Files /\ found' = {} /\ data' = None /\ elf_at' = "open"
        /\ SeesOnlyWhatIsThere'
    BY <2>1, ScanLook
  <2> QED
    BY <2>1, <2>2 DEF ScanInv, Scanned
<1>3. CASE Quiet
  <2>1. UNCHANGED <<file, elf_at, found, data, scn>>
    BY <1>3, QuietKeepsReader DEF reader
  <2>2. module' \in Files \cup {None} /\ (at' \in {"attach", "keys", "copy", "detach"} => module' \in Files)
    BY <1>3 DEF ScanInv, Quiet, LoadFails, NoKeys, BeginCopy, CopyKey, CopyBeyond, EndOfSection,
         Unloaded, ConfigCommand, MalformedArgument, UnknownKey, UpdateMap, UpdateMapFails,
         NextArgument, Argument, ConfigDone, keys
  <2> QED
    BY <2>1, <2>2 DEF ScanInv, Scanned, SeesOnlyWhatIsThere
<1>4. CASE UNCHANGED vars
  BY <1>4 DEF vars, reader, keys, ScanInv, Scanned, SeesOnlyWhatIsThere
<1> QED
  BY <1>1, <1>2, <1>3, <1>4, Cases

\* Whatever calls fail, a section is only found in a file that has it, and the
\* data returned is that of the section of the keys.
THEOREM ReaderSeesWhatIsThere == Spec => []SeesOnlyWhatIsThere
<1>1. ScanInv => SeesOnlyWhatIsThere
  BY DEF ScanInv
<1> QED
  BY <1>1, ScanInit, ScanStep, PTL DEF Spec

-----------------------------------------------------------------------------
(* The calls of the reader and the control points of the configuration.    *)

Calling == {"open", "handle", "scan", "data", "end"}
Kinds   == {<<"classifier", "xdp">>, <<"xdp">>, <<>>}

\* There is a section to look for until the call ends; attach and detach look for
\* no keys; and nothing else happens during a call.
CallInv ==
    /\ at \in {"prompt", "attach", "keys", "copy", "detach", "config", "undefined"}
    /\ elf_at \in Calling => todo # <<>>
    /\ at \in {"attach", "detach"} => data = None /\ elf_at # "data" /\ todo \in Kinds
    /\ at \notin {"attach", "keys", "detach"} => elf_at \in {"idle", "returned"}
    /\ data = None \/ data \in Seq(Entries)

LEMMA CallInit == Init => CallInv
  BY DEF Init, ElfInit, CallInv, Calling

LEMMA KindTails ==
  /\ Tail(<<"classifier", "xdp">>) = <<"xdp">> /\ Tail(<<"xdp">>) = <<>>
  /\ Head(<<"classifier", "xdp">>) = "classifier" /\ Head(<<"xdp">>) = "xdp"
  /\ <<"classifier", "xdp">> # <<>> /\ <<"xdp">> # <<>>
  OBVIOUS

LEMMA KindStep ==
  ASSUME NEW names \in Kinds, names # <<>>
  PROVE  Tail(names) \in Kinds /\ Head(names) # KeysSection
<1>1. CASE names = <<"classifier", "xdp">>
  BY <1>1, KindTails DEF Kinds, KeysSection
<1>2. CASE names = <<"xdp">>
  BY <1>2, KindTails DEF Kinds, KeysSection
<1> QED
  BY <1>1, <1>2 DEF Kinds

\* What a step of the reader does to the names sought and to the data.
LEMMA ReaderTodo ==
  ASSUME ElfNext, elf_at \in Calling => todo # <<>>
  PROVE  /\ elf_at' \in Calling => todo' # <<>>
         /\ UNCHANGED todo \/ (elf_at \in Calling /\ todo' = Tail(todo))
         /\ elf_at' = "data" => Head(todo) = KeysSection /\ todo # <<>>
         /\ UNCHANGED data \/ (elf_at = "data" /\ data' = file[scn].data)
         /\ elf_at \notin {"idle", "returned"}
<1> USE DEF Calling
<1>1. CASE OpenElfFile \/ OpenElfFileFails \/ CloseElfFile
  BY <1>1 DEF OpenElfFile, OpenElfFileFails, CloseElfFile
<1>2. CASE GetElfHandle \/ NoSection
  BY <1>2 DEF GetElfHandle, NoSection
<1>3. CASE GetElfHandleFails \/ CloseElfHandle
  BY <1>3 DEF GetElfHandleFails, CloseElfHandle, Proceed
<1>4. CASE NextSection
  BY <1>4 DEF NextSection, Sought
<1>5. CASE CopyData \/ NoData
  BY <1>5 DEF CopyData, NoData
<1> QED
  BY <1>1, <1>2, <1>3, <1>4, <1>5 DEF ElfNext

LEMMA SectionData == ASSUME NEW f \in Seq(Sections), NEW k \in DOMAIN f PROVE f[k].data \in Seq(Entries)
<1>1. f[k] \in Sections
  OBVIOUS
<1> QED
  BY <1>1 DEF Sections, Entries

LEMMA CallReader == ScanInv /\ CallInv /\ ReaderStep => CallInv'
<1> SUFFICES ASSUME ScanInv, CallInv, ReaderStep PROVE CallInv'
  OBVIOUS
<1>1. ElfNext /\ at' = at
  BY DEF ReaderStep
<1>2. /\ elf_at' \in Calling => todo' # <<>>
      /\ UNCHANGED todo \/ (elf_at \in Calling /\ todo' = Tail(todo))
      /\ elf_at' = "data" => Head(todo) = KeysSection /\ todo # <<>>
      /\ UNCHANGED data \/ (elf_at = "data" /\ data' = file[scn].data)
      /\ elf_at \notin {"idle", "returned"}
  BY <1>1, ReaderTodo DEF CallInv
<1>3. at \in {"attach", "keys", "detach"}
  BY <1>2 DEF CallInv
<1>4. ASSUME at \in {"attach", "detach"} PROVE data' = None /\ elf_at' # "data" /\ todo' \in Kinds
  <2>1. data = None /\ elf_at # "data" /\ todo \in Kinds /\ (elf_at \in Calling => todo # <<>>)
    BY <1>4 DEF CallInv
  <2>2. todo # <<>> => Tail(todo) \in Kinds /\ Head(todo) # KeysSection
    BY <2>1, KindStep
  <2> QED
    BY <1>2, <2>1, <2>2
<1>5. data' = None \/ data' \in Seq(Entries)
  <2>1. CASE elf_at = "data" /\ data' = file[scn].data
    BY <2>1, FileIsSeq, SectionData DEF ScanInv
  <2>2. CASE UNCHANGED data
    BY <2>2 DEF CallInv
  <2> QED
    BY <1>2, <2>1, <2>2
<1> QED
  BY <1>1, <1>2, <1>3, <1>4, <1>5 DEF CallInv

LEMMA CallStep == ScanInv /\ CallInv /\ [Next]_vars => CallInv'
<1> SUFFICES ASSUME ScanInv, CallInv, [Next]_vars PROVE CallInv'
  OBVIOUS
<1>1. CASE ReaderStep
  BY <1>1, CallReader
<1>2. CASE Looks
  <2>1. /\ elf_at' = "open" /\ data' = None
        /\ at' = "keys" \/ (at' \in {"attach", "detach"} /\ todo' = <<"classifier", "xdp">>)
        /\ todo' = <<"classifier", "xdp">> \/ todo' = <<KeysSection>>
    BY <1>2 DEF Looks, LoadModule, Loaded, UnloadModule, Look, KindSections
  <2>2. todo' # <<>>
    BY <2>1
  <2> QED
    BY <2>1, <2>2 DEF CallInv, Kinds
<1>3. CASE Quiet
  <2>1. UNCHANGED <<elf_at, todo, data>>
    BY <1>3, QuietKeepsReader DEF reader
  <2>2. at' \in {"prompt", "copy", "undefined", "config"} /\ elf_at \in {"idle", "returned"}
    BY <1>3 DEF CallInv, Quiet, LoadFails, NoKeys, BeginCopy, CopyKey, CopyBeyond, EndOfSection,
         Unloaded, ConfigCommand, MalformedArgument, UnknownKey, UpdateMap, UpdateMapFails,
         NextArgument, Argument, ConfigDone, keys
  <2> QED
    BY <2>1, <2>2 DEF CallInv
<1>4. CASE UNCHANGED vars
  BY <1>4 DEF vars, reader, CallInv
<1> QED
  BY <1>1, <1>2, <1>3, <1>4, Cases

-----------------------------------------------------------------------------
(* The keys.                                                               *)

\* The copy so far: each entry before i was a key, and is in its place.
Copied(n) == \A k \in 1..(n - 1) :
    k <= MAX_CONFIG_ENTRIES /\ k <= Len(data) /\ data[k] # "" /\ config_keys[k] = data[k]
Copying == data # None /\ i \in Nat \ {0} /\ Copied(i)

KeysInv ==
    /\ config_keys \in [1..MAX_CONFIG_ENTRIES -> Entries]
    /\ at = "copy" => Copying
    /\ KeysOfModule
    /\ OverrunsOnlyIfTooLong

\* What KeysInv speaks of, but for the control point.
kept == <<data, config_keys, i>>

\* The entries a loop has passed: the next one, and all of an array it has left.
LEMMA Passed ==
  ASSUME NEW n \in Nat \ {0}
  PROVE  /\ n + 1 \in Nat \ {0} /\ (n + 1) - 1 = n /\ n \in 1..n
         /\ 1..n = 1..(n - 1) \cup {n}
         /\ \A m \in Nat : n > m => 1..m \subseteq 1..(n - 1)
  OBVIOUS

LEMMA KeysInit == Init => KeysInv
  BY DEF Init, ElfInit, KeysInv, Entries, KeysOfModule, OverrunsOnlyIfTooLong

\* A step that leaves the section and the keys alone preserves the invariant unless
\* it enters the copy, or leaves a copy or a call.
LEMMA KeysKept ==
  ASSUME KeysInv, UNCHANGED kept,
         \/ at' = at
         \/ at' \in {"attach", "keys", "detach"}
         \/ at' \in {"prompt", "config"} /\ (at \in {"prompt", "config"} \/ data = None)
  PROVE  KeysInv'
<1>1. config_keys' \in [1..MAX_CONFIG_ENTRIES -> Entries]
  BY DEF KeysInv, kept, Entries
<1>2. at' = "copy" => Copying'
  BY DEF KeysInv, kept, Copying, Copied
<1>3. KeysOfModule'
  BY DEF KeysInv, kept, KeysOfModule, BeforeSentinel
<1>4. OverrunsOnlyIfTooLong'
  BY DEF KeysInv, kept, OverrunsOnlyIfTooLong
<1> QED
  BY <1>1, <1>2, <1>3, <1>4 DEF KeysInv

\* So does one that changes only the data, during a call.
LEMMA KeysCall ==
  ASSUME KeysInv, UNCHANGED config_keys, at' \in {"attach", "keys", "detach"}
  PROVE  KeysInv'
  BY DEF KeysInv, KeysOfModule, OverrunsOnlyIfTooLong, Entries

LEMMA BeginCopyKeys == KeysInv /\ BeginCopy => KeysInv'
<1> SUFFICES ASSUME KeysInv, BeginCopy PROVE KeysInv'
  OBVIOUS
<1>1. /\ UNCHANGED <<data, config_keys>> /\ i' = 1 /\ data # None /\ at' = "copy"
  BY DEF BeginCopy, reader
<1>2. Copying'
  BY <1>1 DEF Copying, Copied
<1> QED
  BY <1>1, <1>2 DEF KeysInv, KeysOfModule, OverrunsOnlyIfTooLong, Entries

LEMMA CopyKeyKeys == CallInv /\ KeysInv /\ CopyKey => KeysInv'
<1> SUFFICES ASSUME CallInv, KeysInv, CopyKey PROVE KeysInv'
  OBVIOUS
<1>1. /\ at = "copy" /\ data # None /\ data' = data
      /\ config_keys' = [config_keys EXCEPT ![i] = data[i]] /\ i' = i + 1
      /\ at' = "prompt" \/ at' = "copy"
      /\ (data[i] = "") = (at' = "prompt")
  BY DEF CopyKey, KeysInv, Copying, reader
<1>2. /\ i \in Nat \ {0} /\ i <= Len(data) /\ i <= MAX_CONFIG_ENTRIES /\ MAX_CONFIG_ENTRIES \in Nat
      /\ config_keys \in [1..MAX_CONFIG_ENTRIES -> Entries] /\ Copied(i)
  BY <1>1, EntriesAssumption DEF CopyKey, KeysInv, Copying
<1>3. data \in Seq(Entries) /\ Len(data) \in Nat /\ DOMAIN data = 1..Len(data)
  BY <1>1, SeqFacts DEF CallInv
<1>4. data[i] \in Entries
  BY <1>2, <1>3
<1>5. config_keys' \in [1..MAX_CONFIG_ENTRIES -> Entries]
  BY <1>1, <1>2, <1>4
<1>6. \A k \in 1..i : k <= MAX_CONFIG_ENTRIES /\ k <= Len(data) /\ config_keys'[k] = data[k]
  <2> TAKE k \in 1..i
  <2>1. CASE k = i
    <3>1. i \in 1..MAX_CONFIG_ENTRIES
      BY <1>2
    <3>2. config_keys'[i] = data[i]
      BY <1>1, <1>2, <3>1, Zenon
    <3> QED
      BY <1>2, <2>1, <3>2, Zenon
  <2>2. CASE k \in 1..(i - 1)
    <3>1. k <= MAX_CONFIG_ENTRIES /\ k <= Len(data) /\ config_keys[k] = data[k]
      BY <1>2, <2>2, Zenon DEF Copied
    <3>2. k \in 1..MAX_CONFIG_ENTRIES /\ k # i
      BY <1>2, <2>2, <3>1
    <3> QED
      BY <1>1, <1>2, <3>1, <3>2
  <2> QED
    BY <1>2, <2>1, <2>2, Passed
<1>7. \A k \in 1..(i - 1) : data[k] # ""
  BY <1>2 DEF Copied
<1>8. at' = "copy" => Copying'
  <2> SUFFICES ASSUME at' = "copy" PROVE Copying'
    OBVIOUS
  <2>1. data[i] # ""
    BY <1>1
  <2>2. \A k \in 1..i : data[k] # ""
    <3> TAKE k \in 1..i
    <3>1. k = i \/ k \in 1..(i - 1)
      BY <1>2
    <3> QED
      BY <3>1, <2>1, <1>7
  <2>3. i' \in Nat \ {0} /\ i' - 1 = i
    BY <1>1, <1>2, Passed, Zenon
  <2> QED
    BY <1>1, <1>6, <2>2, <2>3 DEF Copying, Copied
<1>9. KeysOfModule'
  <2> SUFFICES ASSUME at' = "prompt", NEW k \in BeforeSentinel(data)
               PROVE  config_keys'[k] = data[k]
    BY <1>1 DEF KeysOfModule
  <2>1. data[i] = ""
    BY <1>1
  <2>2. k \in 1..Len(data) /\ \A l \in 1..(k - 1) : data[l] # ""
    BY <1>3 DEF BeforeSentinel
  <2>3. i \notin 1..(k - 1)
    BY <2>1, <2>2
  <2>4. k \in 1..i
    <3>1. i \in Nat \ {0} /\ Len(data) \in Nat /\ k \in 1..Len(data) /\ i \notin 1..(k - 1)
      BY <1>2, <1>3, <2>2, <2>3, Zenon
    <3> QED
      BY <3>1
  <2> QED
    BY <1>6, <2>4
<1>10. OverrunsOnlyIfTooLong'
  BY <1>1 DEF OverrunsOnlyIfTooLong
<1> QED
  BY <1>5, <1>8, <1>9, <1>10 DEF KeysInv

LEMMA CopyBeyondKeys == CallInv /\ KeysInv /\ CopyBeyond => KeysInv'
<1> SUFFICES ASSUME CallInv, KeysInv, CopyBeyond PROVE KeysInv'
  OBVIOUS
<1>1. /\ UNCHANGED <<data, config_keys>> /\ at' = "undefined" /\ Copied(i)
      /\ i \in Nat \ {0} /\ data # None /\ i <= Len(data) /\ i > MAX_CONFIG_ENTRIES
  BY DEF CopyBeyond, KeysInv, Copying, reader, keys
<1>2. Len(data) \in Nat /\ MAX_CONFIG_ENTRIES \in Nat
  BY <1>1, SeqFacts, EntriesAssumption DEF CallInv
<1>3. Len(data) > MAX_CONFIG_ENTRIES /\ \A k \in 1..MAX_CONFIG_ENTRIES : data[k] # ""
  <2>1. 1..MAX_CONFIG_ENTRIES \subseteq 1..(i - 1)
    BY <1>1, <1>2, Passed, Zenon
  <2>2. \A k \in 1..MAX_CONFIG_ENTRIES : data[k] # ""
    BY <1>1, <2>1, Zenon DEF Copied
  <2>3. i \in Nat /\ i <= Len(data) /\ i > MAX_CONFIG_ENTRIES
    BY <1>1, Zenon
  <2>4. Len(data) > MAX_CONFIG_ENTRIES
    BY <1>2, <2>3
  <2> QED
    BY <2>2, <2>4
<1>4. OverrunsOnlyIfTooLong'
  BY <1>1, <1>3 DEF OverrunsOnlyIfTooLong
<1> QED
  BY <1>1, <1>4 DEF KeysInv, KeysOfModule, Entries

LEMMA EndOfSectionKeys == CallInv /\ KeysInv /\ EndOfSection => KeysInv'
<1> SUFFICES ASSUME CallInv, KeysInv, EndOfSection PROVE KeysInv'
  OBVIOUS
<1>1. /\ UNCHANGED <<data, config_keys>> /\ at' = "prompt" /\ Copied(i)
      /\ i \in Nat \ {0} /\ data # None /\ i > Len(data)
  BY DEF EndOfSection, KeysInv, Copying, reader, keys
<1>2. Len(data) \in Nat /\ DOMAIN data = 1..Len(data)
  BY <1>1, SeqFacts DEF CallInv
<1>3. \A k \in DOMAIN data : config_keys[k] = data[k]
  <2>1. 1..Len(data) \subseteq 1..(i - 1)
    BY <1>1, <1>2, Passed, Zenon
  <2> QED
    BY <1>1, <1>2, <2>1, Zenon DEF Copied
<1>4. KeysOfModule'
  BY <1>1, <1>3 DEF KeysOfModule, BeforeSentinel
<1> QED
  BY <1>1, <1>4 DEF KeysInv, OverrunsOnlyIfTooLong, Entries

LEMMA KeysStep == CallInv /\ KeysInv /\ [Next]_vars => KeysInv'
<1> SUFFICES ASSUME CallInv, KeysInv, [Next]_vars PROVE KeysInv'
  OBVIOUS
<1>1. CASE ReaderStep
  <2>1. elf_at \notin {"idle", "returned"}
    BY <1>1, ReaderTodo DEF CallInv, ReaderStep
  <2>2. at' \in {"attach", "keys", "detach"} /\ UNCHANGED config_keys
    BY <1>1, <2>1 DEF CallInv, ReaderStep, keys
  <2> QED
    BY <2>2, KeysCall
<1>2. CASE Looks
  <2>1. at' \in {"attach", "keys", "detach"} /\ UNCHANGED config_keys
    BY <1>2 DEF Looks, LoadModule, Loaded, UnloadModule, keys
  <2> QED
    BY <2>1, KeysCall
<1>3. CASE LoadFails \/ Unloaded \/ NoKeys
  <2>1. UNCHANGED kept /\ at' = "prompt" /\ data = None
    BY <1>3 DEF LoadFails, Unloaded, NoKeys, kept, reader, keys, CallInv
  <2> QED
    BY <2>1, KeysKept
<1>4. CASE \/ \E l \in Lines : ConfigCommand(l)
           \/ MalformedArgument \/ UnknownKey \/ UpdateMap \/ UpdateMapFails \/ ConfigDone
  <2>1. /\ UNCHANGED kept /\ at \in {"prompt", "config"} /\ at' \in {"prompt", "config"}
    BY <1>4 DEF ConfigCommand, MalformedArgument, UnknownKey, UpdateMap, UpdateMapFails,
         NextArgument, Argument, ConfigDone, kept, reader, keys
  <2> QED
    BY <2>1, KeysKept
<1>5. CASE UNCHANGED vars
  BY <1>5, KeysKept DEF vars, kept, reader, keys
<1> QED
  BY <1>1, <1>2, <1>3, <1>4, <1>5, BeginCopyKeys, CopyKeyKeys, CopyBeyondKeys, EndOfSectionKeys,
     Cases DEF Quiet

ConfigInv == ScanInv /\ CallInv /\ KeysInv

LEMMA KeysAlways == Spec => []ConfigInv
<1>1. Init => ConfigInv
  BY ScanInit, CallInit, KeysInit DEF ConfigInv
<1>2. ConfigInv /\ [Next]_vars => ConfigInv'
  BY ScanStep, CallStep, KeysStep DEF ConfigInv
<1> QED
  BY <1>1, <1>2, PTL DEF Spec

\* A key of an earlier module, still in config_keys, is never among the keys up to
\* the sentinel of the module that was loaded, when its section could be read.
THEOREM KeysAreOfModule == Spec => []KeysOfModule
<1>1. ConfigInv => KeysOfModule
  BY DEF ConfigInv, KeysInv
<1> QED
  BY <1>1, KeysAlways, PTL

\* The loop of set_module, which only the section bounds, leaves config_keys for
\* no section that has its sentinel among the first MAX_CONFIG_ENTRIES entries.
THEOREM CopyStaysInArray == Spec => []OverrunsOnlyIfTooLong
<1>1. ConfigInv => OverrunsOnlyIfTooLong
  BY DEF ConfigInv, KeysInv
<1> QED
  BY <1>1, KeysAlways, PTL

-----------------------------------------------------------------------------
(* The config command.                                                     *)

\* The arguments taken for key k before the n-th, and the value of one.
Given(k, n) ==
    {a \in 1..(n - 1) : Len(line[a]) = 2 /\ line[a][1] = k /\ k = config_keys[1] /\ a \notin failed}
Value(a) == strtoull(line[a][2])

\* Those before the n-th are in the map: the last one, and no other values.
LastApplied(k, n) ==
    \E m \in Given(k, n) : /\ \A b \in Given(k, n) : b <= m
                           /\ \E tail \in Tails : config_map[<<k, tail>>] = Value(m)
Applied(k, n) ==
    /\ Given(k, n) # {} => LastApplied(k, n)
    /\ \A tail \in Tails :
          config_map[<<k, tail>>] \in {before[<<k, tail>>]} \cup {Value(a) : a \in Given(k, n)}

IsMap == config_map = [x \in MapKeys |-> config_map[x]]
Underway ==
    /\ arg \in Nat \ {0} /\ Len(line) \in Nat /\ arg <= Len(line) + 1 /\ DOMAIN line = 1..Len(line)
    /\ failed \subseteq 1..(arg - 1)
    /\ \A k \in Keys : Applied(k, arg)

ArgInv == IsMap /\ (at = "config" => Underway)

LEMMA ArgInit == Init => ArgInv
  BY DEF Init, NoValues, ArgInv, IsMap

LEMMA ArgBegin == ArgInv /\ (\E l \in Lines : ConfigCommand(l)) => ArgInv'
<1> SUFFICES ASSUME ArgInv, NEW l \in Lines, ConfigCommand(l) PROVE ArgInv'
  OBVIOUS
<1>1. /\ line' = l /\ arg' = 1 /\ before' = config_map /\ failed' = {} /\ config_map' = config_map
  BY DEF ConfigCommand
<1>2. Len(line') \in Nat /\ DOMAIN line' = 1..Len(line')
  BY <1>1, LinesAssumption
<1>3. \A k \in Keys : Given(k, arg)' = {}
  BY <1>1 DEF Given
<1>4. \A k \in Keys : Applied(k, arg)'
  BY <1>1, <1>3 DEF Applied
<1>5. Underway'
  BY <1>1, <1>2, <1>4 DEF Underway
<1> QED
  BY <1>1, <1>5 DEF ArgInv, IsMap

\* The arguments before the next one are those before this one, and perhaps this one.
LEMMA GivenNext ==
  ASSUME Underway, arg <= Len(line), UNCHANGED <<line, config_keys>>, arg' = arg + 1,
         failed' = failed \/ failed' = failed \cup {arg}, NEW k
  PROVE  Given(k, arg)' = Given(k, arg) \cup
           {a \in {arg} : Len(line[a]) = 2 /\ line[a][1] = k /\ k = config_keys[1] /\ a \notin failed'}
<1>1. /\ arg' - 1 = arg /\ 1..arg = 1..(arg - 1) \cup {arg} /\ arg \notin 1..(arg - 1)
  BY DEF Underway
<1>2. \A a \in 1..(arg - 1) : a \in failed' <=> a \in failed
  BY <1>1
<1> QED
  BY <1>1, <1>2, Zenon DEF Given

\* An argument that is not applied.
LEMMA ArgSkip ==
  ASSUME Underway, arg <= Len(line), NextArgument, UNCHANGED config_map,
         failed' = failed \/ failed' = failed \cup {arg},
         ~(Len(line[arg]) = 2 /\ line[arg][1] = config_keys[1] /\ arg \notin failed')
  PROVE  Underway'
<1>1. /\ UNCHANGED <<line, config_keys, before, config_map>> /\ arg' = arg + 1
  BY DEF NextArgument, keys
<1>2. /\ arg' \in Nat \ {0} /\ Len(line') \in Nat /\ arg' <= Len(line') + 1 /\ DOMAIN line' = 1..Len(line')
      /\ failed' \subseteq 1..(arg' - 1)
  <2>1. /\ arg \in Nat \ {0} /\ Len(line) \in Nat /\ DOMAIN line = 1..Len(line)
        /\ failed \subseteq 1..(arg - 1)
    BY DEF Underway
  <2>2. /\ arg + 1 \in Nat \ {0} /\ arg + 1 <= Len(line) + 1
        /\ 1..(arg - 1) \cup {arg} \subseteq 1..((arg + 1) - 1)
    BY <2>1
  <2>3. failed' \subseteq 1..(arg - 1) \cup {arg}
    BY <2>1, Zenon
  <2> QED
    BY <1>1, <2>1, <2>2, <2>3, Zenon
<1>3. ASSUME NEW k \in Keys PROVE Given(k, arg)' = Given(k, arg)
  <2>1. Given(k, arg)' = Given(k, arg) \cup
           {a \in {arg} : Len(line[a]) = 2 /\ line[a][1] = k /\ k = config_keys[1] /\ a \notin failed'}
    BY <1>1, GivenNext, Zenon
  <2>2. {a \in {arg} : Len(line[a]) = 2 /\ line[a][1] = k /\ k = config_keys[1] /\ a \notin failed'} = {}
    OBVIOUS
  <2> QED
    BY <2>1, <2>2, Zenon
<1>4. \A a : Value(a)' = Value(a)
  BY <1>1 DEF Value, strtoull
<1>5. ASSUME NEW k \in Keys PROVE Applied(k, arg)'
  <2>1. Applied(k, arg)
    BY DEF Underway
  <2>2. LastApplied(k, arg) => LastApplied(k, arg)'
    BY <1>1, <1>3, <1>4, Zenon DEF LastApplied
  <2>3. {Value(a) : a \in Given(k, arg)}' = {Value(a) : a \in Given(k, arg)}
    BY <1>3, <1>4, Zenon
  <2> QED
    BY <1>1, <1>3, <2>1, <2>2, <2>3, Zenon DEF Applied
<1> QED
  BY <1>2, <1>5 DEF Underway

LEMMA ArgUpdate == ArgInv /\ UpdateMap => ArgInv'
<1> SUFFICES ASSUME ArgInv, UpdateMap PROVE ArgInv'
  OBVIOUS
<1>1. /\ Underway /\ arg <= Len(line) /\ Len(line[arg]) = 2 /\ line[arg][1] = config_keys[1]
      /\ UNCHANGED <<line, config_keys, before, failed>> /\ arg' = arg + 1
  BY DEF UpdateMap, Argument, NextArgument, keys, ArgInv
<1>2. PICK tail \in Tails : config_map' = [config_map EXCEPT ![<<line[arg][1], tail>>] = Value(arg)]
  BY DEF UpdateMap, Value
<1>3. /\ IsMap'
      /\ \A x \in MapKeys : config_map'[x] = IF x = <<line[arg][1], tail>> THEN Value(arg) ELSE config_map[x]
  BY <1>2 DEF ArgInv, IsMap
<1>4. /\ arg' \in Nat \ {0} /\ Len(line') \in Nat /\ arg' <= Len(line') + 1 /\ DOMAIN line' = 1..Len(line')
      /\ failed' \subseteq 1..(arg' - 1) /\ arg \notin failed'
      /\ \A b \in 1..(arg - 1) \cup {arg} : b <= arg
  BY <1>1 DEF Underway
<1>5. \A a : Value(a)' = Value(a)
  BY <1>1 DEF Value, strtoull
<1>6. ASSUME NEW k \in Keys PROVE Applied(k, arg)'
  <2>1. CASE k = line[arg][1]
    <3>1. Given(k, arg)' = Given(k, arg) \cup {arg}
      BY <1>1, <1>4, <2>1, GivenNext, Zenon
    <3>2. \A b \in Given(k, arg)' : b <= arg
      BY <1>4, <3>1, Zenon DEF Given
    <3>3. config_map'[<<k, tail>>] = Value(arg)
      BY <1>3, <2>1, Zenon DEF MapKeys
    <3>4. LastApplied(k, arg)'
      BY <1>5, <3>1, <3>2, <3>3, Zenon DEF LastApplied
    <3>5. ASSUME NEW t \in Tails
          PROVE  config_map'[<<k, t>>] \in {before[<<k, t>>]} \cup {Value(a) : a \in Given(k, arg)'}
      <4>1. config_map'[<<k, t>>] = Value(arg) \/ config_map'[<<k, t>>] = config_map[<<k, t>>]
        BY <1>3, Zenon DEF MapKeys
      <4>2. config_map[<<k, t>>] \in {before[<<k, t>>]} \cup {Value(a) : a \in Given(k, arg)}
        BY <1>1, Zenon DEF Underway, Applied
      <4> QED
        BY <3>1, <4>1, <4>2, Zenon
    <3> QED
      BY <1>1, <1>5, <3>4, <3>5, Zenon DEF Applied
  <2>2. CASE k # line[arg][1]
    <3>1. Given(k, arg)' = Given(k, arg)
      BY <1>1, <2>2, GivenNext, Zenon
    <3>2. \A t \in Tails : config_map'[<<k, t>>] = config_map[<<k, t>>]
      BY <1>3, <2>2 DEF MapKeys
    <3>3. Applied(k, arg)
      BY <1>1 DEF Underway
    <3>4. LastApplied(k, arg) => LastApplied(k, arg)'
      BY <1>5, <3>1, <3>2, Zenon DEF LastApplied
    <3>5. {Value(a) : a \in Given(k, arg)}' = {Value(a) : a \in Given(k, arg)}
      BY <1>5, <3>1, Zenon
    <3> QED
      BY <1>1, <3>1, <3>2, <3>3, <3>4, <3>5, Zenon DEF Applied
  <2> QED
    BY <2>1, <2>2
<1> QED
  BY <1>3, <1>4, <1>6 DEF ArgInv, Underway

LEMMA ArgStep == ArgInv /\ [Next]_vars => ArgInv'
<1> SUFFICES ASSUME ArgInv, [Next]_vars PROVE ArgInv'
  OBVIOUS
<1>1. CASE MalformedArgument
  BY <1>1, ArgSkip DEF MalformedArgument, Argument, ArgInv, IsMap
<1>2. CASE UnknownKey
  BY <1>2, ArgSkip DEF UnknownKey, Argument, ArgInv, IsMap
<1>3. CASE UpdateMapFails
  BY <1>3, ArgSkip DEF UpdateMapFails, Argument, ArgInv, IsMap
<1>4. CASE \E f \in Files : LoadModule(f)
  BY <1>4 DEF LoadModule, ArgInv, IsMap, NoValues
<1>5. CASE \/ Loaded \/ UnloadModule \/ LoadFails \/ NoKeys \/ BeginCopy \/ CopyKey \/ CopyBeyond
           \/ EndOfSection \/ Unloaded \/ ConfigDone
  <2>1. UNCHANGED config_map /\ at' # "config"
    BY <1>5 DEF Loaded, UnloadModule, LoadFails, NoKeys, BeginCopy, CopyKey, CopyBeyond,
         EndOfSection, Unloaded, ConfigDone, command
  <2> QED
    BY <2>1 DEF ArgInv, IsMap
<1>6. CASE ReaderStep \/ UNCHANGED vars
  <2>1. UNCHANGED <<config_map, line, arg, before, failed, config_keys, at>>
    BY <1>6 DEF ReaderStep, vars, command, keys
  <2> QED
    <3>1. ASSUME NEW k \in Keys, Applied(k, arg) PROVE Applied(k, arg)'
      <4>1. Given(k, arg)' = Given(k, arg)
        BY <2>1 DEF Given
      <4>2. \A a : Value(a)' = Value(a)
        BY <2>1 DEF Value, strtoull
      <4>3. LastApplied(k, arg) => LastApplied(k, arg)'
        BY <2>1, <4>1, <4>2, Zenon DEF LastApplied
      <4>4. {Value(a) : a \in Given(k, arg)}' = {Value(a) : a \in Given(k, arg)}
        BY <4>1, <4>2, Zenon
      <4> QED
        BY <2>1, <3>1, <4>1, <4>3, <4>4, Zenon DEF Applied
    <3> QED
      BY <2>1, <3>1, Zenon DEF ArgInv, IsMap, Underway
<1> QED
  BY <1>1, <1>2, <1>3, <1>4, <1>5, <1>6, ArgBegin, ArgUpdate, Cases DEF Looks, Quiet

\* What ConfigAppliesFirstKey says of the end of a command.
LEMMA ArgEnd ==
  ASSUME Underway, arg > Len(line), NEW k \in Keys,
         NEW taken, taken = {a \in DOMAIN line : Len(line[a]) = 2 /\ line[a][1] = k
                                                  /\ k = config_keys[1] /\ a \notin failed}
  PROVE  /\ taken # {} => \E tail \in Tails :
               config_map[<<k, tail>>] = Value(CHOOSE a \in taken : \A b \in taken : b <= a)
         /\ \A tail \in Tails : config_map[<<k, tail>>] \in
               {before[<<k, tail>>]} \cup {Value(a) : a \in taken}
<1>1. DOMAIN line = 1..(arg - 1)
  BY DEF Underway
<1>2. taken = Given(k, arg)
  BY <1>1, Zenon DEF Given
<1>3. Applied(k, arg)
  BY DEF Underway
<1>4. ASSUME taken # {}
      PROVE  \E tail \in Tails :
               config_map[<<k, tail>>] = Value(CHOOSE a \in taken : \A b \in taken : b <= a)
  <2>1. PICK m \in taken : /\ \A b \in taken : b <= m
                          /\ \E tail \in Tails : config_map[<<k, tail>>] = Value(m)
    BY <1>2, <1>3, <1>4, Zenon DEF Applied, LastApplied
  <2> DEFINE last == CHOOSE a \in taken : \A b \in taken : b <= a
  <2>2. last \in taken /\ \A b \in taken : b <= last
    BY <2>1, Zenon
  <2>3. last <= m /\ m <= last
    BY <2>1, <2>2, Zenon
  <2>4. last \in 1..(arg - 1) /\ m \in 1..(arg - 1) /\ arg \in Nat
    BY <1>2, <2>1, <2>2, Zenon DEF Given, Underway
  <2> HIDE DEF last
  <2>5. last = m
    BY <2>3, <2>4
  <2> USE DEF last
  <2> QED
    BY <2>1, <2>5, Zenon
<1> QED
  BY <1>2, <1>3, <1>4, Zenon DEF Applied

\* When a config command ends, the last value given for the first declared key is
\* in the map under that key, whatever was wrong with other arguments; the entries
\* of all other keys are as before, those the module declares included.
THEOREM ConfigApplies == Spec => ConfigAppliesFirstKey
<1>1. ArgInv /\ [Next]_vars =>
        [ at = "config" /\ at' = "prompt" =>
          \A k \in Keys :
              LET taken == {a \in DOMAIN line : Len(line[a]) = 2 /\ line[a][1] = k
                                                  /\ k = config_keys[1] /\ a \notin failed}
                  value(a) == strtoull(line[a][2])
              IN  /\ taken # {} => \E tail \in Tails :
                        config_map[<<k, tail>>] = value(CHOOSE a \in taken : \A b \in taken : b <= a)
                  /\ \A tail \in Tails : config_map[<<k, tail>>] \in
                        {before[<<k, tail>>]} \cup {value(a) : a \in taken} ]_vars
  <2> SUFFICES ASSUME ArgInv, [Next]_vars, at = "config", at' = "prompt", NEW k \in Keys
               PROVE LET taken == {a \in DOMAIN line : Len(line[a]) = 2 /\ line[a][1] = k
                                                         /\ k = config_keys[1] /\ a \notin failed}
                     IN  /\ taken # {} => \E tail \in Tails :
                              config_map[<<k, tail>>] = Value(CHOOSE a \in taken : \A b \in taken : b <= a)
                         /\ \A tail \in Tails : config_map[<<k, tail>>] \in
                              {before[<<k, tail>>]} \cup {Value(a) : a \in taken}
    BY Zenon DEF Value
  <2>1. ConfigDone
    BY Cases DEF Looks, Quiet, ReaderStep, vars, LoadModule, Loaded, UnloadModule, LoadFails, NoKeys,
       BeginCopy, CopyKey, CopyBeyond, EndOfSection, Unloaded, ConfigCommand, MalformedArgument,
       UnknownKey, UpdateMap, UpdateMapFails, NextArgument
  <2>2. Underway /\ arg > Len(line)
    BY <2>1 DEF ConfigDone, ArgInv
  <2> QED
    BY <2>2, ArgEnd, Zenon
<1> QED
  BY <1>1, ArgInit, ArgStep, PTL DEF Spec, ConfigAppliesFirstKey

-----------------------------------------------------------------------------
(* Types, and the room in the map.                                         *)

Values == 0..(2^Width - 1) \cup {None}
Held   == {k \in MapKeys : config_map[k] # None}

\* A text is wrapped or cut to the width of the result.
LEMMA Wrapped ==
  ASSUME NEW m \in Nat \ {0}, NEW x \in Int
  PROVE  x % m \in 0..(m - 1) /\ m - 1 \in 0..(m - 1) /\ 0 \in 0..(m - 1)
  OBVIOUS

LEMMA strtoullInRange == ASSUME NEW text \in Int \cup {None} PROVE strtoull(text) \in 0..(2^Width - 1)
<1> DEFINE m == 2^Width
<1>1. m \in Nat \ {0}
  BY WidthAssumption
<1>2. strtoull(text) = IF text = None THEN 0
                       ELSE IF text > m - 1 \/ -text > m - 1 THEN m - 1 ELSE text % m
  BY Zenon DEF strtoull
<1> HIDE DEF m
<1>3. m - 1 \in 0..(m - 1) /\ 0 \in 0..(m - 1) /\ (text \in Int => text % m \in 0..(m - 1))
  BY <1>1, Wrapped
<1>4. strtoull(text) \in 0..(m - 1)
  BY <1>2, <1>3, Zenon
<1> QED
  BY <1>4 DEF m

\* The line under way is one the user types, and the map is never fuller than
\* htab_map_update_elem of the kernel leaves it.
MapInv ==
    /\ file \in Files \cup {None}
    /\ i \in 0..(MAX_CONFIG_ENTRIES + 1)
    /\ at = "config" => line \in Lines
    /\ config_map \in [MapKeys -> Values]
    /\ IsFiniteSet(Held) /\ Cardinality(Held) <= MAX_CONFIG_ENTRIES + 1

LEMMA EmptyMap ==
  /\ NoValues \in [MapKeys -> Values] /\ {k \in MapKeys : NoValues[k] # None} = {}
  /\ IsFiniteSet({}) /\ Cardinality({}) <= MAX_CONFIG_ENTRIES + 1
<1>1. IsFiniteSet({}) /\ Cardinality({}) = 0
  BY FS_EmptySet
<1>2. 0 <= MAX_CONFIG_ENTRIES + 1
  BY EntriesAssumption
<1>3. NoValues \in [MapKeys -> Values] /\ {k \in MapKeys : NoValues[k] # None} = {}
  BY DEF NoValues, Values
<1> QED
  BY <1>1, <1>2, <1>3

LEMMA MapInit == Init => MapInv
<1> SUFFICES ASSUME Init PROVE MapInv
  OBVIOUS
<1>1. file = None /\ i = 0 /\ at = "prompt" /\ config_map = NoValues
  BY DEF Init, ElfInit
<1>2. 0 \in 0..(MAX_CONFIG_ENTRIES + 1)
  BY EntriesAssumption
<1>3. Held = {}
  BY <1>1, EmptyMap DEF Held
<1> QED
  BY <1>1, <1>2, <1>3, EmptyMap DEF MapInv

\* One entry at a time, and none without room for it.
LEMMA MapUpdate == ArgInv /\ MapInv /\ UpdateMap => MapInv'
<1> SUFFICES ASSUME ArgInv, MapInv, UpdateMap PROVE MapInv'
  OBVIOUS
<1>1. /\ at = "config" /\ arg \in 1..Len(line) /\ line \in Lines /\ Len(line[arg]) = 2
      /\ UNCHANGED <<file, i, at, line>>
  BY DEF UpdateMap, Argument, NextArgument, ArgInv, Underway, MapInv, reader, keys
<1>2. line[arg][1] \in Keys /\ line[arg][2] \in Int \cup {None}
  BY <1>1, LinesAssumption
<1> DEFINE value == strtoull(line[arg][2])
<1>3. PICK k \in MapKeys : Room(k) /\ config_map' = [config_map EXCEPT ![k] = value]
  BY <1>2 DEF UpdateMap, MapKeys
<1>4. value \in Values
  BY <1>2, strtoullInRange DEF Values
<1> HIDE DEF value
<1>5. config_map' \in [MapKeys -> Values]
  BY <1>3, <1>4 DEF MapInv
<1>6. Held' \subseteq Held \cup {k}
  BY <1>3 DEF Held, MapInv
<1>7. IsFiniteSet(Held \cup {k}) /\ Cardinality(Held \cup {k}) <= MAX_CONFIG_ENTRIES + 1
  <2>1. CASE k \in Held
    <3>1. Held \cup {k} = Held
      BY <2>1
    <3> QED
      BY <3>1 DEF MapInv
  <2>2. CASE k \notin Held
    <3>1. Cardinality(Held) <= MAX_CONFIG_ENTRIES
      BY <1>3, <2>2 DEF Room, Held
    <3>2. IsFiniteSet(Held) /\ Cardinality(Held) \in Nat
      BY FS_CardinalityType DEF MapInv
    <3>3. IsFiniteSet(Held \cup {k}) /\ Cardinality(Held \cup {k}) = Cardinality(Held) + 1
      BY <2>2, <3>2, FS_AddElement
    <3> QED
      BY <3>1, <3>2, <3>3, EntriesAssumption
  <2> QED
    BY <2>1, <2>2
<1>8. IsFiniteSet(Held') /\ Cardinality(Held') <= MAX_CONFIG_ENTRIES + 1
  <2>1. IsFiniteSet(Held') /\ Cardinality(Held') <= Cardinality(Held \cup {k})
    BY <1>6, <1>7, FS_Subset
  <2>2. Cardinality(Held') \in Nat /\ Cardinality(Held \cup {k}) \in Nat
    BY <1>7, <2>1, FS_CardinalityType
  <2> QED
    BY <1>7, <2>1, <2>2, EntriesAssumption
<1> QED
  BY <1>1, <1>5, <1>8, Zenon DEF MapInv

\* What MapInv speaks of, but for the file of the reader and the control point.
room == <<i, config_map>>

LEMMA MapKept ==
  ASSUME MapInv, UNCHANGED room, file' \in Files \cup {None}, at' = "config" => line' \in Lines
  PROVE  MapInv'
<1>1. i' = i /\ config_map' = config_map /\ Held' = Held
  BY DEF room, Held
<1> QED
  BY <1>1, Zenon DEF MapInv

LEMMA MapStep == KeysInv /\ ScanInv /\ ArgInv /\ MapInv /\ [Next]_vars => MapInv'
<1> SUFFICES ASSUME KeysInv, ScanInv, ArgInv, MapInv, [Next]_vars PROVE MapInv'
  OBVIOUS
<1>0. file \in Files \cup {None}
  BY DEF MapInv
<1>1. CASE ReaderStep
  <2>1. UNCHANGED <<i, config_map, line, at, file>>
    BY <1>1, ReaderKeepsFile DEF ReaderStep, keys, command
  <2> QED
    BY <1>0, <2>1, MapKept DEF MapInv, room
<1>2. CASE \E f \in Files : LoadModule(f)
  <2>1. i' = i /\ config_map' = NoValues /\ at' = "attach" /\ file' \in Files
    BY <1>2 DEF LoadModule, Look
  <2>2. Held' = {}
    BY <2>1, EmptyMap DEF Held
  <2> QED
    BY <2>1, <2>2, EmptyMap DEF MapInv
<1>3. CASE Loaded \/ UnloadModule
  <2>1. UNCHANGED <<i, config_map>> /\ at' # "config" /\ file' = module
    BY <1>3 DEF Loaded, UnloadModule, Look, keys, command
  <2> QED
    BY <2>1, MapKept DEF room, ScanInv
<1>4. CASE LoadFails \/ NoKeys \/ CopyBeyond \/ EndOfSection \/ Unloaded \/ ConfigDone
  <2>1. UNCHANGED <<i, config_map, file>> /\ at' # "config"
    BY <1>4 DEF LoadFails, NoKeys, CopyBeyond, EndOfSection, Unloaded, ConfigDone, reader, keys, command
  <2> QED
    BY <1>0, <2>1, MapKept DEF room
<1>5. CASE BeginCopy \/ CopyKey
  <2>1. UNCHANGED <<config_map, file>> /\ at' # "config"
    BY <1>5 DEF BeginCopy, CopyKey, reader, command
  <2>2. i' \in 0..(MAX_CONFIG_ENTRIES + 1)
    <3>1. CASE BeginCopy
      BY <3>1, EntriesAssumption DEF BeginCopy
    <3>2. CASE CopyKey
      <4>1. i \in Nat /\ i <= MAX_CONFIG_ENTRIES /\ i' = i + 1
        BY <3>2 DEF CopyKey, KeysInv, Copying
      <4> QED
        BY <4>1, EntriesAssumption
    <3> QED
      BY <1>5, <3>1, <3>2
  <2>3. Held' = Held
    BY <2>1 DEF Held
  <2> QED
    BY <2>1, <2>2, <2>3, Zenon DEF MapInv
<1>6. CASE \E l \in Lines : ConfigCommand(l)
  <2>1. UNCHANGED <<i, config_map, file>> /\ line' \in Lines
    BY <1>6 DEF ConfigCommand, reader, keys
  <2> QED
    BY <1>0, <2>1, MapKept DEF room
<1>7. CASE MalformedArgument \/ UnknownKey \/ UpdateMapFails \/ UNCHANGED vars
  <2>1. UNCHANGED <<i, config_map, file, line, at>>
    BY <1>7 DEF MalformedArgument, UnknownKey, UpdateMapFails, NextArgument, reader, keys, command, vars
  <2> QED
    BY <1>0, <2>1, MapKept DEF MapInv, room
<1> QED
  BY <1>1, <1>2, <1>3, <1>4, <1>5, <1>6, <1>7, MapUpdate, Cases DEF Looks, Quiet

\* The context and the locals keep their types, and the map its room, whatever
\* tails the keys of the config command have.
THEOREM ConfigTypeCorrect == Spec => []TypeOK
<1>1. ConfigInv /\ MapInv => TypeOK
  BY Zenon DEF ConfigInv, ScanInv, CallInv, KeysInv, MapInv, Held, Values, TypeOK
<1>2. ConfigInv /\ ArgInv /\ MapInv /\ [Next]_vars => MapInv'
  BY MapStep DEF ConfigInv
<1> QED
  BY <1>1, <1>2, KeysAlways, ArgInit, ArgStep, MapInit, PTL DEF Spec
=============================================================================
