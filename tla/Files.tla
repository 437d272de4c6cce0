-------------------------------- MODULE Files --------------------------------
(***************************************************************************)
(* The files the program writes: the dump file that --dump makes its       *)
(* standard output (main.c, make_path of utils/io_utils.c) and the log of  *)
(* the reports (dump_to_log_file of core/reporting.c).                     *)
(*                                                                         *)
(* A path is the sequence of its names, <<>> the working directory; how    *)
(* long the text of a directory's path is, is kept apart from its names.   *)
(* Other processes share the file system: the user's shell, the exec       *)
(* command, a second emulator.  They change it between any two calls.      *)
(***************************************************************************)
EXTENDS Integers, SequencesExt

CONSTANTS Paths,          \* the paths of this instance
          DumpPath, LogPath,
          DumpDirLengths, \* how long the path of the dump file's directory may be
          FileFaults,     \* the calls that may fail by themselves
          MaxChanges,     \* bound: what other processes do
          MaxReports      \* bound: the reports

FileFaultNames == {"mkdir", "fopen"}

TmpPathSize == 1024       \* the bytes of tmp_path

NoResult == 2             \* before dump_to_log_file has returned

Dirname(path) == Front(path)

\* A path is here with the directories on its way.
ASSUME PathsAssumption ==
    /\ {DumpPath, LogPath} \subseteq Paths
    /\ Paths \subseteq Seq(STRING)
    /\ \A p \in Paths : p # <<>> /\ \A k \in 1..Len(p) : SubSeq(p, 1, k) \in Paths
ASSUME LengthsAssumption == DumpDirLengths \subseteq Nat
ASSUME LogAssumption == Len(LogPath) = 2         \* LOG_FILE of globals.h

VARIABLES dirs, files,    \* the directories and the regular files there are
          log,            \* the records in the file at LogPath
          dumping,        \* is there a --dump
          length,         \* of the path of the dump file's directory
          at, prefix,     \* the control point, and the loop of make_path
          orphan,         \* was the file of the open stream removed
          result,         \* what dump_to_log_file returned
          changes, reports,
          hindered,       \* auxiliary: since the call began, has a call failed by
                          \* itself, or has somebody removed or obstructed a path
          before          \* auxiliary: the records of others and of earlier reports

disk == <<dirs, files, log>>
vars == <<disk, dumping, length, at, prefix, orphan, result, changes, reports, hindered, before>>

Exists(p) == p \in dirs \cup files \cup {<<>>}
IsDir(p)  == p \in dirs \cup {<<>>}

\* Every entry is one thing and is in a directory.
WellFormed ==
    /\ dirs \cap files = {}
    /\ \A p \in dirs \cup files : IsDir(Dirname(p))

Init ==
    /\ dirs \in SUBSET Paths
    /\ files \in SUBSET (Paths \ dirs)
    /\ WellFormed
    /\ log = 0 /\ dumping \in BOOLEAN /\ length \in DumpDirLengths
    /\ at = IF dumping THEN "make_path" ELSE "running"
    /\ prefix = 1 /\ orphan = FALSE /\ result = NoResult
    /\ changes = 0 /\ reports = 0 /\ hindered = FALSE /\ before = 0

\* What mkdir leaves when it returns 0 or EEXIST, and fopen for writing.
Mkdir(p) == dirs' = (IF Exists(p) THEN dirs ELSE dirs \cup {p}) /\ UNCHANGED files
Fopen(p) == files' = files \cup {p} /\ UNCHANGED dirs

\* May the call succeed, or say EEXIST; may it fail, by itself or not.
MkdirOk(p)    == IsDir(Dirname(p))
FopenOk(p)    == IsDir(Dirname(p)) /\ p \notin dirs
MkdirFails(p) == ~MkdirOk(p) \/ "mkdir" \in FileFaults
FopenFails(p) == ~FopenOk(p) \/ "fopen" \in FileFaults

\* A failure of a call that could have succeeded is a hindrance.
Hinder(ok) == hindered' = (hindered \/ ok)

-----------------------------------------------------------------------------
(* --dump.                                                                 *)

\* Mutant: the path of the file is not cut.
DumpDirUncut == DumpPath

DumpDir == Dirname(DumpPath)
Prefix  == SubSeq(DumpDir, 1, prefix)

\* make_path has a prefix to make, of a path that snprintf could copy to tmp_path
\* with its NUL.
Copied == at = "make_path" /\ prefix <= Len(DumpDir) /\ length < TmpPathSize

\* The path does not fit: make_path returns -1 before its first mkdir, and main 1.
\* (main does not call make_path for the working directory.)
PathTooLong ==
    /\ at = "make_path" /\ DumpDir # <<>> /\ length >= TmpPathSize
    /\ at' = "failed"
    /\ UNCHANGED <<disk, dumping, length, prefix, orphan, result, changes, reports, hindered, before>>

\* One mkdir of make_path.
MakePrefix ==
    /\ Copied /\ MkdirOk(Prefix)
    /\ Mkdir(Prefix)
    /\ prefix' = prefix + 1
    /\ UNCHANGED <<log, dumping, length, at, orphan, result, changes, reports, hindered, before>>

\* Mutant: EEXIST is an error.
MakePrefixFailsIfExists ==
    /\ Copied
    /\ MkdirFails(Prefix) \/ Exists(Prefix)
    /\ at' = "failed" /\ Hinder(MkdirOk(Prefix) /\ ~Exists(Prefix))
    /\ UNCHANGED <<disk, dumping, length, prefix, orphan, result, changes, reports, before>>

\* main returns 1.
MakePrefixFails ==
    /\ Copied /\ MkdirFails(Prefix)
    /\ at' = "failed" /\ Hinder(MkdirOk(Prefix))
    /\ UNCHANGED <<disk, dumping, length, prefix, orphan, result, changes, reports, before>>

OpenDump ==
    /\ at = "make_path" /\ prefix > Len(DumpDir) /\ FopenOk(DumpPath)
    /\ Fopen(DumpPath)
    /\ at' = "running"
    /\ UNCHANGED <<log, dumping, length, prefix, orphan, result, changes, reports, hindered, before>>

OpenDumpFails ==
    /\ at = "make_path" /\ prefix > Len(DumpDir) /\ FopenFails(DumpPath)
    /\ at' = "failed" /\ Hinder(FopenOk(DumpPath))
    /\ UNCHANGED <<disk, dumping, length, prefix, orphan, result, changes, reports, before>>

-----------------------------------------------------------------------------
(* dump_to_log_file.                                                       *)

LogDir == Dirname(LogPath)

BeginReport ==
    /\ at = "running" /\ reports < MaxReports
    /\ at' = "open" /\ result' = NoResult /\ reports' = reports + 1
    /\ hindered' = FALSE /\ before' = log
    /\ UNCHANGED <<disk, dumping, length, prefix, orphan, changes>>

\* The first fopen or the second.
OpenLog ==
    /\ at \in {"open", "reopen"} /\ FopenOk(LogPath)
    /\ Fopen(LogPath)
    /\ orphan' = FALSE
    /\ at' = "write"
    /\ UNCHANGED <<log, dumping, length, prefix, result, changes, reports, hindered, before>>

OpenLogFails ==
    /\ at = "open" /\ FopenFails(LogPath)
    /\ at' = "mkdir"
    /\ UNCHANGED <<disk, dumping, length, prefix, orphan, result, changes, reports, hindered, before>>

MakeLogDir ==
    /\ at = "mkdir" /\ MkdirOk(LogDir)
    /\ Mkdir(LogDir)
    /\ at' = "reopen"
    /\ UNCHANGED <<log, dumping, length, prefix, orphan, result, changes, reports, hindered, before>>

\* Mutant: EEXIST is an error.
MakeLogDirFailsIfExists ==
    /\ at = "mkdir"
    /\ MkdirFails(LogDir) \/ Exists(LogDir)
    /\ at' = "running" /\ result' = 1 /\ Hinder(MkdirOk(LogDir) /\ ~Exists(LogDir))
    /\ UNCHANGED <<disk, dumping, length, prefix, orphan, changes, reports, before>>

MakeLogDirFails ==
    /\ at = "mkdir" /\ MkdirFails(LogDir)
    /\ at' = "running" /\ result' = 1 /\ Hinder(MkdirOk(LogDir))
    /\ UNCHANGED <<disk, dumping, length, prefix, orphan, changes, reports, before>>

ReopenLogFails ==
    /\ at = "reopen" /\ FopenFails(LogPath)
    /\ at' = "running" /\ result' = 1 /\ Hinder(FopenOk(LogPath))
    /\ UNCHANGED <<disk, dumping, length, prefix, orphan, changes, reports, before>>

\* fprintf and fclose: the end of the file there is, at that time.
WriteRecord ==
    /\ at = "write"
    /\ log' = IF orphan THEN log ELSE log + 1
    /\ at' = "running" /\ result' = 0
    /\ UNCHANGED <<dirs, files, dumping, length, prefix, orphan, changes, reports, hindered, before>>

-----------------------------------------------------------------------------
(* Other processes.                                                        *)

Change ==
    /\ changes < MaxChanges /\ changes' = changes + 1
    /\ UNCHANGED <<dumping, length, at, prefix, result, reports>>

\* The directories that are made belong to others, too: that is no hindrance.
OthersMkdir(p) ==
    /\ ~Exists(p) /\ MkdirOk(p) /\ Mkdir(p)
    /\ Hinder(p \in {DumpPath, LogPath})
    /\ Change /\ UNCHANGED <<log, orphan, before>>

OthersCreate(p) ==
    /\ ~Exists(p) /\ FopenOk(p) /\ Fopen(p)
    /\ Hinder(p \notin {DumpPath, LogPath})
    /\ Change /\ UNCHANGED <<log, orphan, before>>

\* rm -r.
OthersRemove(p) ==
    /\ Exists(p)
    /\ LET gone == {q \in Paths : IsPrefix(p, q)}
       IN  /\ dirs' = dirs \ gone /\ files' = files \ gone
           /\ log' = IF LogPath \in gone THEN 0 ELSE log
           /\ orphan' = (orphan \/ LogPath \in gone)
    /\ hindered' = TRUE
    /\ Change /\ UNCHANGED before

\* The report of a second emulator.
OthersReport ==
    /\ LogPath \in files
    /\ log' = log + 1 /\ before' = before + 1
    /\ Change /\ UNCHANGED <<dirs, files, orphan, hindered>>

Program ==
    \/ PathTooLong \/ MakePrefix \/ MakePrefixFails \/ OpenDump \/ OpenDumpFails
    \/ BeginReport \/ OpenLog \/ OpenLogFails
    \/ MakeLogDir \/ MakeLogDirFails \/ ReopenLogFails \/ WriteRecord

Next ==
    \/ Program
    \/ \E p \in Paths : OthersMkdir(p) \/ OthersCreate(p) \/ OthersRemove(p)
    \/ OthersReport

Spec == Init /\ [][Next]_vars

-----------------------------------------------------------------------------
(* Properties.                                                             *)

\* The file system is one, and make_path never leaves the directory's path.
TypeOK ==
    /\ dirs \cup files \subseteq Paths /\ WellFormed
    /\ log \in Nat /\ before \in Nat /\ result \in {0, 1, NoResult}
    /\ prefix \in 1..Len(DumpPath) /\ length \in Nat
    /\ at \in {"make_path", "failed", "running", "open", "mkdir", "reopen", "write"}

\* Something else is where the file or one of its directories should be.
Obstructed(path) ==
    path \in dirs \/ \E k \in 1..(Len(path) - 1) : SubSeq(path, 1, k) \in files

\* The path of the file's directory has no room in make_path's buffer.
TooLong == DumpDir # <<>> /\ length >= TmpPathSize

\* --dump gives up only if a call failed by itself, something was taken away, a
\* file is where a directory should be, or the path of the directory has 1024
\* bytes or more, and otherwise there is a dump file: not because another process
\* made the same directories at the same time.
DumpUnlessHindered ==
    dumping /\ ~hindered /\ reports = 0 =>
        /\ at = "running" => DumpPath \in files /\ ~TooLong
        /\ at = "failed" => Obstructed(DumpPath) \/ TooLong

\* A report adds its record to the log, after all that were there and those that
\* others added meanwhile, or fails and adds none; and it fails only if a call
\* failed by itself, something was taken away, or something is in the way.  (Of a
\* failure it matters that it is not 0: reporting.c:106 and 114 return 1 where the
\* comments of dump_to_log_file and dump_stats say -1.)
ReportUnlessHindered ==
    at = "running" /\ result # NoResult /\ ~hindered =>
        /\ result = 0 <=> ~Obstructed(LogPath)
        /\ log = before + (IF result = 0 THEN 1 ELSE 0)
=============================================================================
