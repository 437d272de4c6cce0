----------------------------- MODULE FilesProofs -----------------------------
(***************************************************************************)
(* --dump and the log file among other processes that make, create, remove *)
(* and write at any time, for any paths and any number of reports and      *)
(* changes.                                                                *)
(***************************************************************************)
EXTENDS Files, SequenceTheorems, TLAPS

\* What make_path has passed: a directory, or a file that mkdir said EEXIST of.
DumpInv ==
    dumping /\ ~hindered /\ reports = 0 =>
        /\ at = "make_path" => \A k \in 1..(prefix - 1) : SubSeq(DumpPath, 1, k) \in dirs \cup files
        /\ at = "make_path" => prefix = 1 \/ ~TooLong
        /\ at = "running" => DumpPath \in files /\ ~TooLong
        /\ at = "failed" => Obstructed(DumpPath) \/ TooLong

Reporting == {"open", "mkdir", "reopen", "write"}

\* Until its record is written the report adds none.
ReportInv ==
    /\ at \in Reporting => result = NoResult /\ reports # 0
    /\ at \in Reporting /\ ~hindered =>
         /\ log = before
         /\ at = "reopen" => LogDir \in dirs \cup files
         /\ at = "write" => LogPath \in files /\ ~orphan
    /\ at = "running" /\ ~hindered /\ result = 0 => LogPath \in files /\ log = before + 1
    /\ at = "running" /\ ~hindered /\ result = 1 => Obstructed(LogPath) /\ log = before
    /\ at = "make_path" => result = NoResult

Bounded == reports \in Nat /\ orphan \in BOOLEAN /\ hindered \in BOOLEAN

IInv == TypeOK /\ Bounded /\ DumpInv /\ ReportInv
-----------------------------------------------------------------------------
(* Paths.                                                                  *)

\* The first m names of the first n names.
LEMMA PrefixOfPrefix ==
  ASSUME NEW S, NEW s \in Seq(S), NEW n \in 0..Len(s), NEW m \in 0..n
  PROVE  /\ SubSeq(s, 1, n) \in Seq(S) /\ Len(SubSeq(s, 1, n)) = n
         /\ SubSeq(SubSeq(s, 1, n), 1, m) = SubSeq(s, 1, m)
  OBVIOUS

\* Without its last name.
LEMMA AllButLast ==
  ASSUME NEW S, NEW s \in Seq(S), Len(s) \in Nat \ {0}
  PROVE  SubSeq(s, 1, Len(s) - 1) \in Seq(S) /\ Len(SubSeq(s, 1, Len(s) - 1)) = Len(s) - 1
<1> DEFINE n == Len(s) - 1
<1>1. n \in 0..Len(s) /\ n \in 0..n
  OBVIOUS
<1> HIDE DEF n
<1>2. SubSeq(s, 1, n) \in Seq(S) /\ Len(SubSeq(s, 1, n)) = n
  BY <1>1, PrefixOfPrefix
<1> QED
  BY <1>2 DEF n

LEMMA EmptyPrefix ==
  ASSUME NEW S, NEW s \in Seq(S) PROVE SubSeq(s, 1, 0) = <<>>
  OBVIOUS

LEMMA PathFacts ==
  ASSUME NEW p \in Paths
  PROVE  /\ p \in Seq(STRING) /\ Len(p) \in Nat \ {0}
         /\ Dirname(p) = SubSeq(p, 1, Len(p) - 1)
         /\ Dirname(p) \in Paths \cup {<<>>}
<1>1. p \in Seq(STRING) /\ p # <<>>
  BY PathsAssumption
<1>2. Len(p) \in Nat \ {0}
  BY <1>1, EmptySeq
<1>3. Dirname(p) = SubSeq(p, 1, Len(p) - 1)
  BY DEF Dirname, Front
<1>4. CASE Len(p) = 1
  BY <1>1, <1>3, <1>4, EmptyPrefix
<1>5. CASE Len(p) # 1
  <2>1. Len(p) - 1 \in 1..Len(p)
    BY <1>2, <1>5
  <2> QED
    BY <1>3, <2>1, PathsAssumption
<1> QED
  BY <1>1, <1>2, <1>3, <1>4, <1>5

\* The k-th path make_path makes, and the directory it is made in.
LEMMA DumpFacts ==
  /\ DumpPath \in Paths /\ Len(DumpPath) \in Nat \ {0}
  /\ Len(DumpDir) = Len(DumpPath) - 1
  /\ \A k \in 1..Len(DumpDir) :
       /\ SubSeq(DumpDir, 1, k) = SubSeq(DumpPath, 1, k)
       /\ SubSeq(DumpDir, 1, k) \in Paths
       /\ Dirname(SubSeq(DumpDir, 1, k)) = SubSeq(DumpPath, 1, k - 1)
  /\ DumpDir = SubSeq(DumpPath, 1, Len(DumpPath) - 1)
  /\ SubSeq(DumpPath, 1, 0) = <<>>
<1>1. DumpPath \in Paths
  BY PathsAssumption
<1>2. DumpPath \in Seq(STRING) /\ Len(DumpPath) \in Nat \ {0}
  BY <1>1, PathFacts
<1>3. DumpDir = SubSeq(DumpPath, 1, Len(DumpPath) - 1)
  BY <1>1, PathFacts DEF DumpDir
<1>4. Len(DumpDir) = Len(DumpPath) - 1
  BY <1>2, <1>3, AllButLast
<1>5. SubSeq(DumpPath, 1, 0) = <<>>
  BY <1>2, EmptyPrefix
<1>6. ASSUME NEW k \in 1..Len(DumpDir)
      PROVE  /\ SubSeq(DumpDir, 1, k) = SubSeq(DumpPath, 1, k)
             /\ SubSeq(DumpDir, 1, k) \in Paths
             /\ Dirname(SubSeq(DumpDir, 1, k)) = SubSeq(DumpPath, 1, k - 1)
  <2>1. SubSeq(DumpDir, 1, k) = SubSeq(DumpPath, 1, k)
    BY <1>2, <1>3, <1>4, PrefixOfPrefix
  <2>2. k \in 1..Len(DumpPath)
    BY <1>2, <1>4
  <2>3. SubSeq(DumpPath, 1, k) \in Paths
    BY <1>1, <2>2, PathsAssumption
  <2>4. Len(SubSeq(DumpPath, 1, k)) = k /\ SubSeq(SubSeq(DumpPath, 1, k), 1, k - 1) = SubSeq(DumpPath, 1, k - 1)
    BY <1>2, <2>2, PrefixOfPrefix
  <2>5. Dirname(SubSeq(DumpPath, 1, k)) = SubSeq(DumpPath, 1, k - 1)
    BY <2>4 DEF Dirname, Front
  <2> QED
    BY <2>1, <2>3, <2>5
<1> QED
  BY <1>1, <1>2, <1>3, <1>4, <1>5, <1>6

\* The directory of the log is in the working directory.
LEMMA LogFacts ==
  /\ LogPath \in Paths /\ LogDir \in Paths
  /\ LogDir = SubSeq(LogPath, 1, 1) /\ Dirname(LogDir) = <<>>
<1>1. LogPath \in Paths /\ LogPath \in Seq(STRING) /\ Len(LogPath) = 2
  BY PathsAssumption, LogAssumption, PathFacts
<1>2. LogDir = SubSeq(LogPath, 1, 1)
  <2>1. LogDir = SubSeq(LogPath, 1, Len(LogPath) - 1)
    BY <1>1, PathFacts DEF LogDir
  <2>2. Len(LogPath) - 1 = 1
    BY <1>1
  <2> QED
    BY <2>1, <2>2, Zenon
<1>3. LogDir \in Paths
  BY <1>1, <1>2, PathsAssumption
<1>4. Len(LogDir) = 1 /\ SubSeq(LogDir, 1, 0) = SubSeq(LogPath, 1, 0)
  BY <1>1, <1>2, PrefixOfPrefix
<1>5. Dirname(LogDir) = SubSeq(LogDir, 1, 0)
  BY <1>3, <1>4, PathFacts
<1> QED
  BY <1>1, <1>2, <1>3, <1>4, <1>5, EmptyPrefix

\* What goes with a directory goes with everything above it.
LEMMA PrefixAbove ==
  ASSUME NEW p \in Paths, NEW q \in Paths, IsPrefix(p, Dirname(q))
  PROVE  IsPrefix(p, q)
<1>1. /\ p \in Seq(STRING) /\ q \in Seq(STRING) /\ Len(p) \in Nat /\ Len(q) \in Nat \ {0}
      /\ Dirname(q) = SubSeq(q, 1, Len(q) - 1)
  BY PathFacts
<1>2. Len(Dirname(q)) = Len(q) - 1
  BY <1>1, AllButLast
<1>3. Len(p) <= Len(q) - 1 /\ SubSeq(p, 1, Len(p)) = SubSeq(Dirname(q), 1, Len(p))
  BY <1>2 DEF IsPrefix
<1>4. SubSeq(Dirname(q), 1, Len(p)) = SubSeq(q, 1, Len(p))
  BY <1>1, <1>3, PrefixOfPrefix
<1> QED
  BY <1>1, <1>3, <1>4 DEF IsPrefix

-----------------------------------------------------------------------------
(* The file system.                                                        *)

DiskOK == dirs \cup files \subseteq Paths /\ WellFormed

LEMMA MkdirKeeps ==
  ASSUME DiskOK, NEW p \in Paths, MkdirOk(p), Mkdir(p)
  PROVE  DiskOK' /\ dirs \subseteq dirs' /\ files' = files /\ p \in dirs' \cup files'
<1>1. p # <<>>
  BY PathsAssumption
<1>2. files' = files /\ dirs' \in {dirs, dirs \cup {p}} /\ (dirs' # dirs => p \notin files)
  BY <1>1 DEF Mkdir, Exists
<1>3. p \in dirs' \cup files'
  BY <1>1 DEF Mkdir, Exists
<1>4. WellFormed'
  BY <1>2 DEF DiskOK, WellFormed, IsDir, MkdirOk
<1> QED
  BY <1>2, <1>3, <1>4 DEF DiskOK

LEMMA FopenKeeps ==
  ASSUME DiskOK, NEW p \in Paths, FopenOk(p), Fopen(p)
  PROVE  DiskOK' /\ dirs' = dirs /\ files' = files \cup {p}
  BY DEF DiskOK, WellFormed, IsDir, FopenOk, Fopen

LEMMA RemoveKeeps ==
  ASSUME DiskOK, NEW p \in Paths, OthersRemove(p)
  PROVE  DiskOK'
<1> DEFINE gone == {q \in Paths : IsPrefix(p, q)}
<1>1. dirs' = dirs \ gone /\ files' = files \ gone
  BY DEF OthersRemove
<1>2. ASSUME NEW q \in dirs' \cup files' PROVE IsDir(Dirname(q))'
  <2>1. q \in Paths /\ q \notin gone /\ IsDir(Dirname(q))
    BY <1>1 DEF DiskOK, WellFormed
  <2>2. Dirname(q) \notin gone
    BY <2>1, PrefixAbove
  <2> QED
    BY <1>1, <2>1, <2>2 DEF IsDir
<1> QED
  BY <1>1, <1>2 DEF DiskOK, WellFormed

\* As long as nothing is removed, what is in the way stays in the way.
LEMMA StaysObstructed ==
  ASSUME NEW path, dirs \subseteq dirs', files \subseteq files', Obstructed(path)
  PROVE  Obstructed(path)'
  BY DEF Obstructed

\* Where the log is, nothing is in its way.
LEMMA LogNotObstructed ==
  ASSUME DiskOK, LogPath \in files
  PROVE  ~Obstructed(LogPath)
<1>1. IsDir(Dirname(LogPath)) /\ LogPath \notin dirs
  BY DEF DiskOK, WellFormed
<1>2. LogDir \in dirs
  BY <1>1, LogFacts, PathsAssumption DEF IsDir, LogDir
<1>3. LogDir \notin files
  BY <1>2 DEF DiskOK, WellFormed
<1> QED
  BY <1>1, <1>3, LogFacts, LogAssumption DEF Obstructed
-----------------------------------------------------------------------------
(* Types.                                                                  *)

Others == \E p \in Paths : OthersMkdir(p) \/ OthersCreate(p) \/ OthersRemove(p)

\* What a step of another process leaves alone.
LEMMA OthersFrame ==
  Others \/ OthersReport => UNCHANGED <<dumping, length, at, prefix, result, reports>>
  BY DEF Others, OthersReport, OthersMkdir, OthersCreate, OthersRemove, Change

LEMMA InitTypes == Init => IInv
<1> SUFFICES ASSUME Init PROVE IInv
  OBVIOUS
<1>1. 1 \in 1..Len(DumpPath)
  BY DumpFacts
<1>2. TypeOK
  BY <1>1, LengthsAssumption DEF Init, TypeOK
<1>3. DumpInv
  <2>1. \A k \in 1..(prefix - 1) : SubSeq(DumpPath, 1, k) \in dirs \cup files
    BY DEF Init
  <2>2. prefix = 1 /\ (dumping => at = "make_path")
    BY DEF Init
  <2> QED
    BY <2>1, <2>2, Zenon DEF DumpInv
<1>4. Bounded
  BY DEF Init, Bounded
<1>5. ReportInv
  <2>1. result # 0 /\ result # 1 /\ result = NoResult
    BY DEF Init, NoResult
  <2>2. at \notin Reporting
    BY DEF Init, Reporting
  <2> QED
    BY <2>1, <2>2, Zenon DEF ReportInv, Reporting
<1> QED
  BY <1>2, <1>3, <1>4, <1>5 DEF IInv

\* The file system after a step, and whether anything was taken away.
LEMMA DiskNext ==
  ASSUME TypeOK, [Next]_vars
  PROVE  /\ DiskOK'
         /\ ~hindered' => \/ dirs \subseteq dirs' /\ files \subseteq files' /\ (orphan => orphan')
                          \/ OpenLog
<1>0. DiskOK
  BY DEF TypeOK, DiskOK
<1>1. CASE MakePrefix
  <2>1. Prefix \in Paths
    BY <1>1, DumpFacts DEF Copied, MakePrefix, TypeOK, Prefix
  <2> QED
    BY <1>0, <1>1, <2>1, MkdirKeeps DEF MakePrefix
<1>2. CASE OpenDump
  BY <1>0, <1>2, DumpFacts, FopenKeeps DEF OpenDump
<1>3. CASE OpenLog
  BY <1>0, <1>3, LogFacts, FopenKeeps DEF OpenLog
<1>4. CASE MakeLogDir
  BY <1>0, <1>4, LogFacts, MkdirKeeps DEF MakeLogDir
<1>5. CASE UNCHANGED <<dirs, files, orphan>>
  BY <1>0, <1>5 DEF DiskOK, WellFormed, IsDir
<1>6. CASE PathTooLong \/ MakePrefixFails \/ OpenDumpFails \/ BeginReport \/ OpenLogFails \/ MakeLogDirFails
           \/ ReopenLogFails \/ WriteRecord \/ OthersReport \/ UNCHANGED vars
  BY <1>5, <1>6 DEF PathTooLong, MakePrefixFails, OpenDumpFails, BeginReport, OpenLogFails, MakeLogDirFails,
     ReopenLogFails, WriteRecord, OthersReport, Change, disk, vars
<1>7. ASSUME NEW p \in Paths, OthersMkdir(p)
      PROVE  DiskOK' /\ dirs \subseteq dirs' /\ files \subseteq files' /\ (orphan => orphan')
  BY <1>0, <1>7, MkdirKeeps DEF OthersMkdir
<1>8. ASSUME NEW p \in Paths, OthersCreate(p)
      PROVE  DiskOK' /\ dirs \subseteq dirs' /\ files \subseteq files' /\ (orphan => orphan')
  BY <1>0, <1>8, FopenKeeps DEF OthersCreate
<1>9. ASSUME NEW p \in Paths, OthersRemove(p)
      PROVE  DiskOK' /\ hindered'
  BY <1>0, <1>9, RemoveKeeps DEF OthersRemove
<1> QED
  BY <1>1, <1>2, <1>3, <1>4, <1>6, <1>7, <1>8, <1>9 DEF Next, Program

LEMMA LogNext ==
  ASSUME TypeOK, Bounded, [Next]_vars
  PROVE  log' \in Nat /\ before' \in Nat /\ reports' \in Nat
<1>1. CASE Others
  <2>1. log' \in {log, 0} /\ before' = before
    BY <1>1 DEF Others, OthersMkdir, OthersCreate, OthersRemove
  <2> QED
    BY <1>1, <2>1, OthersFrame DEF TypeOK, Bounded
<1>2. CASE OthersReport
  BY <1>2, OthersFrame DEF OthersReport, TypeOK, Bounded
<1>3. CASE WriteRecord
  BY <1>3 DEF WriteRecord, TypeOK, Bounded
<1>4. CASE BeginReport
  BY <1>4 DEF BeginReport, disk, TypeOK, Bounded
<1>5. CASE UNCHANGED <<log, before, reports>>
  BY <1>5 DEF TypeOK, Bounded
<1>6. CASE PathTooLong \/ MakePrefix \/ MakePrefixFails \/ OpenDump \/ OpenDumpFails \/ OpenLog \/ OpenLogFails
           \/ MakeLogDir \/ MakeLogDirFails \/ ReopenLogFails \/ UNCHANGED vars
  BY <1>5, <1>6 DEF PathTooLong, MakePrefix, MakePrefixFails, OpenDump, OpenDumpFails, OpenLog, OpenLogFails,
     MakeLogDir, MakeLogDirFails, ReopenLogFails, disk, vars
<1> QED
  BY <1>1, <1>2, <1>3, <1>4, <1>6 DEF Next, Program, Others

LEMMA FlagsNext ==
  ASSUME Bounded, [Next]_vars
  PROVE  orphan' \in BOOLEAN /\ hindered' \in BOOLEAN
<1>1. CASE Others
  BY <1>1 DEF Bounded, Others, OthersMkdir, OthersCreate, OthersRemove, Hinder
<1>2. CASE ~Others
  BY <1>2 DEF Bounded, Next, Program, Others, OthersReport, Hinder, PathTooLong, MakePrefix, MakePrefixFails, OpenDump,
     OpenDumpFails, BeginReport, OpenLog, OpenLogFails, MakeLogDir, MakeLogDirFails, ReopenLogFails,
     WriteRecord, vars
<1> QED
  BY <1>1, <1>2

\* The control point, the loop of make_path and the result.
LEMMA ControlNext ==
  ASSUME TypeOK, [Next]_vars
  PROVE  /\ at' \in {"make_path", "failed", "running", "open", "mkdir", "reopen", "write"}
         /\ result' \in {0, 1, NoResult} /\ prefix' \in 1..Len(DumpPath)
<1>1. CASE MakePrefix
  <2>1. prefix' = prefix + 1 /\ prefix <= Len(DumpPath) - 1
    BY <1>1, DumpFacts DEF Copied, MakePrefix
  <2>2. prefix' \in 1..Len(DumpPath)
    BY <2>1, DumpFacts DEF TypeOK
  <2> QED
    BY <1>1, <2>2 DEF Copied, MakePrefix, TypeOK
<1>2. CASE Program /\ ~MakePrefix
  <2>1. prefix' = prefix /\ result' \in {result, NoResult, 0, 1}
        /\ at' \in {at, "failed", "running", "open", "mkdir", "reopen", "write"}
    BY <1>2 DEF Program, PathTooLong, MakePrefixFails, OpenDump, OpenDumpFails, BeginReport, OpenLog, OpenLogFails,
       MakeLogDir, MakeLogDirFails, ReopenLogFails, WriteRecord
  <2>2. result' \in {0, 1, NoResult}
    BY <2>1 DEF TypeOK
  <2> QED
    BY <2>1, <2>2, Zenon DEF TypeOK
<1>3. CASE Others \/ OthersReport \/ UNCHANGED vars
  BY <1>3, OthersFrame, Zenon DEF TypeOK, vars
<1> QED
  BY <1>1, <1>2, <1>3 DEF Next, Others

\* The text of the path does not change.
LEMMA LengthNext == [Next]_vars => length' = length
<1>1. Others => length' = length
  BY OthersFrame
<1> QED
  BY <1>1, OthersFrame DEF Next, Program, Others, PathTooLong, MakePrefix, MakePrefixFails, OpenDump,
     OpenDumpFails, BeginReport, OpenLog, OpenLogFails, MakeLogDir, MakeLogDirFails, ReopenLogFails,
     WriteRecord, vars

LEMMA TypeNext == TypeOK /\ Bounded /\ [Next]_vars => TypeOK' /\ Bounded'
<1> SUFFICES ASSUME TypeOK, Bounded, [Next]_vars PROVE TypeOK' /\ Bounded'
  OBVIOUS
<1>1. DiskOK'
  BY DiskNext
<1> QED
  BY <1>1, LogNext, FlagsNext, ControlNext, LengthNext DEF TypeOK, Bounded, DiskOK

-----------------------------------------------------------------------------
(* --dump.                                                                 *)

\* Up to the loop of make_path.
Made(n) == \A k \in 1..(n - 1) : SubSeq(DumpPath, 1, k) \in dirs \cup files

LEMMA DumpNext == IInv /\ [Next]_vars => DumpInv'
<1> SUFFICES ASSUME IInv, [Next]_vars, dumping', ~hindered', reports' = 0
             PROVE  /\ at' = "make_path" => Made(prefix)'
                    /\ at' = "make_path" => prefix' = 1 \/ ~TooLong'
                    /\ at' = "running" => DumpPath \in files' /\ ~TooLong'
                    /\ at' = "failed" => Obstructed(DumpPath)' \/ TooLong'
  BY DEF DumpInv, Made
<1> USE DEF IInv
<1>0. DumpPath \in Paths
  BY DumpFacts
<1>r. ASSUME reports = 0, at \in Reporting PROVE FALSE
  BY <1>r, Zenon DEF ReportInv
<1>l. TooLong <=> TooLong'
  BY LengthNext DEF TooLong
<1>p. CASE PathTooLong
  BY <1>l, <1>p DEF PathTooLong, TooLong
<1>1. CASE MakePrefix
  <2>0. ~TooLong
    BY <1>1 DEF MakePrefix, Copied, TooLong, TmpPathSize, TypeOK
  <2>1. /\ at = "make_path" /\ ~hindered /\ dumping /\ reports = 0 /\ at' = at /\ prefix' = prefix + 1
        /\ Mkdir(Prefix) /\ MkdirOk(Prefix) /\ prefix \in 1..Len(DumpDir)
    BY <1>1, DumpFacts DEF Copied, MakePrefix, TypeOK
  <2>2. Made(prefix)
    BY <2>1 DEF DumpInv, Made
  <2>3. Prefix \in Paths /\ Prefix = SubSeq(DumpPath, 1, prefix)
    BY <2>1, DumpFacts DEF Prefix
  <2>4. dirs \subseteq dirs' /\ files' = files /\ Prefix \in dirs' \cup files'
    BY <2>1, <2>3, MkdirKeeps DEF TypeOK, DiskOK
  <2>5. ASSUME NEW k \in 1..(prefix' - 1) PROVE SubSeq(DumpPath, 1, k) \in dirs' \cup files'
    <3>1. k \in 1..(prefix - 1) \/ k = prefix
      BY <2>1, <2>5
    <3> QED
      BY <2>2, <2>3, <2>4, <3>1 DEF Made
  <2> QED
    BY <1>l, <2>0, <2>1, <2>5, Zenon DEF Made
<1>2. CASE MakePrefixFails
  <2>1. /\ at = "make_path" /\ ~hindered /\ dumping /\ reports = 0 /\ at' = "failed"
        /\ ~MkdirOk(Prefix) /\ prefix <= Len(DumpDir) /\ dirs' = dirs /\ files' = files
    BY <1>2 DEF Copied, MakePrefixFails, Hinder, disk
  <2>p. prefix \in 1..Len(DumpDir)
    BY <2>1, DumpFacts DEF TypeOK
  <2>2. Made(prefix)
    BY <2>1, <2>p DEF DumpInv, Made
  <2>3. Dirname(Prefix) = SubSeq(DumpPath, 1, prefix - 1) /\ Dirname(Prefix) \notin dirs \cup {<<>>}
    BY <2>1, <2>p, DumpFacts DEF Prefix, MkdirOk, IsDir
  <2>4. prefix - 1 \in 1..(prefix - 1) /\ prefix - 1 \in 1..(Len(DumpPath) - 1)
    BY <2>1, <2>p, <2>3, DumpFacts
  <2>5. SubSeq(DumpPath, 1, prefix - 1) \in files
    BY <2>2, <2>3, <2>4 DEF Made
  <2>6. Obstructed(DumpPath)'
    BY <2>1, <2>p, <2>4, <2>5 DEF Obstructed
  <2> QED
    BY <2>1, <2>p, <2>6
<1>3. CASE OpenDump
  <2>1. /\ at = "make_path" /\ ~hindered /\ dumping /\ reports = 0 /\ at' = "running"
        /\ DumpPath \in files' /\ prefix > Len(DumpDir)
    BY <1>3 DEF OpenDump, Fopen
  <2>2. ASSUME TooLong PROVE FALSE
    <3>1. DumpDir # <<>> /\ DumpDir \in Seq(STRING)
      BY <1>0, <2>2, DumpFacts, PathFacts, EmptySeq, PathsAssumption DEF TooLong, DumpDir
    <3>2. Len(DumpDir) \in Nat \ {0}
      BY <3>1, EmptySeq
    <3>3. prefix # 1
      BY <2>1, <3>2
    <3> QED
      BY <2>1, <2>2, <3>3, Zenon DEF DumpInv
  <2> QED
    BY <1>l, <2>1, <2>2
<1>4. CASE OpenDumpFails
  <2>1. /\ at = "make_path" /\ ~hindered /\ dumping /\ reports = 0 /\ at' = "failed"
        /\ ~FopenOk(DumpPath) /\ prefix > Len(DumpDir) /\ dirs' = dirs /\ files' = files
    BY <1>4 DEF OpenDumpFails, Hinder, disk
  <2>p. prefix = Len(DumpPath)
    BY <2>1, DumpFacts DEF TypeOK
  <2>2. Made(Len(DumpPath))
    BY <2>1, <2>p DEF DumpInv, Made
  <2>3. CASE DumpPath \in dirs
    BY <2>1, <2>p, <2>3 DEF Obstructed
  <2>4. CASE DumpPath \notin dirs
    <3>1. DumpDir \notin dirs \cup {<<>>}
      BY <2>1, <2>p, <2>4 DEF FopenOk, IsDir, DumpDir
    <3>2. Len(DumpPath) - 1 \in 1..(Len(DumpPath) - 1)
      BY <3>1, DumpFacts
    <3>3. DumpDir \in files
      BY <2>2, <3>1, <3>2, DumpFacts DEF Made
    <3>4. Obstructed(DumpPath)'
      BY <2>1, <2>p, <3>2, <3>3, DumpFacts DEF Obstructed
    <3> QED
      BY <2>1, <2>p, <3>4
  <2> QED
    BY <2>3, <2>4
<1>5. CASE BeginReport
  BY <1>5 DEF BeginReport, TypeOK, Bounded
<1>6. CASE OpenLog \/ OpenLogFails \/ MakeLogDir \/ MakeLogDirFails \/ ReopenLogFails \/ WriteRecord
  <2>1. reports = reports' /\ at \in Reporting
    BY <1>6 DEF OpenLog, OpenLogFails, MakeLogDir, MakeLogDirFails, ReopenLogFails, WriteRecord, Reporting
  <2> QED
    BY <1>r, <2>1
<1>7. CASE Others \/ OthersReport \/ UNCHANGED vars
  <2>1. UNCHANGED <<dumping, length, at, prefix, result, reports>>
    BY <1>7, OthersFrame DEF vars
  <2>2. ~hindered
    BY <1>7 DEF Others, OthersReport, OthersMkdir, OthersCreate, OthersRemove, Hinder, vars
  <2>3. dirs \subseteq dirs' /\ files \subseteq files'
    <3>1. CASE OpenLog
      BY <1>r, <2>1, <3>1 DEF OpenLog, Reporting
    <3> QED
      BY <3>1, DiskNext
  <2>4. Made(prefix) => Made(prefix)'
    BY <2>1, <2>3 DEF Made
  <2>5. Obstructed(DumpPath) => Obstructed(DumpPath)'
    BY <2>3, StaysObstructed
  <2> QED
    <3>1. dumping /\ reports = 0
      BY <2>1
    <3>2. /\ at = "make_path" => Made(prefix)
          /\ at = "make_path" => prefix = 1 \/ ~TooLong
          /\ at = "running" => DumpPath \in files /\ ~TooLong
          /\ at = "failed" => Obstructed(DumpPath) \/ TooLong
      BY <2>2, <3>1, Zenon DEF DumpInv, Made
    <3>3. prefix' = 1 <=> prefix = 1
      BY <2>1
    <3>4. at' = "running" => DumpPath \in files'
      BY <2>1, <2>3, <3>2
    <3> QED
      BY <1>l, <2>1, <2>4, <2>5, <3>2, <3>3, <3>4, Zenon
<1> QED
  BY <1>p, <1>1, <1>2, <1>3, <1>4, <1>5, <1>6, <1>7 DEF Next, Program, Others

-----------------------------------------------------------------------------
(* The reports.                                                            *)

\* The conjuncts of ReportInv while a report is being made ...
MidReport ==
    /\ result = NoResult /\ reports # 0
    /\ ~hindered => /\ log = before
                    /\ at = "reopen" => LogDir \in dirs \cup files
                    /\ at = "write" => LogPath \in files /\ ~orphan

\* ... and between reports.
Reported ==
    ~hindered => /\ result = 0 => LogPath \in files /\ log = before + 1
                 /\ result = 1 => Obstructed(LogPath) /\ log = before

LEMMA ReportParts ==
  /\ ReportInv /\ at \in Reporting => MidReport
  /\ ReportInv /\ at = "running" => Reported
  /\ (at \in Reporting => MidReport) /\ (at = "running" => Reported) /\ (at = "make_path" => result = NoResult)
       => ReportInv
  BY Zenon DEF ReportInv, MidReport, Reported, Reporting

LEMMA ReportNext == IInv /\ [Next]_vars => ReportInv'
<1> SUFFICES ASSUME IInv, [Next]_vars PROVE ReportInv'
  OBVIOUS
<1> USE DEF IInv
<1>0. DiskOK /\ DiskOK'
  BY DiskNext DEF TypeOK, DiskOK
<1>r. /\ at \in Reporting => MidReport
      /\ at = "running" => Reported
      /\ at = "make_path" => result = NoResult
  BY ReportParts, Zenon DEF ReportInv
<1> SUFFICES /\ at' \in Reporting => MidReport'
             /\ at' = "running" => Reported'
             /\ at' = "make_path" => result' = NoResult
  BY Zenon DEF ReportInv, MidReport, Reported, Reporting
<1>1. CASE PathTooLong \/ MakePrefix \/ MakePrefixFails
  <2>1. at = "make_path" /\ at' \in {"make_path", "failed"} /\ result' = result
    BY <1>1 DEF PathTooLong, Copied, MakePrefix, MakePrefixFails
  <2> QED
    BY <1>r, <2>1 DEF Reporting
<1>2. CASE OpenDump \/ OpenDumpFails
  <2>1. at = "make_path" /\ at' \in {"running", "failed"} /\ result' = result
    BY <1>2 DEF OpenDump, OpenDumpFails
  <2>2. result' = NoResult /\ result' # 0 /\ result' # 1
    BY <1>r, <2>1 DEF NoResult
  <2> QED
    BY <2>1, <2>2 DEF Reporting, Reported
<1>3. CASE BeginReport
  <2>1. at' = "open" /\ result' = NoResult /\ reports' = reports + 1 /\ log' = log /\ before' = log
    BY <1>3 DEF BeginReport, disk
  <2>2. reports' # 0
    BY <2>1 DEF Bounded
  <2> QED
    BY <2>1, <2>2, Zenon DEF MidReport
<1>4. CASE OpenLog
  <2>1. /\ at \in Reporting /\ at' = "write" /\ orphan' = FALSE
        /\ LogPath \in files' /\ UNCHANGED <<log, result, reports, hindered, before>>
    BY <1>4 DEF OpenLog, Fopen, Reporting
  <2> QED
    BY <1>r, <2>1, Zenon DEF MidReport
<1>5. CASE OpenLogFails
  <2>1. at \in Reporting /\ at' = "mkdir" /\ UNCHANGED <<log, result, reports, hindered, before>>
    BY <1>5 DEF OpenLogFails, disk, Reporting
  <2> QED
    BY <1>r, <2>1, Zenon DEF MidReport
<1>6. CASE MakeLogDir
  <2>1. at \in Reporting /\ at' = "reopen" /\ UNCHANGED <<log, result, reports, hindered, before>>
    BY <1>6 DEF MakeLogDir, Reporting
  <2>2. LogDir \in dirs' \cup files'
    BY <1>0, <1>6, LogFacts, MkdirKeeps DEF MakeLogDir
  <2> QED
    BY <1>r, <2>1, <2>2, Zenon DEF MidReport
<1>7. CASE MakeLogDirFails
  <2>1. at' = "running" /\ MkdirOk(LogDir)
    BY <1>7, LogFacts DEF MakeLogDirFails, MkdirOk, IsDir
  <2>2. hindered'
    BY <1>7, <2>1 DEF MakeLogDirFails, Hinder
  <2> QED
    BY <2>1, <2>2 DEF Reporting, Reported
<1>8. CASE ReopenLogFails
  <2>1. /\ at = "reopen" /\ at' = "running" /\ result' = 1 /\ result' # 0
        /\ UNCHANGED <<dirs, files, log, before>>
    BY <1>8 DEF ReopenLogFails, disk
  <2>2. ~hindered' => ~hindered /\ ~FopenOk(LogPath)
    BY <1>8 DEF ReopenLogFails, Hinder
  <2>3. ~hindered' => log = before /\ LogDir \in dirs \cup files
    BY <1>r, <2>1, <2>2, Zenon DEF MidReport, Reporting
  <2>4. ~hindered' => LogPath \in dirs \/ LogDir \in files
    BY <2>2, <2>3 DEF FopenOk, IsDir, LogDir
  <2>5. ~hindered' => Obstructed(LogPath)'
    BY <2>1, <2>4, LogFacts, LogAssumption DEF Obstructed
  <2> QED
    BY <2>1, <2>3, <2>5, Zenon DEF Reporting, Reported
<1>9. CASE WriteRecord
  <2>1. /\ at = "write" /\ at' = "running" /\ result' = 0 /\ result' # 1
        /\ UNCHANGED <<dirs, files, hindered, before>>
        /\ log' = IF orphan THEN log ELSE log + 1
    BY <1>9 DEF WriteRecord
  <2>2. ~hindered' => log = before /\ LogPath \in files /\ ~orphan
    BY <1>r, <2>1, Zenon DEF MidReport, Reporting
  <2>3. ~hindered' => LogPath \in files' /\ log' = before' + 1
    BY <2>1, <2>2
  <2> QED
    BY <2>1, <2>3, Zenon DEF Reporting, Reported
<1>10. CASE Others \/ OthersReport \/ UNCHANGED vars
  <2>1. UNCHANGED <<dumping, length, at, prefix, result, reports>>
    BY <1>10, OthersFrame DEF vars
  <2>2. ~hindered' => ~hindered
    BY <1>10 DEF Others, OthersReport, OthersMkdir, OthersCreate, OthersRemove, Hinder, vars
  <2>3. ~hindered' => dirs \subseteq dirs' /\ files \subseteq files' /\ orphan' = orphan
    <3>1. CASE UNCHANGED <<dirs, files, orphan>>
      BY <3>1
    <3>2. CASE Others
      <4>1. ASSUME NEW p \in Paths, OthersMkdir(p)
            PROVE  dirs \subseteq dirs' /\ files \subseteq files' /\ orphan' = orphan
        BY <4>1 DEF OthersMkdir, Mkdir
      <4>2. ASSUME NEW p \in Paths, OthersCreate(p)
            PROVE  dirs \subseteq dirs' /\ files \subseteq files' /\ orphan' = orphan
        BY <4>2 DEF OthersCreate, Fopen
      <4>3. ASSUME NEW p \in Paths, OthersRemove(p) PROVE hindered'
        BY <4>3 DEF OthersRemove
      <4> QED
        BY <3>2, <4>1, <4>2, <4>3 DEF Others
    <3> QED
      BY <1>10, <3>1, <3>2 DEF OthersReport, disk, vars
  <2>4. ~hindered' => \/ log' = log /\ before' = before
                      \/ log' = log + 1 /\ before' = before + 1
    <3>1. Others /\ ~hindered' => log' = log /\ before' = before
      BY DEF Others, OthersMkdir, OthersCreate, OthersRemove
    <3>2. OthersReport => log' = log + 1 /\ before' = before + 1
      BY DEF OthersReport
    <3>3. UNCHANGED vars => log' = log /\ before' = before
      BY DEF vars, disk
    <3> QED
      BY <1>10, <3>1, <3>2, <3>3
  <2>5. Obstructed(LogPath) /\ ~hindered' => Obstructed(LogPath)'
    BY <2>3, StaysObstructed
  <2>6. at' \in Reporting => MidReport'
    <3> SUFFICES ASSUME at' \in Reporting PROVE MidReport'
      OBVIOUS
    <3>1. MidReport
      BY <1>r, <2>1
    <3>2. ~hindered' => log' = before'
      BY <2>2, <2>4, <3>1 DEF MidReport
    <3>3. ~hindered' /\ at' = "reopen" => LogDir \in dirs' \cup files'
      BY <2>1, <2>2, <2>3, <3>1 DEF MidReport
    <3>4. ~hindered' /\ at' = "write" => LogPath \in files' /\ ~orphan'
      BY <2>1, <2>2, <2>3, <3>1 DEF MidReport
    <3> QED
      BY <2>1, <3>1, <3>2, <3>3, <3>4, Zenon DEF MidReport
  <2>7. at' = "running" => Reported'
    <3> SUFFICES ASSUME at' = "running", ~hindered' PROVE Reported'
      BY DEF Reported
    <3>1. Reported
      BY <1>r, <2>1
    <3>2. result' = 0 => LogPath \in files' /\ log' = before' + 1
      BY <2>1, <2>2, <2>3, <2>4, <3>1 DEF Reported, TypeOK
    <3>3. result' = 1 => Obstructed(LogPath)' /\ log' = before'
      BY <2>1, <2>2, <2>4, <2>5, <3>1 DEF Reported
    <3> QED
      BY <3>2, <3>3, Zenon DEF Reported
  <2> QED
    BY <1>r, <2>1, <2>6, <2>7
<1> QED
  BY <1>1, <1>2, <1>3, <1>4, <1>5, <1>6, <1>7, <1>8, <1>9, <1>10 DEF Next, Program, Others

-----------------------------------------------------------------------------
(* The properties.                                                         *)

LEMMA IInvAlways == Spec => []IInv
<1>1. IInv /\ [Next]_vars => IInv'
  BY TypeNext, DumpNext, ReportNext DEF IInv
<1> QED
  BY InitTypes, <1>1, PTL DEF Spec

\* The file system stays a tree and make_path within the directory's path.
THEOREM FilesTypeCorrect == Spec => []TypeOK
<1>1. IInv => TypeOK
  BY DEF IInv
<1> QED
  BY IInvAlways, <1>1, PTL

\* --dump, with any processes beside it: it gives up only if something failed,
\* was taken away or is in the way, or the path of the directory is too long for
\* make_path, and else there is the dump file.
THEOREM DumpGivesUpOnlyIfHindered == Spec => []DumpUnlessHindered
<1>1. DumpInv => DumpUnlessHindered
  BY Zenon DEF DumpInv, DumpUnlessHindered
<1>2. IInv => DumpInv
  BY DEF IInv
<1> QED
  BY <1>1, <1>2, IInvAlways, PTL

\* A report is in the log behind all that was there, or fails and is not.
THEOREM ReportFailsOnlyIfHindered == Spec => []ReportUnlessHindered
<1>1. IInv => ReportUnlessHindered
  <2> SUFFICES ASSUME IInv, at = "running", result # NoResult, ~hindered PROVE ReportUnlessHindered!2
    BY DEF ReportUnlessHindered
  <2>1. Reported /\ result \in {0, 1, NoResult} /\ before \in Nat /\ DiskOK
    BY ReportParts DEF IInv, TypeOK, DiskOK
  <2>2. result \in {0, 1}
    BY <2>1
  <2>3. CASE result = 0
    <3>1. LogPath \in files /\ log = before + 1
      BY <2>1, <2>3 DEF Reported
    <3>2. ~Obstructed(LogPath)
      BY <2>1, <3>1, LogNotObstructed
    <3> QED
      BY <2>1, <2>3, <3>1, <3>2
  <2>4. CASE result = 1
    BY <2>1, <2>4 DEF Reported
  <2> QED
    BY <2>2, <2>3, <2>4
<1> QED
  BY IInvAlways, <1>1, PTL
=============================================================================
