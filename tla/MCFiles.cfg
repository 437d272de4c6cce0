\* Every call may fail by itself, other processes act five times, three reports;
\* a directory's path that just fits the buffer of make_path, or just does not.
SPECIFICATION Spec
CONSTANTS
    Paths <- MCPaths
    DumpPath <- MCDumpPath
    LogPath <- MCLogPath
    DumpDirLengths = {1023, 1024}
    FileFaults = {"mkdir", "fopen"}
    MaxChanges = 5
    MaxReports = 3
INVARIANTS TypeOK DumpUnlessHindered ReportUnlessHindered
\* The last report, or a failed --dump.
CHECK_DEADLOCK FALSE
