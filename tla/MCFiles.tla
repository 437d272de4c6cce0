------------------------------- MODULE MCFiles -------------------------------
(***************************************************************************)
(* An instance of the files for TLC: a dump file two directories deep, one *)
(* of them that of the log.                                                *)
(***************************************************************************)
EXTENDS Files

MCDumpPath == <<"logs", "run", "dump">>
MCLogPath  == <<"logs", "log">>
MCPaths    == { <<"logs">>, <<"logs", "run">>, MCDumpPath, MCLogPath }
=============================================================================
