------------------------------ MODULE Emulator ------------------------------
(***************************************************************************)
(* The process from main to its end: setup() with its signal handlers and  *)
(* the build of the modules in a child, the commands of --run or the       *)
(* prompt with its signals and the switch dialog, and the cleanup (main.c, *)
(* core/setup.c, cli/cli.c, cli/commands/exit.c, core/cleanup.c).  What a  *)
(* command does is Loader's; the process decides which one runs when.      *)
(*                                                                         *)
(* A signal is "shutdown" (SIGINT, SIGTERM) or "switch" (SIGQUIT), and its *)
(* handler runs between any two steps.  The code around readline is a step *)
(* of its own: readline clears rl_done when it starts, and only a signal   *)
(* it meets after that can end it.                                         *)
(***************************************************************************)
EXTENDS LoaderProps

CONSTANTS MaxSignals,     \* bound: the signals a process gets
          MaxRun,         \* bound: the commands of --run
          SetupFaults     \* the calls of setup() that may fail

SetupFaultNames == {"calloc", "fork", "execvp", "make", "strsplit"}

ASSUME SignalsAssumption == MaxSignals \in Nat
ASSUME RunAssumption     == MaxRun \in Nat

VARIABLES at,             \* the control point of the process
          left,           \* --run: the commands still to be run; -1: the prompt
          shutdown_requested, module_switch_requested,
          rl_done,
          asked, empty,   \* what input() asks for, and is the line empty
          child,          \* the build
          interrupted,    \* did a signal interrupt waitpid
          code,           \* the status of the process, -1 if a signal killed it
          signals,        \* the signals so far
          late            \* auxiliary: commands the prompt began after a shutdown
                          \* was requested

events  == <<shutdown_requested, module_switch_requested, rl_done>>
prompt  == <<asked, empty>>
build   == <<child, interrupted>>
process == <<at, left, events, prompt, build, code, signals, late>>
all     == <<vars, process>>

\* What main makes of argv where it goes on: --run and its commands, or neither.
ProcessInit ==
    /\ Init
    /\ at = "start"
    /\ left \in -1..MaxRun
    /\ shutdown_requested = FALSE /\ module_switch_requested = FALSE /\ rl_done = FALSE
    /\ asked = "command" /\ empty = TRUE
    /\ child = "none" /\ interrupted = FALSE
    /\ code = 0 /\ signals = 0 /\ late = 0

\* A step of the process alone, from one control point to another.
Go(from, to) ==
    /\ at = from /\ at' = to
    /\ UNCHANGED <<vars, left, signals>>

-----------------------------------------------------------------------------
(* setup().                                                                *)

SignalSetup == Go("start", "allocate") /\ UNCHANGED <<events, prompt, build, code, late>>

\* The context and then runtime_events.
Allocate == Go("allocate", "fork") /\ UNCHANGED <<events, prompt, build, code, late>>

\* NULL from setup(), 1 from main.
Fail(from) == Go(from, "ended") /\ code' = 1 /\ UNCHANGED <<events, prompt, build, late>>

AllocateFails == "calloc" \in SetupFaults /\ Fail("allocate")

Fork ==
    /\ Go("fork", "wait")
    /\ child' = "forked"
    /\ UNCHANGED <<events, prompt, interrupted, code, late>>

ForkFails == "fork" \in SetupFaults /\ Fail("fork")

\* The child: execvp, or exit(0) after it failed; then make.
ChildStep ==
    /\ \/ child = "forked" /\ child' = "building"
       \/ child = "forked" /\ "execvp" \in SetupFaults /\ child' = "no make"
       \/ child = "building" /\ child' = "built"
       \/ child = "building" /\ "make" \in SetupFaults /\ child' = "broken"
    /\ UNCHANGED <<vars, at, left, events, prompt, interrupted, code, signals, late>>

\* The child exited with 0.
WaitOk ==
    /\ child \in {"built", "no make"} /\ ~interrupted
    /\ Go("wait", IF left = -1 THEN "check" ELSE "parse")
    /\ UNCHANGED <<events, prompt, build, code, late>>

BuildFails == child = "broken" /\ ~interrupted /\ Fail("wait")

\* Mutant: a failed waitpid is taken for success.
WaitInterruptedGoesOn ==
    /\ interrupted
    /\ Go("wait", IF left = -1 THEN "check" ELSE "parse")
    /\ UNCHANGED <<events, prompt, build, code, late>>

\* EINTR: the child is neither waited for nor stopped.
WaitInterrupted == interrupted /\ Fail("wait")

-----------------------------------------------------------------------------
(* Signals.                                                                *)

\* Before signal_setup the default action ends the process; before the calloc
\* of runtime_events the handler itself does.
SignalKills ==
    /\ signals < MaxSignals /\ at \in {"start", "allocate"}
    /\ at' = "ended" /\ code' = -1
    /\ signals' = signals + 1
    /\ UNCHANGED <<vars, left, events, prompt, build, late>>

\* signal_handler.  There is no SA_RESTART: waitpid fails if it is blocked, and
\* it is unless the signal comes before the call.  A key of the terminal also
\* signals make, which dies of it.
SignalHandler(request) ==
    /\ signals < MaxSignals /\ at \notin {"start", "allocate", "ended"}
    /\ shutdown_requested' = (shutdown_requested \/ request = "shutdown")
    /\ module_switch_requested' = (module_switch_requested \/ request = "switch")
    /\ rl_done' = TRUE
    /\ IF at = "wait" /\ child \in {"forked", "building"}
       THEN interrupted' \in {interrupted, TRUE}
       ELSE UNCHANGED interrupted
    /\ IF child = "building" THEN child' \in {child, "broken"} ELSE UNCHANGED child
    /\ signals' = signals + 1
    /\ UNCHANGED <<vars, at, left, prompt, code, late>>

-----------------------------------------------------------------------------
(* Commands.                                                               *)

\* exit_command sets the flag; the other commands that are not Loader's leave
\* both the loader and the process as they are.
OtherCommand ==
    /\ shutdown_requested' \in {shutdown_requested, TRUE}
    /\ UNCHANGED <<vars, module_switch_requested, rl_done>>

LoaderCommand ==
    /\ \/ LoadAlreadyLoaded \/ LoadRefused
       \/ \E m \in Modules, ifc \in Interfaces \cup {None}, raw \in AttachArgs \cup {None} :
             LoadCommand(m, ifc, raw)
       \/ UnloadCommand
       \/ \E ifc \in Interfaces \cup {None} : SetDefaultInterface(ifc)
       \/ \E raw \in AttachArgs : SetDefaultAttachmentPoint(raw)
       \/ SetDefaultRestore
    /\ UNCHANGED events

handle_input == LoaderCommand \/ OtherCommand

\* The command runs on, and its end.
CommandStep == (LoadStep \/ UnloadStep) /\ UNCHANGED process

\* Mutant: the loop goes on without a look at shutdown_requested.
HandledNoCheck ==
    /\ pc = "ready"
    /\ Go("handling", IF left = -1 THEN "prompt" ELSE "run")
    /\ UNCHANGED <<events, prompt, build, code, late>>

Handled ==
    /\ pc = "ready"
    /\ Go("handling", IF left = -1 THEN "check" ELSE "run")
    /\ UNCHANGED <<events, prompt, build, code, late>>

-----------------------------------------------------------------------------
(* --run.                                                                  *)

ParseRun == Go("parse", "run") /\ UNCHANGED <<events, prompt, build, code, late>>

\* strsplit returns NULL: no text after --run, or no memory.
ParseRunFails ==
    /\ "strsplit" \in SetupFaults
    /\ Go("parse", "cleanup")
    /\ code' = 1
    /\ UNCHANGED <<events, prompt, build, late>>

\* The flags play no part.
RunCommand ==
    /\ at = "run" /\ left > 0
    /\ handle_input
    /\ at' = "handling" /\ left' = left - 1
    /\ UNCHANGED <<prompt, build, code, signals, late>>

\* Mutant: return instead of goto cleanup.
RunDoneReturns ==
    /\ left = 0
    /\ Go("run", "ended")
    /\ UNCHANGED <<events, prompt, build, code, late>>

RunDone ==
    /\ left = 0
    /\ Go("run", "cleanup")
    /\ UNCHANGED <<events, prompt, build, code, late>>
-----------------------------------------------------------------------------
(* The prompt.                                                             *)

\* The condition of the loop of cli().
Check ==
    /\ Go("check", IF shutdown_requested THEN "cleanup" ELSE "prompt")
    /\ asked' = "command" /\ empty' = TRUE
    /\ UNCHANGED <<events, build, code, late>>

BeginReadline ==
    /\ Go("prompt", "reading")
    /\ rl_done' = FALSE
    /\ UNCHANGED <<shutdown_requested, module_switch_requested, prompt, build, code, late>>

\* The user ends a line.
ReadLine ==
    /\ ~rl_done
    /\ Go("reading", "line")
    /\ empty' \in BOOLEAN
    /\ UNCHANGED <<events, asked, build, code, late>>

\* A signal ends it: at once, or with the next key, which it then may hold.
Woken ==
    /\ rl_done
    /\ Go("reading", "line")
    /\ empty' \in BOOLEAN
    /\ UNCHANGED <<events, asked, build, code, late>>

\* NULL from readline.  The dialog does not look at what input() returns.
EndOfInput ==
    /\ Go("reading", IF asked = "command" THEN "cleanup" ELSE "line")
    /\ shutdown_requested' = TRUE
    /\ empty' = TRUE
    /\ UNCHANGED <<module_switch_requested, rl_done, asked, build, code, late>>

\* Mutant: an empty line is asked for again at once.
EmptyLineAsksAgain ==
    /\ asked = "command" => ~module_switch_requested
    /\ empty
    /\ Go("line", "prompt")
    /\ asked' = "command"
    /\ UNCHANGED <<events, empty, build, code, late>>

EmptyLine ==
    /\ asked = "command" => ~module_switch_requested
    /\ empty
    /\ Go("line", "check")
    /\ UNCHANGED <<events, prompt, build, code, late>>

BeginCommand ==
    /\ at' = "handling"
    /\ late' = IF shutdown_requested THEN late + 1 ELSE late
    /\ UNCHANGED <<left, prompt, build, code, signals>>

HandleLine ==
    /\ at = "line" /\ asked = "command" /\ ~module_switch_requested /\ ~empty
    /\ handle_input
    /\ BeginCommand

\* Mutant: the request is not taken back.
SwitchRequestedStays ==
    /\ at = "line" /\ asked = "command" /\ module_switch_requested
    /\ SwitchModule
    /\ at' = "switching"
    /\ UNCHANGED <<left, events, prompt, build, code, signals, late>>

\* Whatever the line was, it is dropped.
SwitchRequested ==
    /\ at = "line" /\ asked = "command" /\ module_switch_requested
    /\ module_switch_requested' = FALSE
    /\ SwitchModule
    /\ at' = "switching"
    /\ UNCHANGED <<left, shutdown_requested, rl_done, prompt, build, code, signals, late>>

AskModule ==
    /\ pc = "ready"
    /\ Go("switching", "prompt")
    /\ asked' = "module"
    /\ UNCHANGED <<events, empty, build, code, late>>

AskInterface ==
    /\ asked = "module" /\ ~empty
    /\ Go("line", "prompt")
    /\ asked' = "interface"
    /\ UNCHANGED <<events, empty, build, code, late>>

DialogLoads ==
    /\ at = "line" /\ asked = "interface" /\ ~empty
    /\ \/ LoadAlreadyLoaded
       \/ \E m \in Modules, ifc \in Interfaces : LoadCommand(m, ifc, None)
    /\ UNCHANGED events
    /\ BeginCommand

-----------------------------------------------------------------------------
(* The end.                                                                *)

\* cleanup(), after the last report.
Cleanup ==
    /\ at = "cleanup"
    /\ ExitWithModule \/ ExitWithoutModule
    /\ at' = "cleaning"
    /\ UNCHANGED <<left, events, prompt, build, code, signals, late>>

\* Mutant: the count of the detach is returned.
EndReturnsCount ==
    /\ pc = "exited"
    /\ Go("cleaning", "ended")
    /\ code' = IF caller = "exit" THEN n ELSE code
    /\ UNCHANGED <<events, prompt, build, late>>

End ==
    /\ pc = "exited"
    /\ Go("cleaning", "ended")
    /\ code' = IF caller = "exit" /\ n < 0 THEN 1 ELSE code
    /\ UNCHANGED <<events, prompt, build, late>>

-----------------------------------------------------------------------------

Setup == \/ SignalSetup \/ Allocate \/ AllocateFails \/ Fork \/ ForkFails
         \/ WaitOk \/ BuildFails \/ WaitInterrupted

Program == \/ Setup
           \/ CommandStep \/ Handled
           \/ ParseRun \/ ParseRunFails \/ RunCommand \/ RunDone
           \/ Check \/ BeginReadline \/ EmptyLine \/ HandleLine
           \/ SwitchRequested \/ AskModule \/ AskInterface \/ DialogLoads
           \/ Cleanup \/ End

User == ReadLine \/ Woken \/ EndOfInput

Signal == SignalKills \/ \E request \in {"shutdown", "switch"} : SignalHandler(request)

ProcessNext == Program \/ ChildStep \/ User \/ Signal

ProcessSpec == ProcessInit /\ [][ProcessNext]_all

\* The program and the build are never blocked for good where they are not
\* waiting, and a prompt is answered in the end.  Nothing is assumed of signals.
FairProcess == ProcessSpec /\ WF_all(Program) /\ WF_all(ChildStep) /\ WF_all(User)

\* Nobody is there to answer, and readline returns at once when it is woken.
FairAlone == ProcessSpec /\ WF_all(Program) /\ WF_all(ChildStep) /\ WF_all(Woken)

-----------------------------------------------------------------------------
(* Properties.                                                             *)

Starting == {"start", "allocate", "fork", "wait"}

\* The control points, flags and counters of the process have their types.
ProcessTypeOK ==
    /\ at \in Starting \cup {"parse", "run", "handling", "check", "prompt", "reading",
                             "line", "switching", "cleanup", "cleaning", "ended"}
    /\ left \in -1..MaxRun
    /\ {shutdown_requested, module_switch_requested, rl_done, empty, interrupted} \subseteq BOOLEAN
    /\ asked \in {"command", "module", "interface"}
    /\ child \in {"none", "forked", "building", "built", "no make", "broken"}
    /\ code \in -1..1
    /\ signals \in 0..MaxSignals /\ late \in Nat

\* However a process ends, and a signal may come at any time, it ends with no
\* object and no program attached: every way out leads through cleanup() or is
\* taken before anything can be loaded.  (As for NoGhosts, the calls of detach do
\* not fail and nobody types set-default attachment-point.)
EndLeavesNothing ==
    at = "ended" => object = None /\ \A s \in Slots : hooks[s] = None

\* No command runs before the build has ended well, or could not begin, which
\* exit(0) hides from the parent; and a build outlives its process only if a
\* signal interrupted waitpid.
BuildAwaited ==
    /\ at \notin Starting \cup {"ended"} => child \in {"built", "no make"}
    /\ at = "ended" /\ child \in {"forked", "building"} => interrupted

\* A prompt that was already waiting lets one more command begin after a
\* shutdown was requested, the load of the switch dialog included, never two.
ShutdownStopsPrompt == late <= 1

\* A request to shut down ends the process, if the user answers the prompt that
\* a signal may not have woken: no dialog, command or switch goes on for ever.
ShutdownServed == shutdown_requested ~> at = "ended"

\* A requested switch is taken up, or the process ends: a request that comes
\* during a command, during a dialog or before readline is not lost.
SwitchServed == module_switch_requested ~> ~module_switch_requested \/ at = "ended"

-----------------------------------------------------------------------------
(* What is said of the program, and is not so.                             *)

\* usage.md:229-230: SIGINT and SIGTERM gracefully terminate the application.
ShutdownNeedsNobody == shutdown_requested ~> at = "ended"
=============================================================================
