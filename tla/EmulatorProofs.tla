--------------------------- MODULE EmulatorProofs ---------------------------
(***************************************************************************)
(* Proofs about the process, for any modules, interfaces, signals,         *)
(* commands and faults.  The process takes the loader only through steps   *)
(* of the loader, so what LoaderProofs says of the loader holds in the     *)
(* process; the order of its own steps is the subject of the rest.         *)
(***************************************************************************)
EXTENDS Emulator, PlacementProofs

-----------------------------------------------------------------------------
(* The process runs the loader.                                            *)

LEMMA LoaderFrame ==
    \/ Setup \/ Handled \/ ParseRun \/ ParseRunFails \/ RunDone \/ Check \/ BeginReadline
    \/ EmptyLine \/ AskModule \/ AskInterface \/ End \/ ChildStep \/ User \/ Signal
    => UNCHANGED vars
  BY DEF Setup, SignalSetup, Allocate, AllocateFails, Fork, ForkFails, WaitOk, BuildFails,
         WaitInterrupted, Fail, Handled, ParseRun, ParseRunFails, RunDone, Check,
         BeginReadline, EmptyLine, AskModule, AskInterface, End, ChildStep, User, ReadLine,
         Woken, EndOfInput, Signal, SignalKills, SignalHandler, Go

LEMMA handle_inputRefines == handle_input => [Next]_vars
  BY DEF handle_input, LoaderCommand, OtherCommand, Next, Command

LEMMA ProcessStepRefines == [ProcessNext]_all => [Next]_vars
<1> SUFFICES ASSUME [ProcessNext]_all PROVE [Next]_vars
  OBVIOUS
<1>1. CASE CommandStep
  BY <1>1 DEF CommandStep, Next
<1>2. CASE RunCommand \/ HandleLine
  BY <1>2, handle_inputRefines DEF RunCommand, HandleLine
<1>3. CASE SwitchRequested
  BY <1>3 DEF SwitchRequested, Next, Command
<1>4. CASE DialogLoads
  BY <1>4 DEF DialogLoads, Next, Command
<1>5. CASE Cleanup
  BY <1>5 DEF Cleanup, Next, Command
<1>6. CASE UNCHANGED all
  BY <1>6 DEF all
<1> QED
  BY <1>1, <1>2, <1>3, <1>4, <1>5, <1>6, LoaderFrame DEF ProcessNext, Program

\* Whatever signals come, whatever is typed and however the process ends, the
\* loader goes through a behaviour of its own specification.
THEOREM ProcessRunsLoader == ProcessSpec => Spec
<1>1. ProcessInit => Init
  BY DEF ProcessInit
<1> QED
  BY <1>1, ProcessStepRefines, PTL DEF ProcessSpec, Spec

\* In the process, too, no object is leaked or used closed, and a program is
\* only where detach looks for it.
THEOREM ProcessSafe == ProcessSpec => []Safe
<1>1. (ObjectsOwned /\ MapFdsLive /\ LoadedHasName /\ PlacedOnInterface) => Safe
  BY DEF Safe
<1> QED
  BY <1>1, ProcessRunsLoader, LoaderSafe, PTL

-----------------------------------------------------------------------------
(* A shutdown and the prompt.                                              *)

\* Once a command has begun after the request, the process has only that command,
\* the check of the flag and the cleanup before it.
Leaving == {"handling", "run", "check", "cleanup", "cleaning", "ended"}

ShutdownInv ==
    /\ late \in {0, 1}
    /\ late = 1 => shutdown_requested = TRUE /\ at \in Leaving

LEMMA ShutdownInitially == ProcessInit => ShutdownInv
  BY DEF ProcessInit, ShutdownInv

\* Where the process is when a command of the prompt begins.
LEMMA ShutdownAtPrompt == ShutdownInv /\ at = "line" => late = 0
  BY DEF ShutdownInv, Leaving

LEMMA ShutdownStep == ShutdownInv /\ [ProcessNext]_all => ShutdownInv'
<1> SUFFICES ASSUME ShutdownInv, [ProcessNext]_all PROVE ShutdownInv'
  OBVIOUS
<1> USE DEF ShutdownInv, Leaving
<1>1. CASE Setup
  BY <1>1 DEF Setup, SignalSetup, Allocate, AllocateFails, Fork, ForkFails, WaitOk,
              BuildFails, WaitInterrupted, Fail, Go, events
<1>2. CASE CommandStep
  BY <1>2 DEF CommandStep, process, events
<1>3. CASE Handled
  BY <1>3 DEF Handled, Go, events
<1>4. CASE ParseRun \/ ParseRunFails \/ RunDone
  BY <1>4 DEF ParseRun, ParseRunFails, RunDone, Go, events
<1>5. CASE RunCommand
  <2>1. shutdown_requested = TRUE => shutdown_requested' = TRUE
    BY <1>5 DEF RunCommand, handle_input, LoaderCommand, OtherCommand, events
  <2>2. at' = "handling" /\ late' = late
    BY <1>5 DEF RunCommand
  <2> QED
    BY <2>1, <2>2
<1>6. CASE Check
  BY <1>6 DEF Check, Go, events
<1>7. CASE BeginReadline \/ EmptyLine \/ AskModule \/ AskInterface
  BY <1>7 DEF BeginReadline, EmptyLine, AskModule, AskInterface, Go, events
<1>8. CASE HandleLine \/ DialogLoads
  <2>1. late = 0
    BY <1>8, ShutdownAtPrompt DEF HandleLine, DialogLoads
  <2>2. shutdown_requested = TRUE => shutdown_requested' = TRUE
    BY <1>8 DEF HandleLine, DialogLoads, handle_input, LoaderCommand, OtherCommand, events
  <2>3. at' = "handling" /\ late' = IF shutdown_requested THEN late + 1 ELSE late
    BY <1>8 DEF HandleLine, DialogLoads, BeginCommand
  <2>4. shutdown_requested => shutdown_requested' = TRUE
    BY <1>8 DEF HandleLine, DialogLoads, handle_input, LoaderCommand, OtherCommand, events
  <2>5. late' = 1 => shutdown_requested
    BY <2>1, <2>3
  <2>6. late' \in {0, 1}
    BY <2>1, <2>3
  <2> QED
    BY <2>3, <2>4, <2>5, <2>6
<1>9. CASE SwitchRequested
  BY <1>9 DEF SwitchRequested
<1>10. CASE Cleanup
  BY <1>10 DEF Cleanup, events
<1>11. CASE End
  BY <1>11 DEF End, Go, events
<1>12. CASE ChildStep
  BY <1>12 DEF ChildStep, events
<1>13. CASE User
  BY <1>13 DEF User, ReadLine, Woken, EndOfInput, Go, events
<1>14. CASE Signal
  BY <1>14 DEF Signal, SignalKills, SignalHandler, events
<1>15. CASE UNCHANGED all
  BY <1>15 DEF all, process, events
<1> QED
  BY <1>1, <1>2, <1>3, <1>4, <1>5, <1>6, <1>7, <1>8, <1>9, <1>10, <1>11, <1>12, <1>13,
     <1>14, <1>15 DEF ProcessNext, Program

\* At most one command begins at the prompt after a shutdown was requested, for
\* any signals at any time.
THEOREM ShutdownStops == ProcessSpec => []ShutdownStopsPrompt
<1>1. ShutdownInv => ShutdownStopsPrompt
  BY DEF ShutdownInv, ShutdownStopsPrompt
<1> QED
  BY <1>1, ShutdownInitially, ShutdownStep, PTL DEF ProcessSpec

-----------------------------------------------------------------------------
(* The build.                                                              *)

\* Before the fork there is no child.
BuildInv ==
    /\ BuildAwaited
    /\ at \in {"start", "allocate", "fork"} => child = "none"

LEMMA BuildInitially == ProcessInit => BuildInv
  BY DEF ProcessInit, BuildInv, BuildAwaited, Starting

LEMMA BuildStep == BuildInv /\ [ProcessNext]_all => BuildInv'
<1> SUFFICES ASSUME BuildInv, [ProcessNext]_all PROVE BuildInv'
  OBVIOUS
<1> USE DEF BuildInv, BuildAwaited, Starting
<1>1. CASE SignalSetup \/ Allocate \/ AllocateFails \/ Fork \/ ForkFails
  BY <1>1 DEF SignalSetup, Allocate, AllocateFails, Fork, ForkFails, Fail, Go, build
<1>2. CASE WaitOk \/ BuildFails \/ WaitInterrupted
  BY <1>2 DEF WaitOk, BuildFails, WaitInterrupted, Fail, Go, build
<1>3. CASE CommandStep
  BY <1>3 DEF CommandStep, process, build
<1>4. CASE Handled \/ ParseRun \/ ParseRunFails \/ RunDone \/ Check
  BY <1>4 DEF Handled, ParseRun, ParseRunFails, RunDone, Check, Go, build
<1>5. CASE RunCommand \/ HandleLine \/ DialogLoads
  <2>1. at \in {"run", "line"} /\ at' = "handling" /\ UNCHANGED build
    BY <1>5 DEF RunCommand, HandleLine, DialogLoads, BeginCommand
  <2> QED
    BY <2>1 DEF build
<1>6. CASE BeginReadline \/ EmptyLine \/ AskModule \/ AskInterface \/ End
  BY <1>6 DEF BeginReadline, EmptyLine, AskModule, AskInterface, End, Go, build
<1>7. CASE SwitchRequested
  BY <1>7 DEF SwitchRequested, build
<1>8. CASE Cleanup
  BY <1>8 DEF Cleanup, build
<1>9. CASE ChildStep
  BY <1>9 DEF ChildStep
<1>10. CASE User
  BY <1>10 DEF User, ReadLine, Woken, EndOfInput, Go, build
<1>11. CASE Signal
  BY <1>11 DEF Signal, SignalKills, SignalHandler, build
<1>12. CASE UNCHANGED all
  BY <1>12 DEF all, process, build
<1> QED
  BY <1>1, <1>2, <1>3, <1>4, <1>5, <1>6, <1>7, <1>8, <1>9, <1>10, <1>11, <1>12
     DEF ProcessNext, Program, Setup

\* No command runs before the build has ended, and no build is left behind unless
\* a signal interrupted waitpid.
THEOREM BuildIsAwaited == ProcessSpec => []BuildAwaited
<1>1. BuildInv => BuildAwaited
  BY DEF BuildInv
<1> QED
  BY <1>1, BuildInitially, BuildStep, PTL DEF ProcessSpec
-----------------------------------------------------------------------------
(* What the process leaves behind.                                         *)

\* A process ends before its first command, or after cleanup.
EndInv ==
    /\ at \in Starting => pc = "ready"
    /\ at \in Starting \cup {"ended"} => object = None /\ pc \in {"ready", "exited"}

LEMMA EndInitially == ProcessInit => EndInv
  BY DEF ProcessInit, Init, FreshContext, EndInv

\* No load or unload goes on at a prompt or after an exit.
LEMMA CommandsBegun == LoadStep \/ UnloadStep => pc \notin {"ready", "exited"}
  BY DEF LoadStep, UnloadStep, OpenObject, OpenFails, LoadObject, LoadObjectFails, AttachBegin,
         AttachImpossible, TcAttachOk, TcAttachFails, TcAttachDone, XdpAttachOk, XdpAttachFails,
         FinishLoad, DetachBegin, DetachImpossible, TcDetachOk, TcDetachFails, TcDetachDone,
         TcDestroyOk, TcDestroyFails, XdpDetachOk, XdpDetachFails, CloseModule

LEMMA EndStep == IInv /\ EndInv /\ [ProcessNext]_all => EndInv'
<1> SUFFICES ASSUME IInv, EndInv, [ProcessNext]_all PROVE EndInv'
  OBVIOUS
<1> USE DEF EndInv, Starting
<1>1. CASE Setup
  BY <1>1 DEF Setup, SignalSetup, Allocate, AllocateFails, Fork, ForkFails, WaitOk,
              BuildFails, WaitInterrupted, Fail, Go, vars, bpf
<1>2. CASE CommandStep
  BY <1>2, CommandsBegun DEF CommandStep, process
<1>3. CASE RunCommand \/ HandleLine \/ DialogLoads \/ SwitchRequested \/ Cleanup
  BY <1>3 DEF RunCommand, HandleLine, DialogLoads, BeginCommand, SwitchRequested, Cleanup
<1>4. CASE Handled \/ ParseRun \/ ParseRunFails \/ RunDone \/ Check
  BY <1>4 DEF Handled, ParseRun, ParseRunFails, RunDone, Check, Go
<1>5. CASE BeginReadline \/ EmptyLine \/ AskModule \/ AskInterface
  BY <1>5 DEF BeginReadline, EmptyLine, AskModule, AskInterface, Go
<1>6. CASE User
  BY <1>6 DEF User, ReadLine, Woken, EndOfInput, Go
<1>7. CASE End
  BY <1>7 DEF End, Go, vars, bpf, IInv, Phases, UnloadPhase
<1>8. CASE ChildStep \/ Signal
  BY <1>8 DEF ChildStep, Signal, SignalKills, SignalHandler, vars, bpf
<1>9. CASE UNCHANGED all
  BY <1>9 DEF all, process, vars, bpf
<1> QED
  BY <1>1, <1>2, <1>3, <1>4, <1>5, <1>6, <1>7, <1>8, <1>9 DEF ProcessNext, Program

\* A process that has ended, in whatever way but SIGKILL, has closed its object
\* and left no program in any hook, if nothing strands one.
THEOREM EndIsClean == ASSUME NothingStrands PROVE ProcessSpec => []EndLeavesNothing
<1>1. GhostInv /\ EndInv => EndLeavesNothing
  BY DEF GhostInv, OwnOnly, EndInv, EndLeavesNothing
<1>2. IInv /\ EndInv /\ [ProcessNext]_all => EndInv'
  BY EndStep
<1> QED
  BY <1>1, <1>2, EndInitially, ProcessRunsLoader, GhostAlways, IInvAlways, PTL DEF ProcessSpec

-----------------------------------------------------------------------------
(* Types.                                                                  *)

\* The steps that leave the counters alone, the status included.
LEMMA CountersFrame ==
    \/ SignalSetup \/ Allocate \/ Fork \/ WaitOk \/ CommandStep \/ Handled
    \/ ParseRun \/ RunDone \/ Check \/ BeginReadline \/ EmptyLine \/ AskModule \/ AskInterface
    \/ SwitchRequested \/ Cleanup \/ ChildStep \/ User \/ UNCHANGED all
    => UNCHANGED <<left, code, signals, late>>
  BY DEF SignalSetup, Allocate, Fork, WaitOk, CommandStep, Handled, ParseRun, RunDone, Check,
         BeginReadline, EmptyLine, AskModule, AskInterface, SwitchRequested, Cleanup, ChildStep,
         User, ReadLine, Woken, EndOfInput, Go, process, all

\* Every other step moves one of them, or two.
LEMMA CountersStep ==
  ASSUME [ProcessNext]_all
  PROVE  /\ left' = left \/ (left > 0 /\ left' = left - 1)
         /\ signals' = signals \/ (signals < MaxSignals /\ signals' = signals + 1)
         /\ late' = late \/ late' = late + 1
         /\ code' = code \/ code' = 1 \/ code' = -1
<1>1. CASE UNCHANGED <<left, code, signals, late>>
  BY <1>1, Zenon
<1>2. CASE AllocateFails \/ ForkFails \/ BuildFails \/ WaitInterrupted \/ ParseRunFails \/ End
  <2>1. UNCHANGED <<left, signals, late>> /\ (code' = code \/ code' = 1)
    BY <1>2 DEF AllocateFails, ForkFails, BuildFails, WaitInterrupted, Fail, ParseRunFails, End, Go
  <2> QED
    BY <2>1, Zenon
<1>3. CASE RunCommand
  <2>1. UNCHANGED <<code, signals, late>> /\ left > 0 /\ left' = left - 1
    BY <1>3 DEF RunCommand
  <2> QED
    BY <2>1, Zenon
<1>4. CASE HandleLine \/ DialogLoads
  <2>1. UNCHANGED <<left, code, signals>> /\ (late' = late \/ late' = late + 1)
    BY <1>4 DEF HandleLine, DialogLoads, BeginCommand
  <2> QED
    BY <2>1, Zenon
<1>5. CASE Signal
  <2>1. /\ UNCHANGED <<left, late>> /\ (code' = code \/ code' = -1)
        /\ signals < MaxSignals /\ signals' = signals + 1
    BY <1>5 DEF Signal, SignalKills, SignalHandler
  <2> QED
    BY <2>1, Zenon
<1> QED
  BY <1>1, <1>2, <1>3, <1>4, <1>5, CountersFrame, Zenon DEF ProcessNext, Program, Setup

LEMMA CountersTyped ==
  ASSUME left \in -1..MaxRun, code \in -1..1, signals \in 0..MaxSignals, late \in Nat,
         [ProcessNext]_all
  PROVE  left' \in -1..MaxRun /\ code' \in -1..1 /\ signals' \in 0..MaxSignals /\ late' \in Nat
  BY CountersStep, RunAssumption, SignalsAssumption

ControlPoints == Starting \cup {"parse", "run", "handling", "check", "prompt", "reading",
                                "line", "switching", "cleanup", "cleaning", "ended"}

\* Every step goes to a control point, or stays.
LEMMA AtStep ==
  ASSUME [ProcessNext]_all
  PROVE  at' = at \/ at' \in ControlPoints
<1> USE DEF ControlPoints, Starting
<1>1. CASE Setup
  BY <1>1 DEF Setup, SignalSetup, Allocate, AllocateFails, Fork, ForkFails, WaitOk,
              BuildFails, WaitInterrupted, Fail, Go
<1>2. CASE CommandStep \/ ChildStep \/ UNCHANGED all
  BY <1>2 DEF CommandStep, ChildStep, process, all
<1>3. CASE Handled \/ ParseRun \/ ParseRunFails \/ RunDone \/ Check \/ BeginReadline
  BY <1>3 DEF Handled, ParseRun, ParseRunFails, RunDone, Check, BeginReadline, Go
<1>4. CASE EmptyLine \/ AskModule \/ AskInterface \/ End \/ User
  BY <1>4 DEF EmptyLine, AskModule, AskInterface, End, User, ReadLine, Woken, EndOfInput, Go
<1>5. CASE RunCommand \/ HandleLine \/ DialogLoads \/ SwitchRequested \/ Cleanup \/ Signal
  BY <1>5 DEF RunCommand, HandleLine, DialogLoads, BeginCommand, SwitchRequested, Cleanup, Signal,
              SignalKills, SignalHandler
<1> QED
  BY <1>1, <1>2, <1>3, <1>4, <1>5 DEF ProcessNext, Program

FlagsTyped ==
    /\ {shutdown_requested, module_switch_requested, rl_done, empty, interrupted} \subseteq BOOLEAN
    /\ asked \in {"command", "module", "interface"}
    /\ child \in {"none", "forked", "building", "built", "no make", "broken"}

LEMMA FlagsStep == FlagsTyped /\ [ProcessNext]_all => FlagsTyped'
<1> SUFFICES ASSUME FlagsTyped, [ProcessNext]_all PROVE FlagsTyped'
  OBVIOUS
<1> USE DEF FlagsTyped
<1>1. CASE Setup
  BY <1>1 DEF Setup, SignalSetup, Allocate, AllocateFails, Fork, ForkFails, WaitOk,
              BuildFails, WaitInterrupted, Fail, Go, events, prompt, build
<1>2. CASE CommandStep \/ UNCHANGED all
  BY <1>2 DEF CommandStep, process, all, events, prompt, build
<1>3. CASE ChildStep
  BY <1>3 DEF ChildStep, events, prompt
<1>4. CASE Handled \/ ParseRun \/ ParseRunFails \/ RunDone \/ Check \/ BeginReadline
  BY <1>4 DEF Handled, ParseRun, ParseRunFails, RunDone, Check, BeginReadline, Go, events, prompt, build
<1>5. CASE EmptyLine \/ AskModule \/ AskInterface \/ End
  BY <1>5 DEF EmptyLine, AskModule, AskInterface, End, Go, events, prompt, build
<1>6. CASE RunCommand \/ HandleLine \/ DialogLoads
  <2>1. UNCHANGED <<prompt, build, module_switch_requested, rl_done>>
    BY <1>6 DEF RunCommand, HandleLine, DialogLoads, BeginCommand, handle_input, LoaderCommand,
                OtherCommand, events
  <2>2. shutdown_requested' \in {shutdown_requested, TRUE}
    BY <1>6 DEF RunCommand, HandleLine, DialogLoads, handle_input, LoaderCommand, OtherCommand, events
  <2> QED
    BY <2>1, <2>2 DEF prompt, build
<1>7. CASE SwitchRequested \/ Cleanup
  BY <1>7 DEF SwitchRequested, Cleanup, events, prompt, build
<1>8. CASE User
  BY <1>8 DEF User, ReadLine, Woken, EndOfInput, Go, events, build
<1>9. CASE Signal
  BY <1>9 DEF Signal, SignalKills, SignalHandler, events, prompt, build
<1> QED
  BY <1>1, <1>2, <1>3, <1>4, <1>5, <1>6, <1>7, <1>8, <1>9 DEF ProcessNext, Program

LEMMA ProcessTypeInitially == ProcessInit => ProcessTypeOK
<1> SUFFICES ASSUME ProcessInit PROVE ProcessTypeOK
  OBVIOUS
<1>1. left \in -1..MaxRun /\ code \in -1..1 /\ signals \in 0..MaxSignals /\ late \in Nat
  BY SignalsAssumption DEF ProcessInit
<1>2. FlagsTyped /\ at \in ControlPoints
  BY DEF ProcessInit, FlagsTyped, ControlPoints, Starting
<1> QED
  BY <1>1, <1>2, Zenon DEF ProcessTypeOK, FlagsTyped, ControlPoints

LEMMA ProcessTypeStep == ProcessTypeOK /\ [ProcessNext]_all => ProcessTypeOK'
<1> SUFFICES ASSUME ProcessTypeOK, [ProcessNext]_all PROVE ProcessTypeOK'
  OBVIOUS
<1>1. left' \in -1..MaxRun /\ code' \in -1..1 /\ signals' \in 0..MaxSignals /\ late' \in Nat
  BY CountersTyped, Zenon DEF ProcessTypeOK
<1>2. at' \in ControlPoints
  BY AtStep, Zenon DEF ProcessTypeOK, ControlPoints
<1>3. FlagsTyped'
  BY FlagsStep, Zenon DEF ProcessTypeOK, FlagsTyped
<1> QED
  BY <1>1, <1>2, <1>3, Zenon DEF ProcessTypeOK, FlagsTyped, ControlPoints

\* The process is at one of its control points with flags that are flags, a build
\* in one of its states and counters within their bounds.
THEOREM ProcessTypeCorrect == ProcessSpec => []ProcessTypeOK
  BY ProcessTypeInitially, ProcessTypeStep, PTL DEF ProcessSpec
=============================================================================
