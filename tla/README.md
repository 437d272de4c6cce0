# Verification of the eBPF packet-loss emulator

The emulator is an interactive, single-threaded control program (`src/src/user-space`) that loads
one eBPF module at a time into the kernel, attaches it to the TC or XDP hooks of a network
interface, changes its loss percentage while packets flow and reports its statistics; and the two
eBPF modules themselves (`src/src/kernel-space`), which run on every CPU at once.  This directory
holds TLA+ models of the parts whose correctness is hard to test, the TLC instances that check
them, and TLAPS proofs of the properties that matter most.

Paths below are relative to `src/src/user-space` unless they start with `kernel-space`, `shared`
or `docs`.

Contents: 1 inventory · 2 modules and their correspondence to the code · 3 runs · 4 disagreements
found · 5 proofs · 6 assumptions and what is left out · 7 plan.

## 1. Inventory

| Component | State it keeps | Operations | Talks to |
|---|---|---|---|
| eBPF lifecycle: `core/bpf_manager.c`, `core/configuration.c` (`set_module`), `core/cleanup.c` | `ctx->bpf` (module name, object, two map descriptors, config keys), `ctx->interface.ifindex`; in the kernel the filters, XDP programs and clsact qdiscs | `load_bpf_module`, `attach_bpf_program`, `unload_bpf_module`, `detach_bpf_program`, `set_module`, `cleanup` | libbpf and the kernel; called by the commands, by the switch dialog and by `main` |
| Attachment points: `core/configuration.c` (`set_attachment_points`) | `tc_attach_points`, `xdp_attach_point` | parse an argument `a\|b\|c` | called by `load` *and* by `set-default` |
| Commands `load`, `unload`, `set-default` | the default interface and attachment points | option parsing, guards on the module name | the lifecycle |
| REPL, signals, switch dialog: `cli/cli.c`, `core/setup.c` (`signal_handler`), `cli/commands/exit.c` | `runtime_events` (two atomic flags), readline's `rl_done` | read a line, dispatch, switch, shut down | every command; the signal handler interrupts all of it |
| Start-up: `main.c`, `core/setup.c`, `utils/privilege_utils.c` | the context; a child process running `make` | parse `argv`, install handlers, allocate, fork, wait | the REPL or the `--run` loop, then `cleanup` |
| Packet handlers: `kernel-space/bpf/modules/*.c`, `helpers.bpf.h`, `include/globals.h` | `stats_map`, `config_map` (hash maps shared by all CPUs) | `packet_handler` | maps written by `config`, read by `stats` |
| Reporting: `core/reporting.c`, `stats` | a log file | `dump_stats`, append to the log, create its directory | `stats_map` |
| `config` command | `config_map` | parse `key=value`, check the key, write | `ctx->bpf.config_keys`, `config_map` |
| String utilities: `utils/string_utils.c` | heap arrays | `strsplit`, `strsplit_free`, `remove_char`, `count_char` | every parser |
| ELF reader: `utils/elf_utils.c` | a descriptor, an ELF handle | find a section, read it | the lifecycle, the config keys |
| Paths: `utils/io_utils.c` (`make_path`) | directories on disk | make every directory of a path | `main` for `--dump` |
| Output and time; `exec`, `list`, `clear`, `help`; `sqrt_u64`; build and docs | none that the program decides on | printing, shell commands, a pure function | - |

What is hard here, and what correctness means:

* **The lifecycle** spreads one fact ("a module is loaded") over the module name, the object
  pointer, two descriptors, `ifindex`, the attachment points and the kernel; six call sites change
  parts of it, every libbpf call may fail, and the kernel keeps what a killed process attached.
  Correct means: no leaked or dangling object, live descriptors exactly while a module is loaded,
  a program only on the interface and in the family of hooks that detach will look at, and no
  program left behind by an unload that reports success.
* **The attachment-point parser** reports errors by printing only; its callers go on with whatever
  it left in the context.
* **The packet handlers** read, add and write back shared counters without a lock while commands
  read and write the same maps.  Correct means: never more than what happened, exact on one CPU,
  extreme percentages certain.
* **The REPL** shares two flags with an asynchronous signal handler, cannot be woken at every point,
  and calls the lifecycle from a dialog that bypasses the unload command.  Correct means: a shutdown
  ends the process and stops the prompt, a switch request is not lost, and every way out detaches.
* **Start-up** installs the handler before the state the handler uses exists, and interprets the
  result of a child process.  Correct means: no command before a finished build.
* **`config`** compares keys copied from a file into a fixed array that is never cleared, and hands
  heap strings to a map with fixed-size keys.  Correct means: the keys are those of the loaded
  module, the array is not left, the arguments it takes are applied whatever is beside them.
* **`strsplit` and the ELF reader** have many ways to fail half-way.  Correct means: everything is
  released once on each, and nothing is read or written beyond its end.
* **The log and `--dump`** make directories that other processes make and remove as well.

`PROJECT.json` lists each hazard at its line, with the properties that guard it.

## 2. Modules

```
AttachPoints ──┬── SetAttachmentPoints ──┐
               │              StrSplit ──┴── AttachmentArgument ──┬── MCAttachmentArgument
               │                                                  └── AttachmentArgumentProofs
               └── Loader ── LoaderProps ──┬── MCLoader
                                │          ├── LoaderProofs ──┬── UnloadProofs
                                │          │                  └── PlacementProofs
                                │          └── Emulator ──┬── MCEmulator
                                │                         └── EmulatorProofs (with PlacementProofs)
                       HookOwnership (abstract, by INSTANCE)
DataPlane ──┬── MCDataPlane
            └── DataPlaneProofs
ElfReader ── ModuleConfig ──┬── MCModuleConfig
                            └── ModuleConfigProofs
Files ──┬── MCFiles
        └── FilesProofs
```

**`AttachPoints`** - the vocabulary (TC hooks, XDP modes) and the declarative meaning of an
attachment-point argument.  An argument is the sequence of its tokens; the two spellings of a token
are one, and every other token is `"invalid"`.  `TcOf` and `XdpOf` are the flag words the argument
leaves in the context, including those of an argument that is refused half-way.  `Points` is the
array `points[]` of attach and detach.

**`SetAttachmentPoints`** - the loop of `set_attachment_points`, one iteration a step
(`configuration.c:15-58`).

**`StrSplit`** - `strsplit` on a text of symbols: the two allocations, one step per part, the last
part, each failing `strdup`.  `heap` is the set of blocks that are allocated.  `Parts` is the
declarative meaning of the call.

**`AttachmentArgument`** composes the two: the text typed is cut to the 39 characters of `load`'s
buffer, split, freed of spaces and scanned.  A symbol is a piece of a name, so that a cut can fall
within one (`"FLAG"` followed by `"ingress"` is `BPF_TC_INGRESS`).  `ComputesPoints` says that the
whole computes `TcOf` and `XdpOf` of the tokens; this justifies the loader's use of them as one
assignment.

**`Loader`** - one variable per field of the context; `hooks` and `clsact` are the kernel; `pc`,
`n`, `i`, `caller` the control state of a command.  One action per libbpf call with an effect and
outcome (success, failure), because a process may be killed between any two of them:

| Code | Actions |
|---|---|
| `load_module_command` | `LoadAlreadyLoaded`, `LoadRefused`, `LoadCommand` |
| `load_bpf_module`, `set_module` | `OpenObject`/`OpenFails`, `LoadObject`/`LoadObjectFails`, `FinishLoad`; every later failure is `AbortLoad` |
| `attach_bpf_program` | `AttachBegin`/`AttachImpossible`, the loop `TcAttachOk`/`TcAttachFails`/`TcAttachDone`, `XdpAttachOk`/`XdpAttachFails` |
| `unload_module_command`, the switch dialog, `cleanup` | `UnloadCommand`, `SwitchModule`, `ExitWithModule`, `ExitWithoutModule` |
| `detach_bpf_program` | `DetachBegin`/`DetachImpossible`, the loop `TcDetachOk`/`TcDetachFails`/`TcDetachDone`, `TcDestroyOk`/`TcDestroyFails` once per direction, `XdpDetachOk`/`XdpDetachFails` |
| rest of `unload_bpf_module` and of its callers | `CloseModule` |
| `set_default_command` | `SetDefaultInterface`, `SetDefaultAttachmentPoint`, `SetDefaultRestore` |
| SIGKILL or a crash, and the next start | `Crash`, `Restart` |

`n` is the code's `n`: the loops use it both as their bound and as their result, so a failed
iteration shortens the loop.  `set-default attachment-point` with an argument writes the *active*
attachment points, as the code does.  `CommandNames` and `FaultNames` are the vocabulary of the
constants `UserCommands` and `Faults`, with which an instance says what its user types and which
calls may fail.

**`HookOwnership`** - what the loader promises the kernel, without how: the process owns at most one
object; it touches hooks only while it owns one, one slot at a time, on the interface it settled
on while its program ran nowhere; it only puts its own program there or empties the slot.  `Loader`
implements it under `owner <- object`, `home <- ifindex`.

**`LoaderProps`** - every property of the loader, in three groups: those of every instance, those
that need a well-behaved environment, and what documentation or comments say and the code does not
do.

**`Emulator`** - the process from `main` to its end, on top of `Loader`: one variable `at` is the
control point of `main`, `setup`, `cli` and the dialog, and a command that loads or unloads runs
`Loader`'s own actions while `at` waits in `"handling"` or `"switching"`.  A signal is a step that may come between any two
others:

| Code | Actions |
|---|---|
| `setup` | `SignalSetup`, `Allocate`, `Fork`, `WaitOk`, `WaitInterrupted`, `BuildFails`, and the failures; the child is `ChildStep` |
| `signal_handler` | `SignalHandler`; before `runtime_events` exists, `SignalKills` |
| `cli`, `input`, `handle_input` | `Check`, `BeginReadline`, `ReadLine`/`Woken`/`EndOfInput`, `HandleLine`, `EmptyLine`, `Handled` |
| the switch dialog | `SwitchRequested`, `AskModule`, `AskInterface`, `DialogLoads` |
| `--run` | `ParseRun`, `RunCommand`, `RunDone` |
| the end of `main` | `Cleanup`, `End` |

readline clears `rl_done` when it starts (`BeginReadline`); a signal before that is remembered in the
flags only, which is why `Check` and `BeginReadline` are two steps.  `late` is auxiliary.

**`ElfReader`** - the sections of one file looked for one after the other through one descriptor, each with a
handle of its own: `elf_has_section` twice for attach and detach, `read_elf_section` once for the
keys.

**`ModuleConfig`** - on top of it, the keys that `set_module` copies and the loop of
`config_module_command` over its arguments.  `LoadModule` and `UnloadModule` stand for the parts of
`Loader`'s actions that read the file; `LoadFails` may happen for any of the reasons `Loader` has.  A key
of the map is a key and a tail: the bytes after it up to the 64 of the map's key.  `Zeros` is the
tail of the handlers' keys; the command's tail is any, because it is what the heap holds.

**`DataPlane`** - `packet_handler` of both modules (they differ in the names of the verdicts), per
CPU: `Receive`, `Classify` (config look-up and draw), then `Get` and `Put` once for each of the
statistics dropped (if so), processed and time.  Between `Get` and `Put` other CPUs run.  The
user's side is `SetConfig` and `dump_stats` as three separate reads (`BeginReport`, `ReadStat`).
`packets`, `total` and `raced` are auxiliary: what the counters ought to say, and the statistics
that two CPUs have had in hand at once.

**`Files`** - `make_path` and the opening of the dump file, `dump_to_log_file` with its second
attempt, and the other processes of the same file system, which make, fill and remove directories
between any two calls.  `length` is the length of the directory's path as text, apart from its names:
`make_path` gives up before its first `mkdir` when the path has no room in its buffer (`PathTooLong`).

**`MC*`** modules give the constants values for TLC and hold nothing else.

A definition introduced by a comment that begins with `Mutant:` is a deliberate defect.  It is not
part of any specification; it stands before the definition it replaces when the strength of a
property is measured.

## 3. Runs

| Run | What it checks | Instance |
|---|---|---|
| `loader_faults` | `TypeOK`, `ObjectsOwned`, `MapFdsLive`, `LoadedHasName`, `PlacedOnInterface`, `ImplementsOwnership` | two interfaces (one with native XDP), three modules (TC, XDP, neither), every command, every fault and crash; 2.7 million states |
| `loader_flush` | `TcUnloadCleans`, `CommandsEnd` | one interface, every command, every fault except a failing `bpf_tc_hook_destroy`; fair |
| `process` | `ProcessTypeOK`, `NoGhosts`, `EndLeavesNothing`, `BuildAwaited`, `ShutdownStopsPrompt`, `LoadedIsAttached`, `ShutdownServed`, `SwitchServed` | two modules, three signals, prompt or `--run` with up to two commands, every call of `setup` may fail, a module may not open or load; fair; 390 000 states |
| `parse` | `TypeOK`, `ComputesPoints`, `RefusesTwoModes`, `SplitInBounds`, `SplitOwnsHeap`, `SplitsIntoParts`, `CutAddsNothing` | every text of up to six of six symbols, buffer for five, no limit and a limit of two; 950 000 states |
| `config` | `TypeOK`, `ElfReleased`, `SeesOnlyWhatIsThere`, `KeysOfModule`, `OverrunsOnlyIfTooLong`, `ConfigAppliesFirstKey` | four files, every line of up to two arguments out of five, every libelf call and the update may fail, four tails and room for three entries; 3.8 million states |
| `data_smp` | `TypeOK`, `NeverOvercounts`, `ReportsNoMoreThanHappened`, `LossExtremes`, `ExactUnlessRaced`, `MonotoneUnlessRaced` | three CPUs, three packets, percentages 0, 1, 100, 101; 2 million states |
| `files` | `TypeOK`, `DumpUnlessHindered`, `ReportUnlessHindered` | a dump file two directories deep, one of them the log's, a path of 1023 bytes or of 1024; five changes by others, three reports |
| the five runs of section 4 | one statement of the documentation or a comment each, which the code does not keep | the smallest faults that show it |

Deadlock is checked where the system cannot stop (the loader, whose process is always started again, and
the data plane): there it means that no command ever leaves the program without a next step.  A
process, a function and a series of reports end, and an overrun of `config_keys` ends its model.

**Bounds, and why they suffice.**  Two objects are enough for a program of a dead process and one
of the living process to coexist; identities that no hook runs are reused (`Fresh`), so histories
are unbounded.  Two interfaces are enough for a program to be left on one while the other is used.
The argument sets hold one TC point or both, native and generic modes, two modes at once, and
nothing valid; offload differs from them only in that no driver here supports it and it has no
rival mode.  Three modules are one per branch of `attach_bpf_program`.
`process` needs one object and one interface because nothing survives a command there (`NoGhosts`);
three signals are a shutdown, a switch and one more of either in between; two commands of `--run`
are a load and what follows it.  Its third module kind and the other faults are in the loader's runs.
Six symbols contain two XDP tokens with something before, between or after them, double, leading and
trailing delimiters, spaces within a name and a flag name cut in half.
In `config` a room of two keys makes a section of three one too long, and four tails overfill a map of
three; `Width` 3 makes -1 wrap and 9 saturate.
Three CPUs are one more than the two of a lost update, so that an overwrite of an overwrite occurs;
`MaxPackets` bounds only `packets`.  Draws 0 and 99 are the extremes of `% 100`, percentages 0, 1,
100 and 101 the boundaries of the comparison and of the cap.  Five changes by others are enough to
remove and obstruct each of two directories; of the lengths 1023 is the last with room for its NUL.  The theorems of section 5 hold without any of these
bounds.

**Fairness.**  `FairSpec` (`loader_flush`) adds weak fairness of the steps *inside* a load or an
unload: the thread runs on and libbpf calls return.  No fairness is assumed of the user, of crashes
or of restarts; a detach that is tried again for as long as it fails (mutant `TcDetachFailsRetries`)
violates `CommandsEnd` all the same.  `FairProcess` (`process`) adds it for the whole program and for the build, which `make`
ends, and says that a prompt is answered in the end: by a line, by end of input or, after a signal,
by readline itself.  Nothing is assumed of signals.  `FairAlone` (`shutdown_alone`) is the same
without anybody at the prompt; there only a woken readline returns.

**Symmetry** is over `Objects`, `CPUs` or the tails other than `Zeros`, which no definition orders, and
is not used where liveness is checked.

## 4. Disagreements between the code and what is said of it

| Run | What TLC shows |
|---|---|
| `switch_reload` | The switch dialog (`cli.c:26-52`) unloads without clearing the module name, then calls `load_module_command`, which refuses with "A module is already loaded" although none is.  The switch workflow of `usage.md` cannot succeed while a module is loaded. |
| `load_after_kill` | After a kill, a TC hook keeps its filter at handle 1, priority 1; the next TC load attaches nothing, `attach_bpf_program` returns 0, and 0 is not a failure: the load reports success. |
| `unload_elsewhere` | `set-default attachment-point driver` with an XDP module loaded changes what *detach* uses; `bpf_xdp_detach` empties another slot, reports success, and the program runs on. |
| `config_heap` | `bpf_map_update_elem` reads 64 bytes at a key that `strdup` has allocated for its own length; the tail comes from the heap (with glibc, a 22-character key is followed by the size of the next chunk, which is never 0).  The handlers look up the key padded with zeros and do not find the value; the command reports success. |
| `shutdown_alone` | A signal between `while (!shutdown_requested)` and readline's start is not noticed by readline: the process stays until somebody types. |

Each is a property of the module it is about, with the line it quotes in its comment;
`PROJECT.json` quotes the text.

The models follow the code where it differs from what is said of it in these points too, which have no
run of their own because the step that differs shows it by itself:

| Said | Done | In the model |
|---|---|---|
| `config.h:17-18`: "Updates one or more configuration parameters"; `config.h:34`: `config loss_rate=10 delay_ms=100`; `docs/source/development/developing_new_modules.md:61-65`: "Each entry represents a configuration parameter that becomes available through the framework's CLI", its value modified "at runtime using the `config` command" | `config.c:35` compares with the first declared key only; any other is refused as unknown, in a message that lists it among the valid ones (`config.c:36-40`) | `UnknownKey` |
| `reporting.c:30`: "0 on success, or -1 on failure"; `reporting.h:10`: "0 on success, -1 on failure" | `dump_to_log_file` and `dump_stats` return 1 when they fail (`reporting.c:38`, `:41`, `:106`, `:114`); no caller looks | `MakeLogDirFails`, `ReopenLogFails` |
| `bpf_manager.c:14`, `:22`: the number of successful attachments or detachments | the bound of the loop is its result: a failed first iteration skips the second and counts it as done; one failed detach with one failed flush returns 0 | `TcAttachFails`, `TcDetachFails` |
| `configuration.c:85-86`: without a `.config_keys` section there is no dynamic configuration | `config_keys` is never cleared: such a module is configured under the key of the module before it | `UnloadModule`, `LoadModule` |
| `usage.md:229-230`: SIGINT and SIGTERM gracefully terminate the application | between `signal_setup` and the allocation of `runtime_events` the handler dereferences NULL | `SignalKills` |
| `setup.c:66`: the modules are compiled at startup, to be ready | the child exits with 0 when there is no `make`; the parent goes on | `ChildStep`, `WaitOk` |

What the passing runs say of the same code is worded with these in mind.  `ConfigAppliesFirstKey` is
about the arguments for the first declared key, and says of those for all others only that they change
nothing.  `PlacedOnInterface` is about the interface and the family of hooks; which hooks of the family
detach looks at depends on the attachment points too (`unload_elsewhere`).  `BuildAwaited` allows that no
build was possible.  `KeysOfModule` is about modules whose section could be read, up to its sentinel.
`ReportUnlessHindered` distinguishes 0 from a failure, whatever number the failure is.

## 5. Proofs

All are checked by TLAPS and hold for every value of the constants allowed by the assumptions of
the modules.

**`LoaderProofs`.**  The inductive invariant is
`IInv == TypeOK /\ Safe /\ LoadPhase /\ UnloadPhase /\ LoopPhase`.
`TypeOK` and `Safe` (the four safety invariants of the run `loader_faults`) are not inductive by
themselves: that `PlacedOnInterface` survives `AttachBegin`, which sets `ifindex`, needs to
know that the object of a load still runs nowhere; that survives because `OpenObject` takes a
fresh object; and `FinishLoad` restores `MapFdsLive` only because no descriptor was live during the
load.  `LoadPhase` and `UnloadPhase` say what is known at each control point, and `LoopPhase` bounds
`i` and `n` in the loops, so that `points[i]` exists and `n` stays within -2..2.
`TypeCorrect`, `LoaderSafe` and one theorem for each of its parts, and `LoaderImplementsOwnership`
follow; the refinement shows that each action is one action of `HookOwnership` or a stutter.

**`UnloadProofs`.**  `UnloadCleansTc`: unless `bpf_tc_hook_destroy` fails, a TC unload that reports
success has emptied both hooks.  The argument adds `FlushInv` to `IInv`.  With a clsact qdisc both
flushes succeed, and they empty the hooks.  Without one every TC call fails; a failed iteration of
the loop keeps `n + i`, which starts as at most 2, so the loop ends with `n <= 1`, the two flushes
bring it below 0, and the unload does not report success.

**`PlacementProofs`.**  `NoGhostsRemain` and `LoadAttaches` need that nothing strands a program
(`NothingStrands`: no failing look at the ELF file or at the program, no failing
`bpf_tc_hook_destroy` or `bpf_xdp_detach`, no kill, no `set-default attachment-point`); any other
call may fail.  The invariant says that every program in a hook is the object's, that it can be found
again by what the context says *now*, and that the hooks are clean before the first attach and after
the last detach.  So a detach that gives up has nothing to detach: without a qdisc no TC hook is
filled, and two XDP modes were never attached.  For `LoadAttaches` the two TC calls of an attach
must work: then no iteration fails, because every hook still to come is empty.

**`EmulatorProofs`.**  `ProcessRunsLoader`: the process implements `Loader!Spec`, because each of its
steps is a step of the loader or leaves the loader's variables alone; so `ProcessSafe`, and whatever
else is proved of the loader, holds with signals, dialog, `--run` and `cleanup` as the code calls
them.  `ShutdownStops` bounds the commands begun after a request: the invariant says that `late` is
0 wherever the prompt may still read a line, and that a command begun late is followed by `Check`,
which sees the flag because nothing resets it.  `BuildIsAwaited` follows the child and the
interruption through `setup`, and `EndIsClean` adds to `NothingStrands` that a process ends before its
first command or after `cleanup`.  `ProcessTypeCorrect` follows from the same steps.

**`AttachmentArgumentProofs`.**  The invariant of the loop relates the words accumulated so far to the
tokens before `i`, and `xdp_flags` to how many of them are XDP tokens: `LoopComputesPoints` and
`LoopRefusesTwoModes` hold for arguments of any length.  For `strsplit`, `index < MaxParts` holds
while the loop can go on and `heap` is exactly the array, the copy and the parts before `index`:
`StaysInBounds` and `OwnsHeap`, for any text and limit.

`SplitsAtDelims` says that the loop, which advances `start` over a text, computes `Parts`, which
speaks of positions and their ordinals.  Its invariant (`LoopAt`) is that `start` is the end of the
text or the start of a part, that `index` is the number of starts before it and at most the number of
delimiters before it, and that `result[Ordinal(j)]` is the part from `j` to its delimiter, for each
such start.  The count of delimiters is what makes a limit of 0 lose nothing: when `index` reaches
`MaxParts - 1`, as many delimiters are behind `start` as the text has, so the rest is the last part
(`DelimsRunOut`).

`CutIsHarmless`: the starts of a cut text are those of the whole before the cut, with the same
ordinals (`StartsOfBeginning`); each part is the same or, the last one, a beginning of it
(`PartOfBeginning`); taking the spaces out of a beginning gives a beginning (`KeptGrows`,
`KeptOfBeginning`), and the beginning of a hook's name is no other name (`BeginningOfName`).  So the
tokens of the cut argument are those of the typed one, the last perhaps invalid, and `Scanned` of them
holds no hook that was not there (`CutTokensAddNothing`).  `FlagsAreOfText` joins the two halves: the
flag words are a function of the text.

These are facts about texts of any length, proved without the induction theorems of the library,
whose operator parameter the provers cannot instantiate: `LeastNumber`, that a nonempty set of
naturals has a least element, follows from their well-foundedness, and is applied to the set of the
counterexamples.  In the same way `KeptExists` shows that the recursive function in `RemoveSpaces`
exists.

**`DataPlaneProofs`.**  A value in flight is at most the total plus its own increment, because totals
only grow (`NoOvercount`, `ReportsBounded`).  For a statistic that was never raced the invariant is
equality, and at most one CPU has it in hand (`UnracedIsExact`, `UnracedIsMonotone`; `AloneIsExact`
for one CPU).  `ExtremesAreSure` uses that draws are within 0..99.

**`ModuleConfigProofs`.**  Three invariants, each on top of the former: where the reader holds its
descriptor and its handle (`ReaderReleases`); that the scan stays within the file and finds only what
is there (`ReaderSeesWhatIsThere`); that attach and detach look for no keys, so the section read for
the keys is what the copy works on.  During the copy every entry before `i` was a key and is in its
place; hence the sentinel, once copied, is behind exactly the module's keys (`KeysAreOfModule`), and an
overrun has passed `MAX_CONFIG_ENTRIES` entries that are no sentinel (`CopyStaysInArray`).
`ConfigApplies` has an invariant over the arguments done: of those for the first declared key that the
kernel took, the last is in the map under some tail, and every entry is as before or of one of them.  `ConfigTypeCorrect` needs that `i` stays
within the array during the copy and, for the room of the map, that an update adds at most one key and
none when `Held` has reached it (`MapUpdate`).  It uses `WidthAssumption`, a fact of `^` that the
provers do not know, and `LinesAssumption`, which types the arguments.

**`FilesProofs`.**  `FilesTypeCorrect`: each step of anybody keeps the directories a tree.
`DumpGivesUpOnlyIfHindered` adds what `make_path` knows: every prefix it has passed is a directory, or a
file of which `mkdir` said `EEXIST`; in the second case the `fopen` behind it fails because the path
is obstructed.  Others only add directories and files while nothing is `hindered`, so no knowledge is
lost between two calls.  A path that is too long for the buffer never gets beyond the first prefix, so
`"running"` is reached with one that fits.  `ReportFailsOnlyIfHindered` knows that the log is as it was `before` until
`"write"`, where the file opened is still the one in the directory (`~orphan`).  Both are for paths of any depth and length;
`PathsAssumption` says that `Paths` holds every beginning of its members.

Every invariant and every safety action property of a passing run is a theorem.  Only model-checked:
liveness (`CommandsEnd`, `ShutdownServed`, `SwitchServed`), which is out of the prover's reach, and the
refutations of section 4.

## 6. Assumptions, and what is left out

* **Kernel and libbpf** are modelled from how the code uses them: `bpf_tc_attach` with a fixed handle
  and without the replace flag fails on an occupied hook; `bpf_tc_hook_destroy` of one direction
  flushes that direction and keeps the qdisc; TC calls on an interface without clsact fail with an
  error other than `-ENOENT`; `bpf_xdp_attach` replaces a program of the same mode, and refuses
  unsupported modes, two mode flags, and native together with generic; `bpf_xdp_detach` of an empty
  slot succeeds; hooks keep programs alive after their process; a hash map refuses a new key beyond
  its `max_entries`.
* **A program in a hook is one of this emulator's.**  Filters and XDP programs of other tools are not
  modelled; they would be indistinguishable from those of a killed process.
* **Interfaces** neither disappear nor change index, so a name and its index are one value.  Compiled
  modules do not change on disk while the program runs, except that any look at the ELF file may
  fail.
* **readline** sets `rl_done` to 0 when it starts and returns when a signal handler has set it since.
  A key of the terminal signals the whole group: `SignalHandler` may break the build as well.
* **Signals** are counted by `MaxSignals`; one that interrupts anything but `waitpid` (an `fopen`, a libbpf call)
  is one of the failures of that call.  SIGKILL is `Crash`, in `Loader` only.
* **Strings** are model values but for the text of an attachment-point argument.  A module name typed
  with its `.bpf.o` suffix, which loads and then fails at the ELF look-up, behaves like the fault
  `"elf"`.  Of a dump path the length of its directory counts, at the buffer of `make_path`; `main`'s own
  buffer is of `PATH_MAX` bytes, and a path it cuts is one `make_path` refuses or `fopen` fails on.  The
  length and the cuts of other arguments are not distinguished.
* **Maps.**  In `DataPlane` a look-up and the load through the pointer it returns are one step, as are updates: the
  kernel's recycling of a preallocated hash-map element between the two is not modelled, and the
  bounds proved of the statistics are relative to that.  Counters do not wrap (2^64 packets).  The
  maps are those of one load; each load creates new ones.  `config` there is the entry the handlers
  look up; which writes reach it is `ModuleConfig`'s subject.
* **After an overrun** of `config_keys` or a signal before `runtime_events` the model stops: nothing
  is said of what undefined behaviour does beyond ending.
* **Not modelled**, because they keep no state: `exec`, `list`, `clear`, `help`, `print`, the time, the
  checks of `main` before `setup`; because nothing calls them: `lower`, `wait_for_char`, `sqrt_u64`; and
  `vmlinux.h`, build files and documentation.
* **Not composed**: `DataPlane` and `Files` with the process.  A report reads descriptors that
  `MapFdsLive` says are live, and no other step depends on what it wrote.

## 7. Plan

1. *(done)* the loader and its abstract owner; the attachment-point argument with `strsplit`; the data
   plane; the process; the configuration with the ELF reader; the files; the proofs of section 5.
2. *(done)* the invariants of `Files`, the room of the configuration map, and what `strsplit`,
   `remove_char` and the cut of `load`'s buffer compute.
3. Proofs: what `LoaderProofs` and `PlacementProofs` say of one life of the process, across a kill and a
   restart: which programs a later life can find and remove.
