# Verification of the ZX81 Debugger

The ZX81 Debugger is a debug adapter for Visual Studio Code and the machinery
behind it: *remotes* that drive an emulator (over a socket, or the built-in
simulator), a history for reverse debugging, a unit test runner, a disassembler,
readers of list files, views of the memory. This directory holds TLA+ modules
of it, configurations that TLC model-checks, and proofs that TLAPS checks.
Paths below are relative to the repository's `src/`.

Contents: 1 the system, 2 the modules, 3 the runs, 4 the proofs, 5 what is not
modelled and the plan, 6 disagreements met on the way, 7 running.

## 1. The system and its parts

Everything runs in one Node.js event loop. There are no threads: code runs to
completion between two `await`s (or event callbacks), and *every* `await` is a
point where any other handler may run. So the atomic step of all modules is a
stretch of code between two awaits, and the interleavings are those of requests
of vscode, timers, socket events, file watchers and messages of web views.

| Part (source) | State | Operations | What is hard | What makes it correct |
|---|---|---|---|---|
| **Debug adapter, stepping** (`debugadapter.ts` 1320-1930) | `processingSteppingRequest`, `pauseRequested`, the response timer, `stackTraceResponses` | continue, next, step in/out/back, reverse continue, pause, stackTrace | keys pressed faster than steps end; a response timer beside the end of the step | one response per request, one command at a time, vscode learns of every stop |
| **Debug adapter, life cycle** (`debugadapter.ts` 150-420, `remotes/remotefactory.ts`) | the global `Remote`, `running`, the state NORMAL/UNITTEST | launch, terminate, disconnect, restart, error, start of unit tests | `disconnectAll` awaits the remote while other ends and starts go on | a session is ended once and completely, and only its own remote is removed |
| **Debug adapter, other requests** (`debugadapter.ts`) | frames, scopes, static flags of what was changed | set breakpoints, set variable, set PC, evaluate, reload labels | caches and flags used after an await | what is shown is the machine's state |
| **DZRP command queue** (`remotes/dzrp/dzrpqueuedremote.ts`, `remotes/dzrpbuffer/dzrpbufferremote.ts`) | `messageQueue`, `sequenceNumber`, the response timer, a promise per command | send, response, timeout, failed write | a late answer meets another command; the 8 bit number wraps | an answer settles its own command; none is forgotten |
| **DZRP receiver** (`dzrpbufferremote.ts` 144-209) | `receivedData`, `expectedLength`, the chunk timer | a chunk arrives, a handler throws | chunks end anywhere | messages are delivered whole and in order |
| **DZRP run control** (`remotes/dzrp/dzrpremote.ts`) | `funcContinueResolve`, `continueResolve`, `pauseStep`, `breakpoints`, `tmpBreakpoints` | continue, steps, pause, edits of breakpoints, break notification | edits and pauses while a break is evaluated | a reported stop is a stop, no break is lost |
| **Generic remote** (`remotes/remotebase.ts`, `remotes/z80registers.ts`) | breakpoint, assertion, logpoint and WPMEM lists | setBreakpoints, enable, reload, calcStepBp, call stack | awaits between the comparison of two lists and the edits; failing commands | the lists agree with the emulator; a step's breakpoints are where the program goes |
| **ZEsarUX socket** (`remotes/zesarux/zesaruxsocket.ts`) | `queue`, `interruptableRunCmd`, its critical phase, timeouts | send, run, interrupt, receive, quit | answers carry no number; a run may end by itself while it is interrupted | a handler gets its own answer; the run goes on |
| **ZEsarUX remote** (`remotes/zesarux/zesaruxremote.ts`) | 99 breakpoint numbers, one more for steps | breakpoints, assertions, steps, state | a number is free only after the answer | no number is lost or given twice |
| **Mutex** (`misc/mutex.ts`) | `locks`, `timeoutHandle` | lock, unlock, timeout | a late unlock | exclusion, no lost waiter |
| **MAME remote** (`remotes/mame/mamegdbremote.ts`) | gdb packets over the command queue | receive, continue, step, pause | packets split or glued together, `+` counts as an answer | a stop is told, and is one; what is glued is late, not lost |
| **Transports** (`cspectremote.ts`, `dzrptransporttest.ts`) | the socket | connect, write, close | - | - |
| **Simulator** (`remotes/zsimulator/zsimremote.ts`, `simulatedmemory.ts`, `z80ports.ts`, `customcode.ts`) | `stopCpu`, t-states, slots, banks, watchpoint counters | run, break, stop from outside, watchpoints, save, restore | a stop between two bursts; overlapping watchpoints; a restore that fails half way | no watched access unnoticed; a stop ends the loop |
| **Reverse debugging** (`remotes/stephistory.ts`, `cpuhistory.ts`, `zsimulator/zsimcpuhistory.ts`) | a ring of executed instructions, the place in it, a virtual call stack | step back, reverse continue, forward commands in the past | the stack must be guessed from neighbouring lines; the ring wraps | lines in order; the stack shown is the stack the program had |
| **Memory models** (`remotes/MemoryModel/*`) | slots, banks | conversion of addresses | names of banks, boundaries | a printed long address is read back |
| **Unit tests** (`z80unittests/*`, `misc/filewatcher.ts`) | static flags, a timer per test, the tree of tests | run, debug, stop, timeout; launch.json and list files change | a timeout between two parts; files change while they are read | a verdict belongs to its test; the tree is what the files say |
| **Disassembler** (`disassembler/*`) | a graph of nodes, the PCs seen so far | flow collection, blocks, labels, refresh | a refresh while the memory is read; cyclic, overlapping and self-modifying code, banks | each byte in a block, each target with a label |
| **Labels** (`labels/*`) | tables of addresses and lines | parse five kinds of list files, look up | includes, macros, excluded files | address to line and back is what was assembled |
| **Views, memory commands** (`views/*`, `misc/memorydump.ts`, `metablock.ts`) | blocks of memory, a page that shows them | update, edit, search, store, compare | updates overlap each other and the user | cells show the memory, marks are what was searched |
| **Variables** (`variables/*`, `misc/utility.ts`) | - | divide structs, show and set values | offsets, signs, byte order | a value written is read again |
| **Settings, extension, log** | configuration | activate | - | - |

How they interact: vscode calls the adapter's handlers; these await methods of
the one global `Remote`; a DZRP remote turns them into commands of the queue,
whose bytes go to a socket or, for the simulator, to local calls; answers and
break notifications come back through the receiver; the adapter reports a
`StoppedEvent`, upon which vscode asks for the call stack, the disassembly is
brought up to date and the views read their blocks. The unit test runner starts
sessions of its own and shares the global `Remote`. `PROJECT.json` lists
every part with its status and every hazard at its line.

vscode, the emulators at the other end of a socket, the Z80 itself, the files on disk and the
developer at the keyboard are external. They are modelled only as far as the
code uses them, and marked as external in the map.

## 2. The modules

Conventions: a definition has the name of the method it models where it models
one. Definitions marked `mutant:` are deliberately wrong variants of the
definition below them; for every property of every passing run there is one in
`PROJECT.json` with which TLC finds the property violated, so each property depends on the
code. A property of an MC module that is a conjunction keeps further mutants beside the
definitions, one for most conjuncts. Payloads, texts and formats are abstracted;
"(history)" variables record what happened and are never read by a guard.

Components that share no state are explored side by side in one run: a
variable `part` (or `kind`) is chosen in the initial state and only that component takes steps. The
state space is the sum of theirs, not the product, and each behaviour is a behaviour of one
component. The MC module joins their properties under a name that says what they promise together.

### MCDzrp: a DZRP remote (DzrpService, DzrpQueue, DzrpRun)

`DzrpQueue` is the command queue. A command is the number of its call.
`SendDzrpCmd` gives it a sequence number and queues it; only the head is
written (`SendNextMessage`); a response (`DataReceived`, then `ReceivedMsg`), the
timeout (`CmdRespTimeout`) or a failed write (`WriteFailed`) removes or rejects
the head. The code settles a promise only after the *next* message was written:
`writes` carries these continuations. `DzrpService` is what callers rely on: calls
are executed at most once and in order, and answered at most once, with their
own answer. `DzrpQueue` refines it under the identity mapping of `submitted`,
`executed` and `outcome` (`ServiceSpec`).

* `OwnResponse`: a promise is resolved with the response to its own command, or to
  one at least a whole round of sequence numbers older. The exception is real:
  the number is one byte and old answers are not discarded.
* `NoForgottenPromise`, `ExecutedInOrder`, and the liveness `EveryCommandSettles`: a
  call is settled, or a response with a wrong number has met the head of the
  queue for good.
* `AlwaysSettles` (violated, `DzrpQueue_lost.cfg`).

`DzrpRun` is one continue or step: `StartProcessing`, `Run` (the handler is set
before the command is sent), the break notification, its handler with three awaits
(registers, the step's own breakpoint, the call stack), the evaluation of conditions and
`pauseStep`, and edits of breakpoints at any of these points. A condition that cannot be evaluated (`ConditionFails`)
is reported by continue and step-out; step-over and step-into do not catch it, the run is over for the remote and nobody
resolves its promise (section 6). It assumes that commands are answered
in order, which is what `ExecutedInOrder` says of the queue.

* `ReportedStopIsReal`, `BreakIsAwaited`, `RemoteInSync`, and `PauseStopsRun` (liveness; not for a run whose
  condition failed that way).
* `RemovedIsInMap` (violated, `DzrpRun_orphan.cfg`).

### MCSockets: connections (Mutex, ZesaruxQuit, ZesaruxSocket, DzrpReceiver, MameGdb)

`Mutex`: `lock`, `unlock`, `proceed` and the timeout. `late` and `stolen` are history: `unlock`
takes any caller as long as *some* timer runs, so a task whose lock timed out
ends the lock of its successor. `MutualExclusion` is claimed until that happens.

`ZesaruxQuit` extends it by the calls of `quit`: each looks at the state of the socket,
waits for `quitMutex` and replaces the socket's listeners by its own. `QuitIsTidy`: a call that is
settled leaves no open connection, and the mutex is as it should be. Before any call the listeners are the connection's own: when
ZEsarUX is silent they set the state to UNCONNECTED and leave the socket open (`Silent`), and a call that then returns at once
is excepted.

`ZesaruxSocket` is the queue of a connected socket: a command that comes while the emulator runs
puts a blank line in front of the queue to interrupt the run, and `run` is written again when
the queue is empty. The variable `crossing`, chosen in `Init`, says whether events that end a run may
cross on the wire. `OwnAnswer` joins four invariants; three of them are claimed for `~crossing`,
`InterruptHasRun` always. `RunGoesOn` is the liveness: an interrupted run is resumed, every command is
answered. `CalledInOrder` (violated, `ZesaruxSocket_swallowed.cfg`).

`DzrpReceiver` is `dataReceived` with bytes as pairs `<<message, index>>`: the remote sends one message after the other,
the socket delivers chunks of any size, with the chain of reads, the chunk timer, and a handler that throws in the middle
of it (`ReceivedWhole`, `IncompleteIsTimed`).

`MameGdb`: packets of two halves, acknowledgements, a continue whose `+` counts as its answer, the
notification of a stop, CTRL-C, and the temporary breakpoints that the continue sets before and its
handler removes afterwards (`StoppedClean`, `StopIsTold`). A chunk may end anywhere and hold several packets; one call of
`dataReceived` takes one of them, so that a packet waits in `receivedData` until more arrives. If nothing
does (`Asleep`) a stop may not be told for now: `StopIsTold` excepts exactly that (section 6), `StoppedClean` nothing.

### MCSession: the adapter (DebugStepping, DebugLifecycle, UnitTests, TestTree, DebugVariables)

`DebugStepping`: `handleRequest` with its response timer; step over repeats until the source line
ends; pause; delayed `stackTrace` answers; the end of the session. The remote is
a call that returns or fails in its own time. So may the call stack be: `StackTraceFails` sets
`callStackLost`, after which stack requests are not answered any more (section 6), which `VscodeIsTold` excepts. `VscodeIsTold` assumes `LinesEnd` in one of its parts: a
step over repeats while the line stays the same, and the program decides how often.

`DebugLifecycle`: start and end of sessions by vscode, by an error of the remote and by the unit
test runner (`terminateRemote` polls for five seconds, `GiveUp` is its end). The
variable `calm`, chosen in `Init`, describes the environment: if it is TRUE, nothing
ends a session that is being ended already and nobody stops or restarts one
while unit tests are being started. `SessionsAreSeparate` is claimed for
calm environments, because in the others the code really breaks it (section 6); `SessionsEnd` for all.

`UnitTests`: a click on run or debug starts a handler that takes the tests one by one; the setup
code and the test code of each are two runs of the machine, with awaits for their preparation; a timer per
test pauses the machine; all handlers share the runner's static fields and the global `Remote`; assertions may
fail while a test is debugged; a click while tests run stops them. `VerdictsAreRight` relates what was reported
to what the code really did (`reached`) and to the timer that really fired (`late`).
`TestsTimeOut` (violated, `UnitTests_loop.cfg`).

`TestTree`: the tree of the tests. Watchers tell of a changed launch.json or list file some time after the
change, suites that were replaced are still told, a suite waits until its list file is quiet, folders come and
go, launch.json may be missing or unreadable. `Listings` is what list files may name. `TreeIsCurrent`: when everybody has
been told and no timer runs, the tree shows each configuration once and each label of its list file, as long as no
watcher is left behind by a folder that was removed (`NoneLeftBehind`). Without that condition it is `ChangesAreHandled`,
which is violated (section 6).

`DebugVariables`: `setVariable`, `setExpression` and the command that moves the PC, as writing, reading back and
telling vscode and the views, with the static flags that say what is to be told. Requests come while others are under way,
and the remote may fail at each await. `ChangesAreTold`: at rest the registers of the adapter are the emulator's, and what was
changed has been told. The second half is not so when requests have overlapped (`overlapped`), nothing of it when a call failed
after a value was changed (`rejected`); both are history variables and section 6 says what the code does.

### MCBreakpoints: lists of breakpoints (Breakpoints, ZesaruxRemote)

`Breakpoints`: `setBreakpoints` finds the address of each line and the file of that address (`AddressOf`, `FileAt`: lines may share an
address, and the address of a line may belong to another file), computes by addresses what to remove and to add, and then
awaits each command, next to other edits and with commands that fail or find no room. Watchpoints, assertions and groups of log
points are switched on and off object by object and replaced by a reload; here, too, a command may fail, carried out or not
(`Fail`), or be answered with the id 0 by a remote that is full (`noRoom`). The user's breakpoints and those of the comments share only
the room of the remote and its failures: they are explored apart and, with one request of each, together (`part`).

* `RemoteHasTheLists`: a listed breakpoint is set (`ListedIsSet`); at rest the remote has the objects of the enabled kinds but for
  those without room (`SwitchesMatch`). An error leaves a loop halfway; `broken` are the kinds it has hit until they are switched off as a whole,
  `forgotten` those whose list was replaced in between. Of these kinds nothing is promised, of all others everything.
* `FileAsGiven` (an action property: what is in the list when an edit is answered): the addresses given, no others, and one
  twice only if it was given as two lines. `RequestsEnd`.

`ZesaruxRemote` has a fixed number of breakpoint numbers and one for steps: edits, switches, runs,
steps over and out of calls with conditions on PC and SP, pauses and restored states, as text commands executed one
after the other. `NumbersMatch`: listed breakpoints are set under their number, numbers are neither lost
nor given twice, and steps come back where they should. The first two are promised for switches of the assertions one after
the other: two at once both await the removal of one assertion, its number is free twice and then given twice. With three
requests (the bound of the run) nobody takes it twice; with four TLC shows it, so the condition is stated.

### MCZSim: the simulator (ZSim)

The CPU loop executes a burst of instructions and gives way; between two bursts it is paused,
disconnected, given watchpoints, slots, memory or a saved state. An instruction reads, writes, switches a bank
through a port or is interrupted. `WatchesWork`: no access to a watched address goes unnoticed, and the
counters of each address are those of the watchpoints (overlapping, wrapping at the top).
`StateIsRestored`: a restore gives what was saved, or changes nothing. `StopEnds`.

### CpuHistory: reverse debugging

The program is made up as it runs: each address gets an
instruction (PUSH, POP, CALL and RET taken or not, RST, LD SP, a repeated instruction,
something else) when it is first executed, and an interrupt may follow any
instruction. `words` is the true stack. `frames` is the list of frames that
`Remote` caches and that reverse debugging then changes in place
(`prepareReverseDbgStack` takes the cached object itself). Forward loops (`continue`, `stepOver`,
`stepOut`) have no await and are modelled one iteration per step; `reverseContinue` has.

* `HistoryInOrder`: k steps back the k-th youngest line is shown, exactly as far as
  the ring reaches; back at the present the emulator's state is shown.
* `StackIsShown`: whatever the program does (POP of a return address, RET to data, LD SP), the call
  stack shown has as many entries as there are words on the stack, and for programs that use the stack as a
  stack, calls are shown as calls of the right routine and data as data, backwards and forwards. Claimed for
  `quiet`: no interrupt directly after a RET (`InterruptRemoved` says what the code then means to do).

Left out: INC/DEC SP and odd stack pointers, LD SP,(nn), an empty stack, and
executing one address twice in a row other than by a repeating instruction
(`CALL $`, or setting the PC back by one step): such a line is not stored
(`src/remotes/zsimulator/zsimremote.ts` l. 445) and the stack cannot be right. Data never looks
like a return address. `presentRegistersCache` is overwritten by
`getRegistersFromEmulator` as soon as it is used and is not a variable.

### MCCode: how programs are read

`SmartDisassembler` is the flow graph as operators: nodes for every target, filling with instructions and
edges, subroutines, blocks, names. A memory maps an address to the instruction decoded there, so overlapping
code is part of it. `Disassembly` keeps it over several stops of a program that changes itself, switches a
bank and is refreshed: which memory it compares, what it adds to the PCs and call stacks it has seen,
and when it makes a new graph. `setNewAddresses` is one action per stretch between its awaits (`setNewAddresses` to the first,
`ByteRead`, `fetch64kMemory`, `TraceRead`; `AddAddresses` and `Disassemble` are what they share), so refreshes, reloads and
another run come in between, and each await may fail. `CodeIsShown`: nodes tile the code (the assertions in
`assignLocalLabels` need it), labels identify, a PC that was shown stays in the disassembly. The last is claimed where the slots of
the disassembly are the machine's and no failure is left to be made good (`SeenPcStays`).

`MCAlgorithms` chooses a question and its input in the initial state and compares with a reference:

| Module | What it models | Reference |
|---|---|---|
| `Opcodes` | the tables of all prefixes, as the constructor reads the mnemonics | the bit fields of Z80 codes |
| `StepBreakpoints` | `calcStepBp`, skipped RST bytes; the division of the stack into frames | where the Z80 goes after an instruction; the stack is tiled |
| `MemoryModel` | slots and banks of a configuration, names, long addresses | printed and parsed gives the same |
| `Z80Registers` | setting registers in MAME and the simulator, three decoders | only the own bytes change; decoders agree |
| `ListFiles`, `Labels` | five parsers of listings, tables of addresses and lines, distances | the listing written from a tree of sources |
| `MemoryDump` | blocks of a view, widened and merged; search; comparison | each cell asked for, once |
| `Variables` | structs by their labels, dumps, numbers and bytes, system variables | rows tile the struct; what is written is read |

`CodeIsUnderstood` joins opcodes, steps and stacks, `FormatsAreRead` the others.

### MCMemoryView: memory views (MemoryView on MemoryDump)

`update` reads the blocks one after the other and posts what changed; the page answers the user's
edits, searches, filter and Store with messages; the diff view keeps a base and compares by a criterion.
Updates are started by every stop and every edit and are not kept apart. `MemoryIsShown`: when nothing is under way
the cells show the memory and the marks are the search. `DiffIsExact`: the diff view lists the cells
that differ from the last stored result. Both except updates that met another update or an edit
(`raced`, section 6).

## 3. The runs

All bounds are CONSTANTs and named in the modules.

| Run (configuration) | Bounds | Why they are enough |
|---|---|---|
| `dzrp` (`Dzrp.cfg`) | 5 commands, sequence numbers 1..2, lossy remote, failing writes; 2 addresses, 1 unanswered pause, endless steps | the number wraps twice, so a late answer may meet its own number again, and the queue holds a head, a next and a waiting command; one breakpoint that is hit and one that is edited meanwhile |
| `sockets` (`Sockets.cfg`) | 4 tasks; 4 commands, 2 runs, 1 pause; messages of 5, 7 and 6 bytes, chunks to 14; 3 continues, 2 pauses | an owner, a late one, two who wait; a run interrupted by commands and a pause, and a second run; chunks with part of a header, with a message and more; a continue after a pause after a continue, with any packets glued |
| `session` (`Session.cfg`) | 3 stepping and 2 stack requests; 5 sessions; 2 clicks on 2 tests; 1 folder, 2 configurations, 4 changes of files; 2 changes of values | one executing, one ignored, one after both; a session, its restart, tests that replace it, another after; a test before and one after the one that times out; a file that changes while its last change is not told; two changes that overlap |
| `breakpoints` (`Breakpoints.cfg`) | 3 edits of 4 lines, 2 of them with one address and 1 with another file's, 2 at once (`AtOnce`); 3 kinds with 2 comments each, 3 switches or reloads, 2 if they overlap; one edit beside one of these; room for 2, 1 failure; 2 numbers, 3 requests, calls 2 deep | two edits that overlap and a third that finds what they left; room runs out, for the user and for comments; a loop that breaks off between two objects, and what comes after; a number is given again while its disabling is under way |
| `zsim` (`ZSim.cfg`) | 3 addresses, 3 banks, 3 T-states, 4 calls | ROM, RAM and a slot with two banks; watchpoints that overlap and wrap |
| `history` (`CpuHistory.cfg`) | 4 instructions, 4 words, a ring of 2 | the ring wraps at every place; call, push, pop and return all fit, and an interrupt between any two |
| `code` (`Code.cfg`) | 6 addresses, 2 banks, for all programs 1 stop, for two of them 2 and 3 stops or refreshes; every opcode; sources of up to 3 files and 3 lines; structs of up to 3 members | overlapping, cyclic and paged code; a refresh during a disassembly and a stop after it; all of an opcode's structure; an include before, behind and within code |
| `memory_view` (`MemoryView.cfg`) | 2 blocks of 3 cells, 1 stop, 3 inputs | an edit, a search and a stop that meet in every order |
| `queue_lost` (`DzrpQueue_lost.cfg`), violated | 3 commands, no wrap | one lost, one rejected, one stuck |
| `run_orphan` (`DzrpRun_orphan.cfg`), violated | 1 address | one breakpoint suffices |
| `zesarux_swallowed` (`ZesaruxSocket_swallowed.cfg`), violated | 2 commands, 1 run | the waiting command and one after it |
| `tests_loop` (`UnitTests_loop.cfg`), violated | 1 test | a timer that elapses during the preparation |

Deadlock is checked in `dzrp`, where a run may never be stuck (the queue's part may stutter when all
calls are made). The other configurations say `CHECK_DEADLOCK FALSE`: a bounded number of
calls, sessions, changes or instructions comes to its end.

**Fairness.** Every fairness condition stands for the event loop or for the other end of a
connection that is up: timers elapse, a write calls back, received data is delivered, the emulator
reads its socket (`DzrpQueue` lets it ignore what it reads), `Remote.disconnect` returns, vscode
answers a `TerminatedEvent`. All are weak but one: code of a test that does not loop ends (strong, since
the machine may be paused and continued). In the MC modules each condition carries the `part` it is
about. The user is fair in one place only: a test that stopped at a breakpoint is continued
(`UserContinues`); otherwise nobody promises to unlock a mutex, press a key or end a session. `LinesEnd` is an assumption of a
single property and about the debugged program.

## 4. The proofs

The modules `*Proofs` prove for all values of the constants what the runs check for small ones.

| Module | Theorem | Property of the runs |
|---|---|---|
| `DzrpQueueProofs` | `TypeCorrect`, `ResponsesMatch`, `PromisesKept`, `InOrder` | `TypeOK`, `OwnResponse`, `NoForgottenPromise`, `ExecutedInOrder` |
| | `Implements` | `ServiceSpec`, the refinement |
| | `TimerSound` | (proved only) the timer never elapses for an empty queue |
| `DzrpRunProofs` | `StopsAreReal`, `BreaksAreAwaited`, `ListIsSet` | `ReportedStopIsReal`, `BreakIsAwaited`, `RemoteInSync` |
| `MutexProofs` | `TypeCorrect`, `Excludes`, `WaitersServed` | `TypeOK`, `MutualExclusion`, `WaiterIsServed` |
| `SocketsProofs` | `QuitTidy`, `OwnAnswers`, `Received` | `QuitIsTidy`, `OwnAnswer`, `ReceivedWhole` |
| | `StopsClean` | `StoppedClean` |
| `SessionProofs` | `OneResponse`, `OwnSession`, `TestsAreJudged` | `ResponsesAreOnce`, `SessionsAreSeparate`, `VerdictsAreRight` |
| | `ShownCurrent` | `ShownIsCurrent` |
| | `ChangesTold`, `OneRunner` | (parts and consequences) the half of `ShownIsCurrent` about values; one loop over the tests at a time |
| `BreakpointsProofs` | `ListsMatch`, `EditsAreKept`, `NumbersKept` | `RemoteHasTheLists`, `FileAsGiven`, `NumbersMatch` |
| `ZSimProofs` | `Noticed`, `AllOrNothing` | `WatchesWork`, `StateIsRestored` |
| `CpuHistoryProofs` | `PastInOrder` | `HistoryInOrder` |

**Assumptions.** All are named in the modules and say of a bound or a parameter no more than what it is:
`QueueAssumption` (at least one sequence number, Boolean switches), `SteppingAssumption`, `LaunchesAssumption` and
`BoundsAssumption` (numbers of requests, sessions and calls are natural numbers), `RunnerAssumption` and `LengthsAreNumbers`
(so are those of clicks and tests, and the lengths of messages), `ListingsAssumption` (a list file has finitely many
labels, and a label is a sequence of names), `GroupsAssumption` (a program has finitely many groups of log points: the plan
that switches them off is a sequence of them), `ZesaruxAssumption` (finitely many assertions; the highest number and the
depth of calls are natural numbers), and
`ConstantsAssumption` of `ZSim` (an address is at most `Top`; a watchpoint begins in the memory and is at most as
large as the memory, since its size has 16 bits; it watches reads, writes or both). With the last one the model may
raise the counters of a watchpoint once per address, as the loop of `setWatchpoint` does.

**Queue.** `OwnResponse` is not inductive: whether the head takes a late answer depends on how the
sequence numbers of the calls relate. The invariant `IInv` adds

* `SeqNoWindow`: two calls less than `SeqMax` apart have different numbers. This is the arithmetic core: between
  them the number advances by their distance and wraps at most once;
* `QueueIsSuffix` and `NothingAhead`: the queue holds the latest calls, so whatever is on the wire is not
  younger than the head. Together: an answer with the head's number is the head's, or `SeqMax` calls old;
* `ContinuationsBehind`: what a pending write will settle has left the queue, and satisfies `OwnResponse`;
* `QueueUnsettled`, `UncalledPending`, `ParsingHasData`: only the head may be settled already.

Each action preserves each part (one lemma per action; the four ways a head leaves
the queue share `ShiftStep`). For `InOrder` and the refinement, `Sent` says that the emulator has
executed what comes before what is on the wire, and that what comes before what is not written yet, each in the order of the
calls; `Answered`, that no response and no settled promise stands for a command that was not executed. `Implements` then maps
each action to the step of the service it is, most of them to a stutter.

**Run control.** What the client believes and what the remote does are joined by what is on the wire. `OneRun`: between
two requests nobody awaits a break and none can come; otherwise there is exactly one of three things, the command to run on
its way, the running program, the notification of its break on its way. `EditInv`: an edit of an address is under way
once, as a command or as its answer, and the remote has carried it out in between. Both are about any number of addresses
and any traffic beside them.

**Mutex and quit.** `ListMatchesTasks` (the head owns, the others wait, nobody stands twice, who is late is not in the
list), `OwnerIsHead` (until a lock was stolen, who owns in time is the head) and `LateOwns` give the
theorems of the mutex. Every step of `quit` is a step of the mutex (`QuitNextIsNext`), so its invariant holds
for the calls of `quit`, too; `StateIsClosed` adds that the state UNCONNECTED is set where the socket closes, or by the silence
of ZEsarUX (`silent`).

**Queue of ZEsarUX.** The answers carry no number, so that an answer meets its own command depends on everything at once:
what is at the head, whether there is a run, whether it is in its critical phase, and what is on the wire. `Phase` lists the five
situations there are without crossing events (`Idle`, `Commanded`, `Starting`, `Started`, `Interrupted`), each with the few
contents of the wire that are possible; each action leads from phase to phase. The types and `InterruptHasRun` are proved for
events that cross, too.

**Sessions.** `ResponsesAreOnce`: a request that executes holds the flag `processingSteppingRequest`, is alone, and vscode shows a
running program (`Exclusive`); a request that waits for a stack is listed once and has no answer (`StacksOk`).
`SessionsAreSeparate`: what vscode shows of a session (`WhenNone` to `WhenClosing`) says where the adapter, the global `Remote`,
the ends that are under way and the test runner may be; five small tables that hold in calm environments only.

**The runner of the tests.** A verdict is reported of `currentTestItem`, whoever reports it; so the invariant must say whose
that is. As long as clicks do not overlap one handler is in its run; it owns the current test, and that test has failed
or is undecided (`RunnerInv`). The flags `timedOut`, `currentTestFailed` and `testCaseSetup` are about that test only, from
its start on: a timer that has fired is its own. Then what `PartEnds` decides by the flags is the right verdict, and
only the first one but for assertions that fail again.

**Values.** A request leaves nothing behind, and until it is done it knows what is to be told: what is unshown lies between
the static flags and the plan of the only request under way. Nothing is assumed of when requests come or fail: the invariant is
claimed until `overlapped` or `rejected` is set, and the part about the adapter's registers until `rejected` is.

**The tree of the tests.** As long as no watcher is left behind, the suite that a folder shows is that of its one watcher; a
watcher that is not to be told has shown what launch.json says, and a configuration that is neither to be told nor timed has the
labels of its list file. That each label is shown, as a test or as a suite with tests below, needs a longest label above each
label: there is one, because the labels above it form a finite set that gets smaller with each step up (`LongestLabel`, by
the well-founded order of strict subsets).

**The receiver of DZRP messages.** What is in the buffer and on the wire is the rest of one stream, in which message `m` begins
behind `start[m]` bytes. The invariant names the message that is being read and says that the buffer begins with its
first byte or behind its header, so the length that is read is its own. No induction over the messages is needed: `start` is a
function whose values are related by one step of the parser each.

**MAME.** What has arrived and is on its way is described by the *layouts* that a stream of half packets may have, what MAME
does and what the adapter waits for by the *phases* of a run. There are few pairs of both that go together (`MameInv`); each
action leads from one to another. Chunks only move half packets from the wire to the buffer, so the layouts speak of both in one
sequence, wherever chunks end and however many packets they hold.

**The ring of executed instructions.** `Age(i)` is how long ago place `i` of the ring was written. `RingKeepsYoungest`: a place
holds the line of its age; `PlaceIsSteps`: the place shown is the one whose age is the number of steps back. Both hold while the
ring fills and when it wraps; `HistoryInOrder` follows.

**Lists of breakpoints.** `FileAsGiven` speaks of the moment of the answer. `StillToDo` says it of every moment before: as long as
edits of a file have not overlapped, what lies between the list and what the user gave is what this edit is still to remove and
to add; `OwnFile` and `AloneInFile` keep other files' edits away, and `AddressesOnce` carries it to the next edit of the file: two entries of one address come from one edit.
`SwitchesMatch` is about tasks that run a plan, one command after the other, and speaks of the moment when all have ended.
`TaskInv` says it of every moment before: the kind whose loop runs is halfway (`Halfway`: what is still to do, what is on its way, what the remote
has), all other kinds match unless they are broken or forgotten, and new objects are made only behind the parts that switch the old ones off (`SuspendedFirst`).
Both invariants were checked by TLC before they were proved.

**Numbers of ZEsarUX.** A request is a list of commands and of what is done with their answers; between two of them everything
else may happen. So the invariant is about what each request has still to do. `RequestsInv`: the few shapes that the rest
of a request may have (`OpsInv`), and that commands leave the queue in turn. `RunInv`: the step's own number `MaxId + 1` is set
only in the middle of a run that has still to remove it, so a step ends where it should. `NumbersInv`: each number has
exactly one owner (`OneOwner`): the store of free ones, an entry of the list, an assertion, or the request that took it and
has not listed it yet; what is listed is set unless a request is about to remove it (`SetThere`). `NumbersMatch` alone is
not inductive, because it does not say who has a number while an answer is awaited. As the property itself, `NumbersInv`
speaks of switches one after the other (`OneSwitch`) and of no restored state: two switches give one number twice.

**Simulator.** `WatchInv`: a counter is the number of watchpoints that cover the address, so removing one of two leaves one, and
the program counter is an address, also a restored one; with the counters right, an instruction that makes a watched access
has a hit, and the hit ends the burst. `StateIsRestored` looks at the one action that restores.

**Only model-checked:** all liveness, for the provers have no support for fairness and ENABLED; what a recursive definition or
a fold computes over data, since induction theorems take an operator as a parameter, which the backends do not
instantiate. The latter is why the algorithms of `MCCode` (`CodeIsShown`, `CodeIsUnderstood`, `FormatsAreRead`) and the searches
and merged blocks of `MCMemoryView` (`MemoryIsShown`, `DiffIsExact`) stay with TLC. `StackIsShown` stays there, too: it compares two
ways to guess a stack, line by line in both directions, and its invariant would be about every pair of neighbouring lines
of programs that TLC bounds to four instructions.

## 5. Not modelled, and the plan

Not modelled, with the reason:

* **Lite reverse debugging** (`StepHistory` itself): two lists, filled with an await between them; the awaited call
  stack is already there, so nothing can come in between, and `clear` is empty (section 6). **ZEsarUX's own
  history** is a table that the emulator keeps and the remote reads.
* **Scopes, evaluate commands, watches, decorations, memory commands, the word view, reports:** text made of values
  that the other modules are about. Expressions are JavaScript's `eval`.
* **Z80 core, screens, keyboard, custom code's own JavaScript:** a library and rendering. Log points of the
  simulator are evaluated within one burst.
* **Encoders of single DZRP commands, ZEsarUX's texts, state files:** bytes, without control.
* **Connecting and closing sockets:** events of Node; the queues begin connected. `dzrptransporttest.ts` is a
  loop-back class for tests.
* **Settings, registration with vscode, log, welcome page:** no state the properties are about.

What could come next:

1. Proofs: the call stack of reverse debugging (`StackIsShown`), `MemoryIsShown` for blocks as they are.
2. Composition: the end of a session during a run (`dispose` clears
   `continueResolve` while a handler awaits), `DebugLifecycle` with `UnitTests`.
3. An abstract runner that `DzrpRun`, `ZSim` and `MameGdb` implement.

## 6. Disagreements met on the way

Four are shown by runs (`findings` in `PROJECT.json`):

* **The stuck queue** (`AlwaysSettles`): "The 'resolve' is called when the
  reply is received or when a timeout occurs" (`src/remotes/dzrp/dzrpqueuedremote.ts` l. 32). When one command
  times out and its answer comes late, `receivedMsg` stops the
  timer of the *next* command, rejects that one and leaves it at the head: the
  commands behind it are never sent.
* **The orphaned breakpoint** (`RemovedIsInMap`): removing a breakpoint that was
  confirmed while a break was evaluated fails the assertion of
  `removeTmpBreakpoint`; the client has forgotten the breakpoint, the remote keeps it.
* **The swallowed command** (`CalledInOrder`): when "Running until" and the
  breakpoint's answer are received in one piece, a command that was queued in between is taken for
  the interruption; its handler is never called.
* **The endless test** (`TestsTimeOut`): a timer that elapses while a test is prepared finds nothing to pause;
  the test that loops afterwards is never failed.

The following are seen in the code; the models behave like the code, and the
properties are stated so that they except them by name. Names in brackets are definitions that TLC
finds violated as an invariant or property of the module, or of `MCAlgorithms`.

Sessions and stepping
* `disconnectAll` returns at once when it is already running (`src/debugadapter.ts` l. 380): a second disconnect
  request is answered while the first still awaits the remote, and the old end then removes the
  remote of the next session (excluded by `calm`).
* `processingSteppingRequest` stays set when a command of a step rejects (l. 1553): all later steps are ignored
  (`HasFailed`).
* A stack request kept during the last await is answered with the frames read before it (l. 977, 1051). When the call stack
  cannot be read (l. 989, before the `try` of l. 996) the requests stay in `stackTraceResponses` for ever, and every later one only joins
  them (l. 978) (`callStackLost`).
* A pause pressed while a step is being prepared reaches a remote that is stopped, and is lost
  (`PauseStopsRun` says when it is not). A reverse continue of the lite history cannot be paused.
* Values changed by hand: overlapping requests clear each other's static flags (l. 2878/2924, `overlapped`); when the registers
  cannot be read back after they were written (`src/variables/shallowvar.ts` l. 234) no flag is set, `setExpressionRequest` and `setPcToLine` end
  without telling anybody, and a view or call stack that cannot be read stops what is still to be told (`rejected`);
  `setExpressionRequest` writes 0 for what it cannot parse (l. 1942) and, like `setPcToLine` and the system variables
  (`src/variables/zx81sysvar.ts` l. 85), changes values against "Altering values not allowed in time-travel mode."
  (`src/variables/shallowvar.ts` l. 67) (`TimeTravelKeeps`).
* The scopes share one `localStackVar` (l. 1296); a stack shown is not read again after an `InvalidatedEvent`
  (`shallowvar.ts` l. 357); the cache of watches is keyed by the expression only (l. 2211), so local labels of another
  frame are stale.

Breakpoints and remotes
* A breakpoint's log text is returned although its condition is not met (`src/remotes/dzrp/dzrpremote.ts` l. 774).
* A condition or log text that cannot be evaluated throws (l. 764-773). Continue and step-out catch it; step-over and step-into (l. 1069-1096)
  do not: `pauseStep` is not looked at and the promise of the step is never resolved (handler "failed" in `DzrpRun`).
* Two lines with one address, given in one edit, make two equal breakpoints (`src/remotes/remotebase.ts` l. 1250-1278, `newBps` is compared with
  the old list only): both are set at the remote, with two numbers (`FileAsGiven` says when).
* Breakpoints from comments: an error in the middle of a switch (l. 1238-1306) leaves the flag as it was and some of the objects set or
  removed; switching the kind off mends it, but a reload in between replaces the list and the old objects stay in the remote
  for good (`broken`, `forgotten`). An object whose add is not answered may be set without anybody knowing its number (`strays`).
  A remote that is full answers 0: the flag says enabled, the object is missing (`noRoom`).
* Reloads that overlap leave watchpoints that no list has; the access to a watchpoint that wraps at
  64k is attributed to none (l. 649).
* Overlapping switches of assertions lose a number of ZEsarUX or free it twice (`src/remotes/zesarux/zesaruxremote.ts` l. 901-918); `stateRestore` frees all numbers
  (`src/remotes/zesarux/zesaruxremote.ts` l. 300) while breakpoints keep theirs.
* `unlock` by a task whose lock has timed out releases the next task's lock (`src/misc/mutex.ts` l. 61).
* A second `quit` waits for events of a socket that is closed and is only settled by the mutex's timeout, or not at
  all (`src/remotes/zesarux/zesaruxsocket.ts` l. 659, `zesaruxremote.ts` l. 98) (`QuitSettles`). When
  ZEsarUX is silent for too long the connection's own listeners (l. 258-296) set UNCONNECTED and do not end the socket; `quit` then
  returns at once and leaves it open (`silent`).
* `sendBlank` does not look at the critical phase (`zesaruxsocket.ts` l. 477).
* A response without a request fails an assertion inside the socket's event handler; the bytes behind it wait for the next chunk.
* MAME: one call of `dataReceived` takes one packet (`src/remotes/mame/mamegdbremote.ts` l. 242): a stop that arrives
  glued to an answer stays in `receivedData` and is told when more arrives, after the next command or pause (`Asleep`).
* "Sets a specific register value." (`src/remotes/zsimulator/zsimremote.ts` l. 314): the setters of F and F' assign a field
  that does not exist, the one of D' assigns D (`SimulatorSetsOnly`). Restoring a state
  sets the T-states back but not the T-states of the next tick: custom code is not called "each time that 'timeStep' number of
  t-states have been passed" (`documentation/zsimPeripherals.md` l. 44) until they are reached again (`TicksInTime`).

Reverse debugging
* "We came from an interrupt. Remove interrupt address from call stack." (`src/remotes/cpuhistory.ts` l. 635): in a list
  read from the emulator an interrupt is a data word, so the caller's frame is lost (`InterruptRemoved`).
* A PUSH replayed forward is put at the wrong end of the frame's data (`unshift`, l. 815), everywhere else the youngest
  word is the last. Looking for a RST, the code reads the byte three before the return address (l. 602-615) where the
  RST is one before it. `stepOver` in the past says "Find next line with same SP" (l. 1059) but compares only the PC.
* `reloadLabels` (also run by a file watcher) empties the history in step back mode; the debugger is
  then out of step back mode and still shows the registers and the call stack of the past (`stale`).
* `StepHistory.clear` is documented to clear and does nothing (`src/remotes/stephistory.ts` l. 109); with
  `spotShowRegisters` off and a spot count the stepping request throws before its response (l. 374).

Unit tests
* Two clicks in the right moment run two loops at once (`src/z80unittests/z80unittestrunner.ts` l. 152)
  (`OneRunAtATime`). A tree rebuilt during a run aborts it: "No test config found." (l. 276, 408).
* Suites of configurations that were replaced are never disposed although "you need to call 'dispose()'"
  (`src/misc/filewatcher.ts` l. 13) (`WatchersAreInTheTree`); a removed folder keeps an empty item (`ClosedIsGone`). Only
  configurations of type `dezog` are looked for (`unittestcase.ts` l. 377).
* "If there are changes to the test cases it will be handled by the file watchers." (`unittestcase.ts` l. 208): removing a
  folder that has no launch.json throws before its watcher is disposed (l. 229). When the folder comes back two watchers
  make two suites of one launch.json, and the tree shows one that the map has forgotten (`ChangesAreHandled`).

Reading programs
* A refresh that falls into a disassembly (`src/disassembler/disassembly.ts` l. 195, between l. 235 and 309) empties its slots: no address
  is paged in any more, and a graph made then has no code, not even the PC. The refresh's own stack request is swallowed
  (`src/debugadapter.ts` l. 978), so that it stays until the next stop. A run into another bank in between leaves the memory of one bank with the slots of
  the other; memory that cannot be read leaves the new slots with the old graph (`SeenPcStays` says when not).
* Two banks may have one name (`src/remotes/MemoryModel/memorymodel.ts` l. 267) (`NamesIdentify`).
* "those source files are not shown during stepping" (`src/package.json` l. 785): the parsers of z88dk do not notice that an
  excluded file has ended, and leave out what follows, too (`OnlyExcludedIsLeftOut`);
  z88dk's line of an include counts as one of the included file (`src/labels/z88dklabelparser.ts` l. 203); z80asm's parser
  compares the name in the listing with the path in the source directory, and so misses where an included file starts
  (`z80asmlabelparser.ts` l. 143); `sourcesModeFinish` keeps the bank of the first byte only (`labelparserbase.ts` l. 446);
  distances of an earlier reading stay (`labels.ts` l. 88) (`DistancesAreOfThisReading`).
* Blocks of a view that lie within one another are shown twice (`src/misc/memorydump.ts` l. 282) (`CellsAreShownOnce`);
  near the top of the memory the last line is cut (l. 73).
* Negative values of four to six bytes are written wrong, `1 << (8*count)` being 32 bits
  (`src/misc/utility.ts` l. 815) (`LongValuesAreKept`). A dump in a struct tells wrong addresses behind its first hundred
  elements (`shallowvar.ts` l. 787-812) and sets big-endian elements little-endian (l. 845) (`DumpsAreShown`); the last row
  of a struct with an offset is too long (l. 457).

Views
* Overlapping updates, and Escape in a cell that changes, leave cells that are not the memory's (`ShownIsRead`);
  a search for a terminated string is repeated after an update without the terminator
  (`memorydump.ts` l. 498) (`FoundIsTerminated`); a new page shows a combo box whose criterion is not the one applied
  (`src/views/memorydiffview.ts` l. 165) (`ComboIsApplied`); Store during an update shows old values.

## 7. Running

    tlc -workers 2 -config Dzrp.cfg MCDzrp
    tlc -workers 2 -config Sockets.cfg MCSockets
    tlc -workers 2 -config Session.cfg MCSession
    tlc -workers 2 -config Breakpoints.cfg MCBreakpoints
    tlc -workers 2 -config ZSim.cfg MCZSim
    tlc -workers 2 -config CpuHistory.cfg CpuHistory
    tlc -workers 2 -config Code.cfg MCCode
    tlc -workers 2 -config MemoryView.cfg MCMemoryView
    tlapm DzrpQueueProofs.tla
    tlapm DzrpRunProofs.tla
    tlapm MutexProofs.tla
    tlapm SocketsProofs.tla
    tlapm SessionProofs.tla
    tlapm BreakpointsProofs.tla
    tlapm ZSimProofs.tla
    tlapm CpuHistoryProofs.tla

Each run takes between some seconds and four minutes, each module of proofs up to fifteen.
